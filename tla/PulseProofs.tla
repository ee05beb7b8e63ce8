------------------------------ MODULE PulseProofs ------------------------------
(***************************************************************************)
(* Proofs about PulseBackend, for blocks and requests of any size.         *)
(***************************************************************************)
EXTENDS PulseBackend, OperatorProofs

\* A callback runs with the lock, and the main thread has it only while it
\* awaits an answer, or when there is no loop thread to want it.
Locking ==
  /\ cbPc # "idle" <=> lock = "loop"
  /\ lock = "main" => mainPc \in Awaiting \/ mainloop # "running"

\* The phases before start() has activated the stream, those with the
\* synthesizer started, and those without a loop thread.
Inactive == {"create", "lock", "awaitContext", "awaitStream", "start", "startLock", "awaitUncork"}
Started == {"awaitUncork", "activate", "loop", "stop", "stopLock", "awaitCork", "deactivate"}
Threadless == {"create", "lock", "free", "freeSynth", "exited"}

\* The callback can see an active stream only once the synthesizer is started
\* and before it is freed.
Activity ==
  /\ mainPc \in Inactive => activeSeen = {FALSE}
  /\ mainPc \in Inactive \cup {"destroy"} => ~isActive
  /\ mainPc \in Started => synth \in {"started", "stopped"}
  /\ mainPc \in Threadless => mainloop # "running"
  /\ (isActive \/ TRUE \in activeSeen) /\ mainloop = "running"
       => synth \in {"started", "stopped"}
  /\ cbPc = "mix" => mainloop = "running" /\ synth \in {"started", "stopped"}

\* A cork is pending only while its answer is awaited, and has_success says
\* that this one has been answered.
Acks ==
  /\ mainPc \notin {"awaitUncork", "awaitCork"} => pendingCork = "none"
  /\ mainPc = "awaitUncork" => pendingCork \in {"none", "uncork"}
  /\ mainPc = "awaitCork" => pendingCork \in {"none", "cork"}
  /\ mainPc \in {"startLock", "stopLock"} => ~hasSuccess
  /\ mainPc = "awaitUncork" /\ hasSuccess => answered = "uncork" /\ pendingCork = "none"
  /\ mainPc = "awaitCork" /\ hasSuccess => answered = "cork" /\ pendingCork = "none"
  /\ ReturnsOnlyWhenAnswered

\* The request is filled up to out_interleaved.
Filling ==
  /\ cbPc = "mix" => \E n \in 0 .. frames : output = Interleaved(n)
  /\ cbPc = "silence" => output = Silent(frames)

IInv == ControlTypes /\ FrameTypes /\ Locking /\ Activity /\ Acks /\ Filling

LEMMA SilentSamples ==
  ASSUME NEW n \in Nat
  PROVE  Silent(n) \in Seq(Samples) /\ Len(Silent(n)) = 2 * n
<1>1. Silence \in Samples
  BY DEF Silence, Sample, Samples
<1>2. Silent(n) \in [1 .. 2 * n -> Samples] /\ 2 * n \in Nat
  BY <1>1 DEF Silent
<1>3. DOMAIN Silent(n) = 1 .. 2 * n
  BY DEF Silent
<1> QED
  BY <1>2, <1>3

LEMMA InitIInv == Init => IInv
<1> SUFFICES ASSUME Init PROVE IInv
  OBVIOUS
<1>1. ControlTypes
  BY DEF Init, ControlTypes
<1>2. FrameTypes
  <2>1. output \in Seq(Samples) /\ Len(output) <= 2 * frames
    BY DEF Init
  <2>2. frames \in 0 .. MaxRequest
    BY PulseConstants DEF Init
  <2> QED
    BY <2>1, <2>2 DEF FrameTypes
<1>3. Locking /\ Activity /\ Acks /\ Filling
  BY DEF Init, Locking, Activity, Inactive, Started, Threadless, Acks, Awaiting,
         ReturnsOnlyWhenAnswered, Filling
<1> QED
  BY <1>1, <1>2, <1>3 DEF IInv

\* A step that leaves the callback leaves what it has filled.
LEMMA KeepsFilling ==
  ASSUME Filling, FrameTypes, UNCHANGED callback
  PROVE  Filling' /\ FrameTypes'
<1>1. cbPc' = cbPc /\ frames' = frames /\ output' = output
  BY DEF callback
<1> QED
  BY <1>1 DEF Filling, FrameTypes

-----------------------------------------------------------------------------
(* The main thread, then the callbacks of the server: none of them touches  *)
(* the buffer of a request.                                                  *)

LEMMA CreateContextIInv ==
  ASSUME IInv, CreateContext
  PROVE  IInv'
<1>1. UNCHANGED callback
  BY DEF CreateContext
<1>2. ControlTypes'
  BY <1>1 DEF IInv, ControlTypes, Awaiting, objects, acks, active, callback,
         CreateContext
<1>3. Locking' /\ Activity' /\ Acks'
  BY <1>1 DEF IInv, ControlTypes, Locking, Activity, Inactive, Started, Threadless, Acks,
         ReturnsOnlyWhenAnswered, Awaiting, objects, acks, active, callback,
         CreateContext
<1> QED
  BY <1>1, <1>2, <1>3, KeepsFilling DEF IInv

LEMMA StartMainloopIInv ==
  ASSUME IInv, StartMainloop
  PROVE  IInv'
<1>1. UNCHANGED callback
  BY DEF StartMainloop
<1>2. ControlTypes'
  BY <1>1 DEF IInv, ControlTypes, Awaiting, objects, acks, active, callback,
         StartMainloop
<1>3. Locking' /\ Activity' /\ Acks'
  BY <1>1 DEF IInv, ControlTypes, Locking, Activity, Inactive, Started, Threadless, Acks,
         ReturnsOnlyWhenAnswered, Awaiting, objects, acks, active, callback,
         StartMainloop
<1> QED
  BY <1>1, <1>2, <1>3, KeepsFilling DEF IInv

LEMMA AwaitContextIInv ==
  ASSUME IInv, AwaitContext
  PROVE  IInv'
<1>1. UNCHANGED callback
  BY DEF AwaitContext, Wait, Unlocked
<1>2. ControlTypes'
  BY <1>1 DEF IInv, ControlTypes, Awaiting, objects, acks, active, callback,
         AwaitContext, Wait, Unlocked
<1>3. Locking' /\ Activity' /\ Acks'
  BY <1>1 DEF IInv, ControlTypes, Locking, Activity, Inactive, Started, Threadless, Acks,
         ReturnsOnlyWhenAnswered, Awaiting, objects, acks, active, callback,
         AwaitContext, Wait, Unlocked
<1> QED
  BY <1>1, <1>2, <1>3, KeepsFilling DEF IInv

LEMMA AwaitStreamIInv ==
  ASSUME IInv, AwaitStream
  PROVE  IInv'
<1>1. UNCHANGED callback
  BY DEF AwaitStream, Wait, Unlocked
<1>2. ControlTypes'
  BY <1>1 DEF IInv, ControlTypes, Awaiting, objects, acks, active, callback, AwaitStream,
         Wait, Unlocked
<1>3. Locking' /\ Activity' /\ Acks'
  BY <1>1 DEF IInv, ControlTypes, Locking, Activity, Inactive, Started, Threadless, Acks,
         ReturnsOnlyWhenAnswered, Awaiting, objects, acks, active, callback, AwaitStream,
         Wait, Unlocked
<1> QED
  BY <1>1, <1>2, <1>3, KeepsFilling DEF IInv

LEMMA ResetStartIInv ==
  ASSUME IInv, ResetAck("start", "startLock")
  PROVE  IInv'
<1>1. UNCHANGED callback
  BY DEF ResetAck
<1>2. ControlTypes'
  <2>1. waiting' \in BOOLEAN /\ hasSuccess' \in BOOLEAN /\ isActive' \in BOOLEAN
    BY Zenon DEF IInv, ControlTypes, objects, acks, active, ResetAck
  <2>2. startOk' \in BOOLEAN
    BY Zenon DEF IInv, ControlTypes, ResetAck
  <2> QED
    BY <1>1, <2>1, <2>2 DEF IInv, ControlTypes, Awaiting, objects, acks, active,
           callback, ResetAck
<1>3. Locking' /\ Activity' /\ Acks'
  BY <1>1 DEF IInv, ControlTypes, Locking, Activity, Inactive, Started, Threadless, Acks,
         ReturnsOnlyWhenAnswered, Awaiting, objects, acks, active, callback, ResetAck
<1> QED
  BY <1>1, <1>2, <1>3, KeepsFilling DEF IInv

LEMMA StartLockedIInv ==
  ASSUME IInv, StartLocked
  PROVE  IInv'
<1>1. UNCHANGED callback
  BY DEF StartLocked, Cork
<1>2. ControlTypes'
  BY <1>1 DEF IInv, ControlTypes, Awaiting, objects, acks, active, callback, StartLocked,
         Cork
<1>3. Locking' /\ Activity' /\ Acks'
  BY <1>1 DEF IInv, ControlTypes, Locking, Activity, Inactive, Started, Threadless, Acks,
         ReturnsOnlyWhenAnswered, Awaiting, objects, acks, active, callback, StartLocked,
         Cork
<1> QED
  BY <1>1, <1>2, <1>3, KeepsFilling DEF IInv

LEMMA AwaitUncorkIInv ==
  ASSUME IInv, AwaitUncork
  PROVE  IInv'
<1>1. UNCHANGED callback
  BY DEF AwaitUncork, Wait, Unlocked
<1>2. ControlTypes'
  BY <1>1 DEF IInv, ControlTypes, Awaiting, objects, acks, active, callback, AwaitUncork,
         Wait, Unlocked
<1>3. Locking' /\ Activity' /\ Acks'
  BY <1>1 DEF IInv, ControlTypes, Locking, Activity, Inactive, Started, Threadless, Acks,
         ReturnsOnlyWhenAnswered, Awaiting, objects, acks, active, callback, AwaitUncork,
         Wait, Unlocked
<1> QED
  BY <1>1, <1>2, <1>3, KeepsFilling DEF IInv

LEMMA ActivateIInv ==
  ASSUME IInv, Activate
  PROVE  IInv'
<1>1. UNCHANGED callback
  BY DEF Activate, WriteActive
<1>2. ControlTypes'
  <2>1. waiting' \in BOOLEAN /\ hasSuccess' \in BOOLEAN /\ isActive' \in BOOLEAN
    BY Zenon DEF IInv, ControlTypes, objects, acks, active, Activate, WriteActive
  <2>2. startOk' \in BOOLEAN
    <3>1. startOk' = (success >= 0)
      BY Zenon DEF Activate
    <3>2. (success >= 0) \in BOOLEAN
      BY SMT
    <3> QED
      BY <3>1, <3>2
  <2>3. activeSeen' \in SUBSET BOOLEAN
    BY Zenon DEF IInv, ControlTypes, Activate, WriteActive
  <2>4. /\ mainPc' = "loop"
        /\ UNCHANGED <<waiting, lock, mainloop, context, stream, pendingCork, answered,
                       success, synth, cbPc>>
    BY <1>1 DEF Activate, objects, callback
  <2> QED
    BY <2>1, <2>2, <2>3, <2>4 DEF IInv, ControlTypes
<1>3. Locking' /\ Activity' /\ Acks'
  BY <1>1 DEF IInv, ControlTypes, Locking, Activity, Inactive, Started, Threadless, Acks,
         ReturnsOnlyWhenAnswered, Awaiting, objects, acks, active, callback, Activate,
         WriteActive
<1> QED
  BY <1>1, <1>2, <1>3, KeepsFilling DEF IInv

LEMMA ResetStopIInv ==
  ASSUME IInv, ResetAck("stop", "stopLock")
  PROVE  IInv'
<1>1. UNCHANGED callback
  BY DEF ResetAck
<1>2. ControlTypes'
  <2>1. waiting' \in BOOLEAN /\ hasSuccess' \in BOOLEAN /\ isActive' \in BOOLEAN
    BY Zenon DEF IInv, ControlTypes, objects, acks, active, ResetAck
  <2>2. startOk' \in BOOLEAN
    BY Zenon DEF IInv, ControlTypes, ResetAck
  <2> QED
    BY <1>1, <2>1, <2>2 DEF IInv, ControlTypes, Awaiting, objects, acks, active,
           callback, ResetAck
<1>3. Locking' /\ Activity' /\ Acks'
  BY <1>1 DEF IInv, ControlTypes, Locking, Activity, Inactive, Started, Threadless, Acks,
         ReturnsOnlyWhenAnswered, Awaiting, objects, acks, active, callback, ResetAck
<1> QED
  BY <1>1, <1>2, <1>3, KeepsFilling DEF IInv

LEMMA StopLockedIInv ==
  ASSUME IInv, StopLocked
  PROVE  IInv'
<1>1. UNCHANGED callback
  BY DEF StopLocked, Cork
<1>2. ControlTypes'
  BY <1>1 DEF IInv, ControlTypes, Awaiting, objects, acks, active, callback, StopLocked,
         Cork
<1>3. Locking' /\ Activity' /\ Acks'
  BY <1>1 DEF IInv, ControlTypes, Locking, Activity, Inactive, Started, Threadless, Acks,
         ReturnsOnlyWhenAnswered, Awaiting, objects, acks, active, callback, StopLocked,
         Cork
<1> QED
  BY <1>1, <1>2, <1>3, KeepsFilling DEF IInv

LEMMA AwaitCorkIInv ==
  ASSUME IInv, AwaitCork
  PROVE  IInv'
<1>1. UNCHANGED callback
  BY DEF AwaitCork, Wait, Unlocked
<1>2. ControlTypes'
  BY <1>1 DEF IInv, ControlTypes, Awaiting, objects, acks, active, callback, AwaitCork,
         Wait, Unlocked
<1>3. Locking'
  BY <1>1 DEF IInv, ControlTypes, Locking, Awaiting, objects, acks, active, callback,
         AwaitCork, Wait, Unlocked
<1>4. Activity'
  BY <1>1 DEF IInv, ControlTypes, Locking, Activity, Inactive, Started, Threadless,
         Awaiting, objects, acks, active, callback, AwaitCork, Wait, Unlocked
<1>5. Acks'
  BY <1>1 DEF IInv, ControlTypes, Acks, ReturnsOnlyWhenAnswered, Awaiting, objects, acks,
         active, callback, AwaitCork, Wait, Unlocked
<1> QED
  BY <1>1, <1>2, <1>3, <1>4, <1>5, KeepsFilling DEF IInv

LEMMA DeactivateIInv ==
  ASSUME IInv, Deactivate
  PROVE  IInv'
<1>1. UNCHANGED callback
  BY DEF Deactivate, WriteActive
<1>2. ControlTypes'
  <2>1. waiting' \in BOOLEAN /\ hasSuccess' \in BOOLEAN /\ isActive' \in BOOLEAN
    BY Zenon DEF IInv, ControlTypes, objects, acks, active, Deactivate, WriteActive
  <2>2. startOk' \in BOOLEAN
    BY Zenon DEF IInv, ControlTypes, Deactivate, WriteActive
  <2>3. activeSeen' \in SUBSET BOOLEAN
    BY Zenon DEF IInv, ControlTypes, Deactivate, WriteActive
  <2>4. /\ mainPc' = "destroy"
        /\ UNCHANGED <<waiting, lock, mainloop, context, stream, pendingCork, answered,
                       success, synth, cbPc>>
    BY <1>1 DEF Deactivate, objects, callback
  <2> QED
    BY <2>1, <2>2, <2>3, <2>4 DEF IInv, ControlTypes
<1>3. Locking' /\ Activity' /\ Acks'
  BY <1>1 DEF IInv, ControlTypes, Locking, Activity, Inactive, Started, Threadless, Acks,
         ReturnsOnlyWhenAnswered, Awaiting, objects, acks, active, callback, Deactivate,
         WriteActive
<1> QED
  BY <1>1, <1>2, <1>3, KeepsFilling DEF IInv

LEMMA DestroyIInv ==
  ASSUME IInv, Destroy
  PROVE  IInv'
<1>1. UNCHANGED callback
  BY DEF Destroy
<1>2. ControlTypes'
  BY <1>1 DEF IInv, ControlTypes, Awaiting, objects, acks, active, callback, Destroy
<1>3. Locking' /\ Activity' /\ Acks'
  BY <1>1 DEF IInv, ControlTypes, Locking, Activity, Inactive, Started, Threadless, Acks,
         ReturnsOnlyWhenAnswered, Awaiting, objects, acks, active, callback, Destroy
<1> QED
  BY <1>1, <1>2, <1>3, KeepsFilling DEF IInv

LEMMA JoinIInv ==
  ASSUME IInv, Join
  PROVE  IInv'
<1>1. UNCHANGED callback
  BY DEF Join
<1>2. ControlTypes'
  BY <1>1 DEF IInv, ControlTypes, Awaiting, objects, acks, active, callback, Join
<1>3. Locking' /\ Activity' /\ Acks'
  BY <1>1 DEF IInv, ControlTypes, Locking, Activity, Inactive, Started, Threadless, Acks,
         ReturnsOnlyWhenAnswered, Awaiting, objects, acks, active, callback, Join
<1> QED
  BY <1>1, <1>2, <1>3, KeepsFilling DEF IInv

LEMMA FreeIInv ==
  ASSUME IInv, Free
  PROVE  IInv'
<1>1. UNCHANGED callback
  BY DEF Free
<1>2. ControlTypes'
  BY <1>1 DEF IInv, ControlTypes, Awaiting, objects, acks, active, callback, Free
<1>3. Locking' /\ Activity' /\ Acks'
  BY <1>1 DEF IInv, ControlTypes, Locking, Activity, Inactive, Started, Threadless, Acks,
         ReturnsOnlyWhenAnswered, Awaiting, objects, acks, active, callback, Free
<1> QED
  BY <1>1, <1>2, <1>3, KeepsFilling DEF IInv

LEMMA FreeSynthIInv ==
  ASSUME IInv, FreeSynth
  PROVE  IInv'
<1>1. UNCHANGED callback
  BY DEF FreeSynth
<1>2. ControlTypes'
  BY <1>1 DEF IInv, ControlTypes, Awaiting, objects, acks, active, callback, FreeSynth
<1>3. Locking' /\ Activity' /\ Acks'
  BY <1>1 DEF IInv, ControlTypes, Locking, Activity, Inactive, Started, Threadless, Acks,
         ReturnsOnlyWhenAnswered, Awaiting, objects, acks, active, callback, FreeSynth
<1> QED
  BY <1>1, <1>2, <1>3, KeepsFilling DEF IInv

LEMMA QuitLoopIInv ==
  ASSUME IInv, QuitLoop
  PROVE  IInv'
<1>1. UNCHANGED callback
  BY DEF QuitLoop
<1>2. ControlTypes'
  BY <1>1 DEF IInv, ControlTypes, Awaiting, objects, acks, active, callback, QuitLoop
<1>3. Locking' /\ Activity' /\ Acks'
  BY <1>1 DEF IInv, ControlTypes, Locking, Activity, Inactive, Started, Threadless, Acks,
         ReturnsOnlyWhenAnswered, Awaiting, objects, acks, active, callback, QuitLoop
<1> QED
  BY <1>1, <1>2, <1>3, KeepsFilling DEF IInv

LEMMA ReacquireIInv ==
  ASSUME IInv, Reacquire
  PROVE  IInv'
<1>1. UNCHANGED callback
  BY DEF Reacquire
<1>2. ControlTypes'
  BY <1>1 DEF IInv, ControlTypes, Awaiting, objects, acks, active, callback, Reacquire
<1>3. Locking' /\ Activity' /\ Acks'
  BY <1>1 DEF IInv, ControlTypes, Locking, Activity, Inactive, Started, Threadless, Acks,
         ReturnsOnlyWhenAnswered, Awaiting, objects, acks, active, callback, Reacquire
<1> QED
  BY <1>1, <1>2, <1>3, KeepsFilling DEF IInv

LEMMA SpuriousWakeupIInv ==
  ASSUME IInv, SpuriousWakeup
  PROVE  IInv'
<1>1. UNCHANGED callback
  BY DEF SpuriousWakeup
<1>2. ControlTypes'
  <2>1. waiting' \in BOOLEAN /\ hasSuccess' \in BOOLEAN /\ isActive' \in BOOLEAN
    BY Zenon DEF IInv, ControlTypes, objects, acks, active, SpuriousWakeup
  <2>2. startOk' \in BOOLEAN
    BY Zenon DEF IInv, ControlTypes, SpuriousWakeup
  <2> QED
    BY <1>1, <2>1, <2>2 DEF IInv, ControlTypes, Awaiting, objects, acks, active,
           callback, SpuriousWakeup
<1>3. Locking'
  BY <1>1 DEF IInv, ControlTypes, Locking, Awaiting, objects, acks, active, callback,
         SpuriousWakeup
<1>4. Activity'
  BY <1>1 DEF IInv, ControlTypes, Locking, Activity, Inactive, Started, Threadless,
         Awaiting, objects, acks, active, callback, SpuriousWakeup
<1>5. Acks'
  BY <1>1 DEF IInv, ControlTypes, Acks, ReturnsOnlyWhenAnswered, Awaiting, objects, acks,
         active, callback, SpuriousWakeup
<1> QED
  BY <1>1, <1>2, <1>3, <1>4, <1>5, KeepsFilling DEF IInv

LEMMA ContextAnswersIInv ==
  ASSUME IInv, ContextAnswers
  PROVE  IInv'
<1>1. UNCHANGED callback
  BY DEF ContextAnswers, Dispatching
<1>2. ControlTypes'
  <2>1. waiting' \in BOOLEAN /\ hasSuccess' \in BOOLEAN /\ isActive' \in BOOLEAN
    BY Zenon DEF IInv, ControlTypes, objects, acks, active, ContextAnswers, Dispatching
  <2>2. startOk' \in BOOLEAN
    BY Zenon DEF IInv, ControlTypes, ContextAnswers, Dispatching
  <2> QED
    BY <1>1, <2>1, <2>2 DEF IInv, ControlTypes, Awaiting, objects, acks, active,
           callback, ContextAnswers, Dispatching
<1>3. Locking' /\ Activity' /\ Acks'
  BY <1>1 DEF IInv, ControlTypes, Locking, Activity, Inactive, Started, Threadless, Acks,
         ReturnsOnlyWhenAnswered, Awaiting, objects, acks, active, callback,
         ContextAnswers, Dispatching
<1> QED
  BY <1>1, <1>2, <1>3, KeepsFilling DEF IInv

LEMMA StreamAnswersIInv ==
  ASSUME IInv, StreamAnswers
  PROVE  IInv'
<1>1. UNCHANGED callback
  BY DEF StreamAnswers, Dispatching
<1>2. ControlTypes'
  <2>1. waiting' \in BOOLEAN /\ hasSuccess' \in BOOLEAN /\ isActive' \in BOOLEAN
    BY Zenon DEF IInv, ControlTypes, objects, acks, active, StreamAnswers, Dispatching
  <2>2. startOk' \in BOOLEAN
    BY Zenon DEF IInv, ControlTypes, StreamAnswers, Dispatching
  <2> QED
    BY <1>1, <2>1, <2>2 DEF IInv, ControlTypes, Awaiting, objects, acks, active,
           callback, StreamAnswers, Dispatching
<1>3. Locking' /\ Activity' /\ Acks'
  BY <1>1 DEF IInv, ControlTypes, Locking, Activity, Inactive, Started, Threadless, Acks,
         ReturnsOnlyWhenAnswered, Awaiting, objects, acks, active, callback,
         StreamAnswers, Dispatching
<1> QED
  BY <1>1, <1>2, <1>3, KeepsFilling DEF IInv

LEMMA CorkAnswersIInv ==
  ASSUME IInv, CorkAnswers
  PROVE  IInv'
<1>1. UNCHANGED callback
  BY DEF CorkAnswers, Dispatching
<1>2. ControlTypes'
  <2>1. waiting' \in BOOLEAN /\ hasSuccess' \in BOOLEAN /\ isActive' \in BOOLEAN
    BY Zenon DEF IInv, ControlTypes, objects, acks, active, CorkAnswers, Dispatching
  <2>2. startOk' \in BOOLEAN
    BY Zenon DEF IInv, ControlTypes, CorkAnswers, Dispatching
  <2> QED
    BY <1>1, <2>1, <2>2 DEF IInv, ControlTypes, Awaiting, objects, acks, active,
           callback, CorkAnswers, Dispatching
<1>3. Locking' /\ Activity' /\ Acks'
  BY <1>1 DEF IInv, ControlTypes, Locking, Activity, Inactive, Started, Threadless, Acks,
         ReturnsOnlyWhenAnswered, Awaiting, objects, acks, active, callback, CorkAnswers,
         Dispatching
<1> QED
  BY <1>1, <1>2, <1>3, KeepsFilling DEF IInv

LEMMA ServerDiesIInv ==
  ASSUME IInv, ServerDies
  PROVE  IInv'
<1>1. UNCHANGED callback
  BY DEF ServerDies, Dispatching
<1>2. ControlTypes'
  <2>1. waiting' \in BOOLEAN /\ hasSuccess' \in BOOLEAN /\ isActive' \in BOOLEAN
    BY Zenon DEF IInv, ControlTypes, objects, acks, active, ServerDies, Dispatching
  <2>2. startOk' \in BOOLEAN
    BY Zenon DEF IInv, ControlTypes, ServerDies, Dispatching
  <2> QED
    BY <1>1, <2>1, <2>2 DEF IInv, ControlTypes, Awaiting, objects, acks, active,
           callback, ServerDies, Dispatching
<1>3. Locking' /\ Activity' /\ Acks'
  BY <1>1 DEF IInv, ControlTypes, Locking, Activity, Inactive, Started, Threadless, Acks,
         ReturnsOnlyWhenAnswered, Awaiting, objects, acks, active, callback, ServerDies,
         Dispatching
<1> QED
  BY <1>1, <1>2, <1>3, KeepsFilling DEF IInv

-----------------------------------------------------------------------------
(* The request callback.                                                     *)

\* The steps of the request callback leave the main thread's state.
LEMMA RequestBeginsIInv ==
  ASSUME IInv, RequestBegins
  PROVE  IInv'
<1>1. /\ UNCHANGED <<mainPc, waiting, mainloop, context, stream, pendingCork, answered,
                     hasSuccess, success, isActive, activeSeen, startOk, synth>>
      /\ mainloop = "running" /\ lock' = "loop"
  BY DEF RequestBegins, Dispatching, objects, acks, active
<1>2. PICK n \in 1 .. MaxRequest, a \in activeSeen :
        /\ frames' = n
        /\ IF a THEN cbPc' = "mix" /\ output' = <<>>
                ELSE cbPc' = "silence" /\ output' = Silent(n)
  BY DEF RequestBegins
<1>3. cbPc' \in {"mix", "silence"} /\ (cbPc' = "mix" => a)
  BY <1>2
<1>4. n \in Nat /\ n \in 0 .. MaxRequest
  BY PulseConstants
<1>5. a \in BOOLEAN
  BY DEF IInv, ControlTypes
<1>6. Silent(n) \in Seq(Samples) /\ Len(Silent(n)) = 2 * n
  BY <1>4, SilentSamples
<1>7. Interleaved(0) = <<>>
  <2>1. Interleaved(0) \in Seq(Samples) /\ Len(Interleaved(0)) = 0
    BY InterleavedSamples
  <2> QED
    BY <2>1, EmptySeq
<1>8. FrameTypes'
  <2>1. output' \in Seq(Samples) /\ Len(output') \in {0, 2 * n}
    <3>1. <<>> \in Seq(Samples) /\ Len(<<>>) = 0
      OBVIOUS
    <3> QED
      BY <1>2, <1>6, <3>1
  <2>2. Len(output') <= 2 * n
    BY <1>4, <2>1
  <2> QED
    BY <1>2, <1>4, <2>1, <2>2 DEF FrameTypes
<1>9. Filling'
  <2>1. CASE a
    <3>1. cbPc' = "mix" /\ output' = <<>> /\ frames' = n
      BY <1>2, <2>1
    <3>2. 0 \in 0 .. n
      BY <1>4
    <3> QED
      BY <1>7, <3>1, <3>2 DEF Filling
  <2>2. CASE ~a
    BY <1>2, <2>2 DEF Filling
  <2> QED
    BY <1>5, <2>1, <2>2
<1>10. ControlTypes'
  BY <1>1, <1>3 DEF IInv, ControlTypes
<1>11. Locking' /\ Acks'
  BY <1>1, <1>3 DEF IInv, Locking, Acks, ReturnsOnlyWhenAnswered
<1>12. Activity'
  <2>1. cbPc' = "mix" => TRUE \in activeSeen
    BY <1>3, <1>5
  <2> QED
    BY <1>1, <2>1 DEF IInv, Activity
<1> QED
  BY <1>8, <1>9, <1>10, <1>11, <1>12 DEF IInv

\* What the callback has filled while it mixes.
LEMMA FilledSoFar ==
  ASSUME FrameTypes, Filling, cbPc = "mix"
  PROVE  /\ frames \in Nat /\ Filled \in 0 .. frames
         /\ output = Interleaved(Filled)
<1>1. frames \in Nat
  BY PulseConstants DEF FrameTypes
<1>2. PICK n \in 0 .. frames : output = Interleaved(n)
  BY DEF Filling
<1>3. n \in Nat /\ Len(output) = 2 * n
  BY <1>1, <1>2, InterleavedSamples
<1>4. Filled = n
  BY <1>3 DEF Filled
<1> QED
  BY <1>1, <1>2, <1>4

LEMMA MixBlockIInv ==
  ASSUME IInv, MixBlock
  PROVE  IInv'
<1> DEFINE count == LeastOf(frames - Filled, MaxNumSamples)
           done == Filled
<1>1. /\ UNCHANGED <<mainPc, waiting, lock, mainloop, context, stream, pendingCork, answered,
                     hasSuccess, success, isActive, activeSeen, startOk, synth, cbPc, frames>>
      /\ cbPc = "mix" /\ done < frames
      /\ output' = output \o InterleaveStereo(count, done)
  BY DEF MixBlock, objects, acks, active
<1>2. /\ frames \in Nat /\ done \in 0 .. frames
      /\ output = Interleaved(done)
  BY <1>1, FilledSoFar DEF IInv
<1> HIDE DEF done
<1>3. count \in Nat /\ done + count \in 0 .. frames /\ done \in Nat
  <2>1. MaxNumSamples \in Nat \ {0}
    BY PulseConstants
  <2>2. count = IF frames - done < MaxNumSamples THEN frames - done ELSE MaxNumSamples
    BY DEF LeastOf, done
  <2> HIDE DEF count
  <2> QED
    BY <1>1, <1>2, <2>1, <2>2
<1> HIDE DEF count
<1>4. output' = Interleaved(done + count)
  BY <1>1, <1>2, <1>3, BlockExtendsOutput
<1>5. FrameTypes'
  <2>1. done + count \in Nat /\ frames' = frames
    BY <1>1, <1>3
  <2>2. output' \in Seq(Samples) /\ Len(output') = 2 * (done + count)
    BY <1>4, <2>1, InterleavedSamples
  <2>3. Len(output') <= 2 * frames
    BY <1>2, <1>3, <2>2
  <2> QED
    BY <2>1, <2>2, <2>3 DEF IInv, FrameTypes
<1>6. Filling'
  BY <1>1, <1>3, <1>4 DEF Filling
<1>7. ControlTypes'
  BY <1>1 DEF IInv, ControlTypes
<1>8. Locking' /\ Activity' /\ Acks'
  BY <1>1 DEF IInv, Locking, Activity, Acks, ReturnsOnlyWhenAnswered
<1> QED
  BY <1>5, <1>6, <1>7, <1>8 DEF IInv

LEMMA RequestEndsIInv ==
  ASSUME IInv, RequestEnds
  PROVE  IInv'
<1>1. /\ UNCHANGED <<mainPc, waiting, mainloop, context, stream, pendingCork, answered,
                     hasSuccess, success, isActive, activeSeen, startOk, synth>>
      /\ cbPc' = "idle" /\ lock' = "free" /\ frames' = 0 /\ output' = <<>>
  BY DEF RequestEnds, objects, acks, active
<1>2. FrameTypes'
  <2>1. output' \in Seq(Samples) /\ Len(output') <= 2 * frames'
    BY <1>1
  <2>2. frames' \in 0 .. MaxRequest
    BY <1>1, PulseConstants
  <2> QED
    BY <2>1, <2>2 DEF FrameTypes
<1>3. ControlTypes'
  BY <1>1 DEF IInv, ControlTypes
<1>4. Locking' /\ Activity' /\ Acks' /\ Filling'
  BY <1>1 DEF IInv, Locking, Activity, Acks, ReturnsOnlyWhenAnswered, Filling
<1> QED
  BY <1>2, <1>3, <1>4 DEF IInv

LEMMA StutterIInv ==
  ASSUME IInv, UNCHANGED vars
  PROVE  IInv'
<1>1. UNCHANGED <<mainPc, waiting, lock, mainloop, context, stream, pendingCork, answered,
                  hasSuccess, success, isActive, activeSeen, startOk, synth, cbPc>>
      /\ UNCHANGED callback
  BY DEF vars, objects, acks, active, callback
<1>2. ControlTypes'
  BY <1>1 DEF IInv, ControlTypes
<1>3. Locking' /\ Activity' /\ Acks'
  BY <1>1 DEF IInv, Locking, Activity, Acks, ReturnsOnlyWhenAnswered
<1> QED
  BY <1>1, <1>2, <1>3, KeepsFilling DEF IInv

LEMMA NextIInv == IInv /\ [Next]_vars => IInv'
<1> SUFFICES ASSUME IInv, [Next]_vars PROVE IInv'
  OBVIOUS
<1>1. CASE MainStep
  BY <1>1, CreateContextIInv, StartMainloopIInv, AwaitContextIInv, AwaitStreamIInv,
     ResetStartIInv, StartLockedIInv, AwaitUncorkIInv, ActivateIInv, ResetStopIInv,
     StopLockedIInv, AwaitCorkIInv, DeactivateIInv, DestroyIInv, JoinIInv, FreeIInv,
     FreeSynthIInv DEF MainStep
<1>2. CASE LoopThread
  BY <1>2, ContextAnswersIInv, StreamAnswersIInv, CorkAnswersIInv, ServerDiesIInv,
     RequestBeginsIInv, MixBlockIInv, RequestEndsIInv DEF LoopThread
<1>3. CASE Reacquire \/ SpuriousWakeup \/ QuitLoop
  BY <1>3, ReacquireIInv, SpuriousWakeupIInv, QuitLoopIInv
<1>4. CASE UNCHANGED vars
  BY <1>4, StutterIInv
<1> QED
  BY <1>1, <1>2, <1>3, <1>4 DEF Next, Exited

LEMMA Invariant == Spec => []IInv
BY InitIInv, NextIInv, PTL DEF Spec

-----------------------------------------------------------------------------
(* The theorems.                                                             *)

\* The state of both threads and of the request keeps its types.
THEOREM TypeCorrect == Spec => []TypeOK
<1>1. IInv => TypeOK
  BY DEF IInv, ControlTypes, FrameTypes, TypeOK
<1> QED
  BY <1>1, Invariant, PTL

\* No callback renders before on_backend_start or after ~Synth, although
\* is_active is written outside the lock.
THEOREM MixesLive == Spec => []MixesOnlyALiveSynth
<1>1. IInv => MixesOnlyALiveSynth
  BY DEF IInv, Activity, MixesOnlyALiveSynth
<1> QED
  BY <1>1, Invariant, PTL

\* start and stop return on the answer to their own cork and on no other
\* wakeup.
THEOREM ReturnsAnswered == Spec => []ReturnsOnlyWhenAnswered
<1>1. IInv => ReturnsOnlyWhenAnswered
  BY DEF IInv, Acks
<1> QED
  BY <1>1, Invariant, PTL

\* Whatever fails, a loop thread that is joined can get its lock.
THEOREM JoinsUnlocked == Spec => []NeverJoinsWithLock
<1>1. IInv => NeverJoinsWithLock
  BY DEF IInv, Locking, Awaiting, NeverJoinsWithLock
<1> QED
  BY <1>1, Invariant, PTL

\* Requests and blocks may have any size: what is handed back is the request,
\* interleaved or silent.
THEOREM FillsRequests == Spec => FillsTheRequest
<1>1. IInv /\ [Next]_vars
        => [cbPc # "idle" /\ cbPc' = "idle"
              => output \in {Interleaved(frames), Silent(frames)}]_vars
  <2> SUFFICES ASSUME IInv, [Next]_vars, cbPc # "idle", cbPc' = "idle"
               PROVE  output \in {Interleaved(frames), Silent(frames)}
    OBVIOUS
  <2>1. RequestEnds
    <3>1. ~ UNCHANGED cbPc
      OBVIOUS
    <3>2. MainStep \/ Reacquire \/ SpuriousWakeup \/ QuitLoop => UNCHANGED cbPc
      BY DEF MainStep, CreateContext, StartMainloop, AwaitContext, AwaitStream, ResetAck,
             StartLocked, AwaitUncork, Activate, StopLocked, AwaitCork, Deactivate, Destroy,
             Join, Free, FreeSynth, Reacquire, SpuriousWakeup, QuitLoop, Wait, callback
    <3>3. ContextAnswers \/ StreamAnswers \/ CorkAnswers \/ ServerDies \/ MixBlock
            => UNCHANGED cbPc
      BY DEF ContextAnswers, StreamAnswers, CorkAnswers, ServerDies, MixBlock, callback
    <3>4. ~RequestBegins
      BY DEF RequestBegins, Dispatching
    <3> QED
      BY <3>1, <3>2, <3>3, <3>4 DEF Next, LoopThread, Exited, vars, callback
  <2>2. CASE cbPc = "silence"
    BY <2>2 DEF IInv, Filling
  <2>3. CASE cbPc = "mix" /\ Filled >= frames
    <3>1. frames \in Nat /\ Filled \in 0 .. frames /\ output = Interleaved(Filled)
      BY <2>3, FilledSoFar DEF IInv
    <3>2. Filled = frames
      BY <2>3, <3>1
    <3> QED
      BY <3>1, <3>2
  <2> QED
    BY <2>1, <2>2, <2>3 DEF RequestEnds
<1> QED
  BY <1>1, Invariant, PTL DEF Spec, FillsTheRequest
=============================================================================
