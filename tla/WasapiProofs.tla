----------------------------- MODULE WasapiProofs -----------------------------
(***************************************************************************)
(* Proofs about WasapiBackend, for a device buffer and blocks of any size. *)
(***************************************************************************)
EXTENDS WasapiBackend, OperatorProofs

\* The audio thread runs only between start and the join in stop, while the
\* synthesizer is started.
Running == {"loop", "stop", "wake", "join"}

ThreadRuns ==
  /\ audioPc # "none" => mainPc \in Running
  /\ mainPc \in Running => synth = "started"

\* The frames measured, and then acquired, stay free until they are released:
\* the device only takes frames away.
FreeFrames ==
  /\ padding <= BufferFrames
  /\ audioPc = "avail" => padding + avail <= BufferFrames
  /\ audioPc = "mix" => padding + toRelease <= BufferFrames

\* The part of the acquired buffer that is rendered.
Rendering ==
  audioPc = "mix" => /\ avail <= toRelease
                     /\ output = Interleaved(toRelease - avail)

IInv == TypeOK /\ ThreadRuns /\ FreeFrames /\ Rendering

LEMMA InitIInv == Init => IInv
<1> SUFFICES ASSUME Init PROVE IInv
  OBVIOUS
<1>1. BufferFrames \in Nat
  BY WasapiConstants
<1>2. TypeOK
  <2>1. output \in Seq(Samples) /\ Len(output) <= 2 * toRelease
    BY DEF Init
  <2>2. avail \in 0 .. BufferFrames /\ toRelease \in 0 .. BufferFrames /\ padding \in Nat
    BY <1>1 DEF Init
  <2> QED
    BY <2>1, <2>2 DEF Init, TypeOK
<1>3. ThreadRuns /\ FreeFrames /\ Rendering
  BY <1>1 DEF Init, ThreadRuns, Running, FreeFrames, Rendering
<1> QED
  BY <1>2, <1>3 DEF IInv

\* A step that leaves the audio thread, its buffer and the device's frames.
LEMMA MainStepIInv ==
  ASSUME IInv, MainStep \/ QuitLoop
  PROVE  IInv'
<1>1. BufferFrames \in Nat
  BY WasapiConstants
<1>2. UNCHANGED <<avail, toRelease, output, padding, playing>>
  BY DEF MainStep, QuitLoop, InitDevice, Start, Kill, Wake, Join, Destroy, buffer, device
<1>3. audioPc' = audioPc \/ (audioPc' \in {"none", "kick"})
  BY DEF MainStep, QuitLoop, InitDevice, Start, Kill, Wake, Join, Destroy
<1>4. TypeOK'
  BY <1>2 DEF IInv, TypeOK, MainStep, QuitLoop, InitDevice, Start, Kill, Wake, Join, Destroy
<1>5. ThreadRuns'
  BY DEF IInv, TypeOK, ThreadRuns, Running, MainStep, QuitLoop, InitDevice, Start, Kill, Wake,
         Join, Destroy
<1>6. FreeFrames' /\ Rendering'
  BY <1>2, <1>3 DEF IInv, FreeFrames, Rendering
<1> QED
  BY <1>4, <1>5, <1>6 DEF IInv

\* The main thread's part of the invariant, of a step of the audio thread.
LEMMA AudioKeepsThreadRuns ==
  ASSUME ThreadRuns, UNCHANGED mainVars, UNCHANGED synth, audioPc # "none"
  PROVE  ThreadRuns'
BY DEF ThreadRuns, mainVars

LEMMA MixBlockIInv ==
  ASSUME IInv, MixBlock
  PROVE  IInv'
<1> DEFINE toWrite == LeastOf(avail, MaxNumFrames)
           done == toRelease - avail
<1>1. /\ MaxNumFrames \in Nat \ {0} /\ BufferFrames \in Nat
      /\ avail \in Nat /\ toRelease \in Nat /\ toRelease <= BufferFrames
      /\ avail <= toRelease /\ avail # 0 /\ audioPc = "mix"
      /\ output = Interleaved(done)
  BY WasapiConstants DEF IInv, TypeOK, Rendering, MixBlock
<1>2. toWrite \in Nat /\ toWrite <= avail /\ done \in Nat
  BY <1>1 DEF LeastOf
<1>3. /\ avail' = avail - toWrite
      /\ output' = output \o InterleaveStereo(toWrite, done)
      /\ UNCHANGED <<mainVars, dead, event, synth, audioPc, toRelease, device>>
  BY DEF MixBlock
<1> HIDE DEF toWrite
<1>4. done + toWrite = toRelease - avail' /\ toRelease - avail' \in Nat
  BY <1>1, <1>2, <1>3
<1>5. output' = Interleaved(toRelease - avail')
  <2>1. output' = Interleaved(done) \o InterleaveStereo(toWrite, done)
    BY <1>1, <1>3
  <2>2. Interleaved(done) \o InterleaveStereo(toWrite, done) = Interleaved(done + toWrite)
    BY <1>2, BlockExtendsOutput
  <2> QED
    BY <2>1, <2>2, <1>4
<1>6. output' \in Seq(Samples) /\ Len(output') = 2 * (toRelease - avail')
  BY <1>4, <1>5, InterleavedSamples
<1>7. /\ avail' \in 0 .. BufferFrames /\ avail' <= toRelease
      /\ 2 * (toRelease - avail') <= 2 * toRelease
  BY <1>1, <1>2, <1>3
<1>8. Len(output') <= 2 * toRelease'
  BY <1>3, <1>6, <1>7
<1>9. TypeOK'
  BY <1>3, <1>6, <1>7, <1>8 DEF IInv, TypeOK, mainVars, device
<1>10. ThreadRuns'
  BY <1>1, <1>3, AudioKeepsThreadRuns DEF IInv
<1>11. FreeFrames' /\ Rendering'
  BY <1>1, <1>3, <1>5, <1>7 DEF IInv, FreeFrames, Rendering, device
<1> QED
  BY <1>9, <1>10, <1>11 DEF IInv

LEMMA BufferStepIInv ==
  ASSUME IInv, QueryAvail \/ GetBuffer \/ ReleaseBuffer
  PROVE  IInv'
<1>1. /\ BufferFrames \in Nat /\ padding \in Nat /\ padding <= BufferFrames
      /\ avail \in Nat /\ toRelease \in Nat
  BY WasapiConstants DEF IInv, TypeOK, FreeFrames
<1>2. ThreadRuns'
  BY AudioKeepsThreadRuns DEF IInv, QueryAvail, GetBuffer, ReleaseBuffer
<1>3. CASE QueryAvail
  <2>1. /\ avail' = BufferFrames - padding /\ audioPc' = "avail"
        /\ UNCHANGED <<mainVars, dead, event, synth, toRelease, output, device>>
    BY <1>3 DEF QueryAvail
  <2>2. avail' \in 0 .. BufferFrames /\ padding + avail' <= BufferFrames
    BY <1>1, <2>1
  <2>3. TypeOK'
    BY <2>1, <2>2 DEF IInv, TypeOK, mainVars, device
  <2> QED
    BY <1>2, <2>1, <2>2, <2>3 DEF IInv, FreeFrames, Rendering, device
<1>4. CASE GetBuffer
  <2>1. /\ toRelease' = avail /\ output' = <<>> /\ audioPc' = "mix" /\ audioPc = "avail"
        /\ UNCHANGED <<mainVars, dead, event, synth, avail, device>>
    BY <1>4 DEF GetBuffer
  <2>2. toRelease' - avail' = 0
    BY <1>1, <2>1
  <2>3. Interleaved(0) = <<>>
    <3>1. Interleaved(0) \in Seq(Samples) /\ Len(Interleaved(0)) = 0
      BY InterleavedSamples
    <3> QED
      BY <3>1, EmptySeq
  <2>4. TypeOK'
    <3>1. <<>> \in Seq(Samples) /\ Len(<<>>) = 0 /\ 0 <= 2 * avail
      BY <1>1
    <3> QED
      BY <2>1, <3>1 DEF IInv, TypeOK, mainVars, device
  <2>5. FreeFrames' /\ Rendering'
    BY <1>1, <2>1, <2>2, <2>3 DEF IInv, FreeFrames, Rendering, device
  <2> QED
    BY <1>2, <2>4, <2>5 DEF IInv
<1>5. CASE ReleaseBuffer
  <2>1. /\ padding' = padding + toRelease /\ audioPc' = "loop" /\ audioPc = "mix"
        /\ UNCHANGED <<mainVars, dead, event, synth, buffer, playing>>
    BY <1>5 DEF ReleaseBuffer
  <2>2. padding' \in Nat /\ padding' <= BufferFrames
    BY <1>1, <2>1 DEF IInv, FreeFrames
  <2>3. TypeOK'
    BY <2>1, <2>2 DEF IInv, TypeOK, mainVars, buffer
  <2> QED
    BY <1>2, <2>1, <2>2, <2>3 DEF IInv, FreeFrames, Rendering
<1> QED
  BY <1>3, <1>4, <1>5

\* The other steps of the audio thread leave the buffer, and change the
\* device's frames to none or to a whole buffer if at all.
ControlStep ==
  KickStart \/ KickStartFails \/ LoopDead \/ LoopLives \/ MustWait \/ DiesWaiting
    \/ EventWakes \/ CallFails

LEMMA ControlStepIInv ==
  ASSUME IInv, ControlStep
  PROVE  IInv'
<1>1. BufferFrames \in Nat /\ padding \in Nat /\ padding <= BufferFrames
  BY WasapiConstants DEF IInv, TypeOK, FreeFrames
<1>2. /\ UNCHANGED <<mainPc, isActive, dead, synth, avail, toRelease, output>>
      /\ audioPc # "none"
      /\ audioPc' \in {"loop", "query", "wait", "ended"}
      /\ event' \in {event, FALSE} /\ playing' \in {playing, TRUE, FALSE}
  BY DEF ControlStep, KickStart, KickStartFails, LoopDead, LoopLives, MustWait, DiesWaiting,
         EventWakes, CallFails, Leaves, mainVars, buffer, device
<1>3. padding' \in {0, padding, BufferFrames}
  BY DEF ControlStep, KickStart, KickStartFails, LoopDead, LoopLives, MustWait, DiesWaiting,
         EventWakes, CallFails, Leaves, device
<1>4. padding' \in Nat /\ padding' <= BufferFrames
  BY <1>1, <1>3
<1>5. TypeOK'
  <2>1. event' \in BOOLEAN /\ playing' \in BOOLEAN
    BY <1>2 DEF IInv, TypeOK
  <2> QED
    BY <1>2, <1>4, <2>1 DEF IInv, TypeOK
<1>6. ThreadRuns'
  BY <1>2, AudioKeepsThreadRuns DEF IInv, mainVars
<1> QED
  BY <1>2, <1>4, <1>5, <1>6 DEF IInv, FreeFrames, Rendering

LEMMA FewerStillFit ==
  ASSUME NEW p \in Nat, NEW q \in Nat, q <= p, NEW size \in Nat
  PROVE  \A n \in Nat : p + n <= size => q + n <= size
OBVIOUS

LEMMA DevicePlaysIInv ==
  ASSUME IInv, DevicePlays
  PROVE  IInv'
<1>1. UNCHANGED <<mainVars, dead, synth, audioPc, buffer, playing>> /\ event' = TRUE
  BY DEF DevicePlays
<1>2. /\ BufferFrames \in Nat /\ padding \in Nat /\ avail \in Nat /\ toRelease \in Nat
      /\ padding' \in Nat /\ padding' <= padding
  BY WasapiConstants DEF IInv, TypeOK, DevicePlays
<1>3. TypeOK'
  BY <1>1, <1>2 DEF IInv, TypeOK, mainVars, buffer
<1>4. ThreadRuns' /\ Rendering'
  BY <1>1 DEF IInv, ThreadRuns, Rendering, mainVars, buffer
<1>5. FreeFrames'
  <2>1. avail' = avail /\ toRelease' = toRelease /\ audioPc' = audioPc
    BY <1>1 DEF buffer
  <2>2. /\ padding <= BufferFrames
        /\ audioPc = "avail" => padding + avail <= BufferFrames
        /\ audioPc = "mix" => padding + toRelease <= BufferFrames
    BY DEF IInv, FreeFrames
  <2>3. \A n \in Nat : padding + n <= BufferFrames => padding' + n <= BufferFrames
    BY <1>2, FewerStillFit
  <2>4. padding' <= BufferFrames
    BY <1>2, <2>2
  <2> QED
    BY <1>2, <2>1, <2>2, <2>3, <2>4 DEF FreeFrames
<1> QED
  BY <1>3, <1>4, <1>5 DEF IInv

LEMMA NextIInv == IInv /\ [Next]_vars => IInv'
<1> SUFFICES ASSUME IInv, [Next]_vars PROVE IInv'
  OBVIOUS
<1>1. CASE MainStep \/ QuitLoop
  BY <1>1, MainStepIInv
<1>2. CASE MixBlock
  BY <1>2, MixBlockIInv
<1>3. CASE QueryAvail \/ GetBuffer \/ ReleaseBuffer
  BY <1>3, BufferStepIInv
<1>4. CASE ControlStep
  BY <1>4, ControlStepIInv
<1>5. CASE DevicePlays
  BY <1>5, DevicePlaysIInv
<1>6. CASE UNCHANGED vars
  BY <1>6 DEF IInv, TypeOK, ThreadRuns, FreeFrames, Rendering, vars, mainVars, buffer, device
<1> QED
  BY <1>1, <1>2, <1>3, <1>4, <1>5, <1>6 DEF Next, AudioStep, ControlStep, Exited

LEMMA Invariant == Spec => []IInv
BY InitIInv, NextIInv, PTL DEF Spec

-----------------------------------------------------------------------------
(* The theorems.                                                             *)

\* The threads' states and the counts of frames keep their types.
THEOREM TypeCorrect == Spec => []TypeOK
<1>1. IInv => TypeOK
  BY DEF IInv
<1> QED
  BY <1>1, Invariant, PTL

\* The audio thread renders only while the synthesizer is started: start sets
\* it up before there is a thread and stop joins the thread before it tells
\* the synthesizer.
THEOREM MixesStarted == Spec => []MixesOnlyAStartedSynth
<1>1. IInv => MixesOnlyAStartedSynth
  BY DEF IInv, ThreadRuns, MixesOnlyAStartedSynth
<1> QED
  BY <1>1, Invariant, PTL

\* The frames that were free when the buffer was measured are free when it is
\* released, though the device plays in between, for any buffer.
THEOREM NeverOverrun == Spec => []BufferNeverOverrun
<1>1. IInv => BufferNeverOverrun
  BY DEF IInv, FreeFrames, BufferNeverOverrun
<1> QED
  BY <1>1, Invariant, PTL

\* What is released to the device is the acquired buffer, all of it rendered
\* and interleaved, for blocks and buffers of any size.
THEOREM ReleasesRendered == Spec => ReleasesWhatItRendered
<1>1. IInv /\ [Next]_vars
        => [audioPc = "mix" /\ audioPc' = "loop" => output = Interleaved(toRelease)]_vars
  <2> SUFFICES ASSUME IInv, [Next]_vars, audioPc = "mix", audioPc' = "loop"
               PROVE  output = Interleaved(toRelease)
    OBVIOUS
  <2>1. avail = 0
    BY DEF Next, MainStep, QuitLoop, InitDevice, Start, Kill, Wake, Join, Destroy, AudioStep,
           KickStart, LoopDead, LoopLives, QueryAvail, MustWait, DiesWaiting, EventWakes,
           GetBuffer, MixBlock, ReleaseBuffer, KickStartFails, CallFails, Leaves, DevicePlays,
           Exited, vars
  <2>2. toRelease - avail = toRelease
    BY <2>1 DEF IInv, TypeOK
  <2> QED
    BY <2>2 DEF IInv, Rendering
<1> QED
  BY <1>1, Invariant, PTL DEF Spec, ReleasesWhatItRendered
=============================================================================
