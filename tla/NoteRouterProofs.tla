--------------------------- MODULE NoteRouterProofs ---------------------------
(***************************************************************************)
(* Proofs about NoteRouter, for every key map, window, transposition and   *)
(* set of notes.                                                           *)
(***************************************************************************)
EXTENDS NoteRouter, OperatorProofs

\* A note handle_note accepts has an offset that indexes the bind table.
LEMMA HandledOffset ==
  ASSUME NEW p \in Players, NEW note \in Int, Handles(p, note)
  PROVE  note - BaseKey[p] \in Offsets
<1>1. BaseKey[p] \in Int /\ ActiveOctaves[p] \in Int
  BY RouterConstants
<1> QED
  BY <1>1, WindowOffset DEF Handles, InRange

\* Every key of the instrument has a key code: the bind table is total.
LEMMA CodeTableType == CodeTable \in [Offsets -> KeyCodes]
<1>1. \A o \in Offsets : BindChar(o) \in BindChars
  BY DEF BindChar, BindChars, Offsets, NumKeys, NumOctaves, LowerCase, Digits, Comma
<1> QED
  BY <1>1, TranslateKeyType DEF CodeTable

-----------------------------------------------------------------------------
\* The players' half of an iteration, in the types of the state.
LEMMA OutcomeType ==
  ASSUME TypeOK, NEW ev \in Events, NEW p \in Players
  PROVE  /\ ev.note \in Int /\ ev.pressed \in BOOLEAN
         /\ Handles(p, ev.note) => ev.note - BaseKey[p] \in Offsets
         /\ Outcome(p, ev).held \in Offsets \cup {NoKey}
         /\ Outcome(p, ev).keys \in Seq([key : Offsets, press : BOOLEAN])
         /\ Outcome(p, ev).posts \in Seq([key : Offsets, on : BOOLEAN])
<1>1. ev.note \in Int /\ ev.pressed \in BOOLEAN
  BY RouterConstants DEF Events
<1>2. held[p] \in Offsets \cup {NoKey}
  BY DEF TypeOK
<1>3. CASE Handles(p, ev.note)
  <2>1. ev.note - BaseKey[p] \in Offsets
    BY <1>1, <1>3, HandledOffset
  <2>2. Outcome(p, ev) = HandleNote(held[p], ev.pressed, ev.note - BaseKey[p])
    BY <1>3 DEF Outcome
  <2> QED
    BY <1>1, <1>2, <2>1, <2>2, HandleNoteType
<1>4. CASE ~Handles(p, ev.note)
  BY <1>1, <1>2, <1>4 DEF Outcome, Nothing
<1> QED
  BY <1>3, <1>4, <1>1

\* Key events become requests, and posts words, one for one.
LEMMA RequestsType ==
  ASSUME NEW es \in Seq([key : Offsets, press : BOOLEAN])
  PROVE  [i \in DOMAIN es |-> Request(es[i])] \in Seq(KeyRequests)
<1>1. \A i \in 1 .. Len(es) : Request(es[i]) \in KeyRequests
  <2> TAKE i \in 1 .. Len(es)
  <2>1. es[i] \in [key : Offsets, press : BOOLEAN]
    BY ElementOfSeq
  <2> QED
    BY <2>1, CodeTableType DEF Request, KeyRequests
<1>2. DOMAIN es = 1 .. Len(es) /\ Len(es) \in Nat
  OBVIOUS
<1>3. [i \in 1 .. Len(es) |-> Request(es[i])] \in Seq(KeyRequests)
  BY <1>1, <1>2, IsASeq
<1> QED
  BY <1>2, <1>3

LEMMA WordOfType ==
  ASSUME NEW p \in Players, NEW post \in [key : Offsets, on : BOOLEAN]
  PROVE  WordOf(p, post) \in SynthWords
<1>1. post.key + BaseKey[p] + SynthTranspose[p] \in Int
  BY RouterConstants DEF Offsets, NumKeys, NumOctaves
<1>2. Channel(p) \in Channels
  BY DEF Channel, Channels
<1> QED
  BY <1>1, <1>2, PostNoteType DEF WordOf

LEMMA WordsType ==
  ASSUME NEW p \in Players, NEW posts \in Seq([key : Offsets, on : BOOLEAN])
  PROVE  WordsOf(p, posts) \in Seq(SynthWords)
<1>1. \A i \in 1 .. Len(posts) : WordOf(p, posts[i]) \in SynthWords
  <2> TAKE i \in 1 .. Len(posts)
  <2>1. posts[i] \in [key : Offsets, on : BOOLEAN]
    BY ElementOfSeq
  <2> QED
    BY <2>1, WordOfType
<1>2. DOMAIN posts = 1 .. Len(posts) /\ Len(posts) \in Nat
  OBVIOUS
<1>3. [i \in 1 .. Len(posts) |-> WordOf(p, posts[i])] \in Seq(SynthWords)
  BY <1>1, <1>2, IsASeq
<1> QED
  BY <1>2, <1>3 DEF WordsOf

-----------------------------------------------------------------------------
\* One iteration of the loop keeps the types.
LEMMA RouteEventType ==
  ASSUME TypeOK, NEW ev \in Events, RouteEvent(ev)
  PROVE  TypeOK'
<1> USE DEF RouteEvent
<1>1. /\ ev.note \in Int /\ ev.pressed \in BOOLEAN
      /\ \A p \in Players : Outcome(p, ev).held \in Offsets \cup {NoKey}
      /\ \A p \in Players : WordsOf(p, Outcome(p, ev).posts) \in Seq(SynthWords)
      /\ \A p \in Players : Outcome(p, ev).keys \in Seq([key : Offsets, press : BOOLEAN])
  BY OutcomeType, WordsType DEF Players
<1>2. KeySinkTypeOK'
  <2> DEFINE es == IF HasKeySink THEN Outcome("local", ev).keys ELSE <<>>
  <2>1. es \in Seq([key : Offsets, press : BOOLEAN])
    BY <1>1 DEF Players
  <2>2. keyQueue' = keyQueue \o [i \in DOMAIN es |-> Request(es[i])] /\ keysDown' = keysDown
    BY DEF PlayNote, Dispatch
  <2> HIDE DEF es
  <2>3. [i \in DOMAIN es |-> Request(es[i])] \in Seq(KeyRequests)
    BY <2>1, RequestsType
  <2> QED
    BY <2>2, <2>3, ConcatProperties DEF TypeOK, KeySinkTypeOK
<1>3. wire' \in Seq(Bytes)
  <2>1. SendByte(ev.note, ev.pressed) \in Bytes
    BY <1>1, SendByteType
  <2> QED
    BY <2>1 DEF TypeOK
<1>4. held' \in [Players -> Offsets \cup {NoKey}]
  BY <1>1 DEF PlayNote
<1>5. noteQueue' \in Seq(SynthWords)
  <2>1. "local" \in Players /\ "remote" \in Players
    BY DEF Players
  <2>2. noteQueue' = noteQueue \o WordsOf("remote", Outcome("remote", ev).posts)
                               \o WordsOf("local", Outcome("local", ev).posts)
    BY DEF PlayNote
  <2> QED
    BY <1>1, <2>1, <2>2, ConcatProperties DEF TypeOK
<1>6. notesDown' \in SUBSET Int /\ lastPressed' \in [Players -> SUBSET Int]
  BY <1>1 DEF RecordEvent, TypeOK
<1>7. phase' = phase /\ sounding' = sounding
  OBVIOUS
<1> QED
  BY <1>2, <1>3, <1>4, <1>5, <1>6, <1>7 DEF TypeOK

\* The key events of the exit path, and what the dispatch appends for them.
ExitEvents ==
  IF HasKeySink /\ held["local"] >= 0 THEN <<KeyEvent(held["local"], FALSE)>> ELSE <<>>

LEMMA ExitEventsType ==
  ASSUME TypeOK
  PROVE  ExitEvents \in Seq([key : Offsets, press : BOOLEAN])
<1>1. CASE HasKeySink /\ held["local"] >= 0
  <2>1. held["local"] \in Offsets
    BY <1>1 DEF TypeOK, Players, NoKey
  <2>2. KeyEvent(held["local"], FALSE) \in [key : Offsets, press : BOOLEAN]
    BY <2>1 DEF KeyEvent
  <2>3. <<KeyEvent(held["local"], FALSE)>> \in Seq([key : Offsets, press : BOOLEAN])
    BY <2>2, SmallSeq
  <2> QED
    BY <1>1, <2>3 DEF ExitEvents
<1>2. CASE ~(HasKeySink /\ held["local"] >= 0)
  BY <1>2 DEF ExitEvents
<1> QED
  BY <1>1, <1>2

\* Every step keeps the types.
LEMMA NextType == TypeOK /\ [Next]_vars => TypeOK'
<1> SUFFICES ASSUME TypeOK, [Next]_vars
             PROVE  TypeOK'
  OBVIOUS
<1>1. ASSUME NEW ev \in Events, RouteEvent(ev)
      PROVE  TypeOK'
  BY <1>1, RouteEventType
<1>2. ASSUME NEW ev \in Events, SendFails(ev)
      PROVE  TypeOK'
  BY <1>2 DEF TypeOK, KeySinkTypeOK, SendFails, keySinkVars
<1>3. CASE SourceFails
  BY <1>3 DEF TypeOK, KeySinkTypeOK, SourceFails, keySinkVars
<1>4. CASE ReleaseOnExit
  <2>1. /\ keyQueue' = keyQueue \o [i \in DOMAIN ExitEvents |-> Request(ExitEvents[i])]
        /\ keysDown' = keysDown
    BY <1>4 DEF ReleaseOnExit, Dispatch, ExitEvents
  <2>2. [i \in DOMAIN ExitEvents |-> Request(ExitEvents[i])] \in Seq(KeyRequests)
    BY ExitEventsType, RequestsType
  <2>3. KeySinkTypeOK'
    BY <2>1, <2>2, ConcatProperties DEF TypeOK, KeySinkTypeOK
  <2> QED
    BY <1>4, <2>3 DEF TypeOK, ReleaseOnExit
<1>5. CASE ReplayKey
  <2>1. Head(keyQueue) \in KeyRequests /\ Tail(keyQueue) \in Seq(KeyRequests)
    BY <1>5, HeadTailProperties DEF ReplayKey, ReplayRequest, TypeOK, KeySinkTypeOK
  <2>2. KeySinkTypeOK'
    BY <1>5, <2>1 DEF ReplayKey, ReplayRequest, TypeOK, KeySinkTypeOK, KeyRequests
  <2> QED
    BY <1>5, <2>2 DEF TypeOK, ReplayKey, routerVars
<1>6. CASE ApplyNote
  <2>1. Head(noteQueue) \in SynthWords /\ Tail(noteQueue) \in Seq(SynthWords)
    BY <1>6, HeadTailProperties DEF ApplyNote, TypeOK
  <2>2. sounding' \in [Channels -> SUBSET FmKeys]
    BY <1>6, <2>1 DEF ApplyNote, ApplyWord, TypeOK, SynthWords
  <2> QED
    BY <1>6, <2>1, <2>2 DEF ApplyNote, TypeOK, KeySinkTypeOK, keySinkVars
<1>7. CASE TakeDatagram
  <2>1. Tail(wire) \in Seq(Bytes)
    BY <1>7, HeadTailProperties DEF TakeDatagram, TypeOK
  <2> QED
    BY <1>7, <2>1 DEF TakeDatagram, TypeOK, KeySinkTypeOK, keySinkVars
<1>8. CASE UNCHANGED vars
  BY <1>8 DEF TypeOK, KeySinkTypeOK, vars, keySinkVars, routerVars
<1> QED
  BY <1>1, <1>2, <1>3, <1>4, <1>5, <1>6, <1>7, <1>8 DEF Next, Terminated

\* The state has its types, whatever the arguments: in particular a tracker's
\* offset always indexes the bind table, and every posted word names one of
\* the two synthesizers (the array accesses of sussybard.cpp:247 and :256, and
\* of synth.cpp:46).
THEOREM TypeCorrect == Spec => []TypeOK
<1>1. Init => TypeOK
  BY DEF Init, KeySinkInit, TypeOK, KeySinkTypeOK
<1> QED
  BY <1>1, NextType, PTL DEF Spec

-----------------------------------------------------------------------------
(***************************************************************************)
(* The keyboard.  The pipe invariant says what the window system will do   *)
(* with the requests still queued: each of them presses a key when none is *)
(* down or releases the one key that is, and the last leaves what the      *)
(* tracker wants.                                                          *)
(***************************************************************************)

\* The keys down once the first i requests of q have been replayed.
DownAfter(q, down, i) ==
  IF i = 0 THEN down ELSE IF q[i].press THEN {q[i].code} ELSE {}

\* What must be down for a request to be one step of the keyboard.
Before(r) == IF r.press THEN {} ELSE {r.code}

Legal(q, down) == \A i \in 1 .. Len(q) : DownAfter(q, down, i - 1) = Before(q[i])

KeyPipe ==
  /\ Legal(keyQueue, keysDown)
  /\ DownAfter(keyQueue, keysDown, Len(keyQueue)) = KeysWanted

\* A request that finds what it needs at the end of the pipe extends it.
LEMMA PipeAppend ==
  ASSUME NEW q \in Seq(KeyRequests), NEW down, NEW r \in KeyRequests,
         Legal(q, down), DownAfter(q, down, Len(q)) = Before(r)
  PROVE  /\ Legal(Append(q, r), down)
         /\ DownAfter(Append(q, r), down, Len(Append(q, r))) = IF r.press THEN {r.code} ELSE {}
<1> DEFINE a == Append(q, r)
<1>1. /\ a \in Seq(KeyRequests)
      /\ Len(a) = Len(q) + 1 /\ Len(q) \in Nat
      /\ a[Len(q) + 1] = r
      /\ \A i \in 1 .. Len(q) : a[i] = q[i]
  BY AppendProperties
<1> HIDE DEF a
<1>2. \A i \in 0 .. Len(q) : DownAfter(a, down, i) = DownAfter(q, down, i)
  <2> TAKE i \in 0 .. Len(q)
  <2>1. i = 0 \/ (i \in 1 .. Len(q) /\ a[i] = q[i])
    BY <1>1
  <2> QED
    BY <2>1 DEF DownAfter
<1>3. Legal(a, down)
  <2> SUFFICES ASSUME NEW i \in 1 .. Len(q) + 1
               PROVE  DownAfter(a, down, i - 1) = Before(a[i])
    BY <1>1 DEF Legal
  <2>1. CASE i \in 1 .. Len(q)
    <3>1. i - 1 \in 0 .. Len(q)
      BY <2>1, <1>1
    <3> QED
      BY <3>1, <2>1, <1>1, <1>2 DEF Legal
  <2>2. CASE i = Len(q) + 1
    <3>1. i - 1 = Len(q) /\ Len(q) \in 0 .. Len(q)
      BY <2>2, <1>1
    <3> QED
      BY <3>1, <2>2, <1>1, <1>2
  <2> QED
    BY <2>1, <2>2, <1>1
<1>4. DownAfter(a, down, Len(a)) = IF r.press THEN {r.code} ELSE {}
  BY <1>1 DEF DownAfter
<1> QED
  BY <1>3, <1>4 DEF a

\* Replaying the oldest request is one step of the keyboard, and leaves a pipe.
LEMMA PipeTail ==
  ASSUME NEW q \in Seq(KeyRequests), q # <<>>, NEW down, Legal(q, down)
  PROVE  /\ down = Before(Head(q))
         /\ Legal(Tail(q), DownAfter(q, down, 1))
         /\ DownAfter(Tail(q), DownAfter(q, down, 1), Len(Tail(q))) = DownAfter(q, down, Len(q))
<1> DEFINE t == Tail(q)
           d == DownAfter(q, down, 1)
<1>1. /\ t \in Seq(KeyRequests)
      /\ Len(t) = Len(q) - 1 /\ Len(q) \in Nat \ {0}
      /\ Head(q) = q[1]
      /\ \A i \in 1 .. Len(t) : t[i] = q[i + 1]
  BY HeadTailProperties, EmptySeq
<1>2. down = Before(Head(q))
  <2>1. DownAfter(q, down, 1 - 1) = Before(q[1])
    BY <1>1 DEF Legal
  <2> QED
    BY <2>1, <1>1 DEF DownAfter
<1> HIDE DEF t
<1>3. \A i \in 0 .. Len(t) : DownAfter(t, d, i) = DownAfter(q, down, i + 1)
  <2> TAKE i \in 0 .. Len(t)
  <2>1. CASE i = 0
    <3>1. i + 1 = 1
      BY <2>1
    <3> QED
      BY <2>1, <3>1 DEF DownAfter
  <2>2. CASE i # 0
    <3>1. i \in 1 .. Len(t) /\ i + 1 # 0
      BY <2>2, <1>1
    <3>2. t[i] = q[i + 1]
      BY <3>1, <1>1
    <3> QED
      BY <2>2, <3>1, <3>2 DEF DownAfter
  <2> QED
    BY <2>1, <2>2
<1>4. Legal(t, d)
  <2> SUFFICES ASSUME NEW i \in 1 .. Len(t)
               PROVE  DownAfter(t, d, i - 1) = Before(t[i])
    BY DEF Legal
  <2>1. i - 1 \in 0 .. Len(t) /\ (i - 1) + 1 = i
    BY <1>1
  <2>2. DownAfter(t, d, i - 1) = DownAfter(q, down, i)
    BY <2>1, <1>3
  <2>3. i + 1 \in 1 .. Len(q) /\ (i + 1) - 1 = i
    BY <1>1
  <2>4. DownAfter(q, down, i) = Before(q[i + 1])
    BY <2>3 DEF Legal
  <2> QED
    BY <2>2, <2>4, <1>1
<1>5. DownAfter(t, d, Len(t)) = DownAfter(q, down, Len(q))
  <2>1. Len(t) \in 0 .. Len(t) /\ Len(t) + 1 = Len(q)
    BY <1>1
  <2> QED
    BY <2>1, <1>3
<1> QED
  BY <1>2, <1>4, <1>5 DEF t

\* What a dispatch of no, one or two key events appends to the requests.
LEMMA DispatchSmall ==
  ASSUME NEW q \in Seq(KeyRequests),
         NEW e \in [key : Offsets, press : BOOLEAN],
         NEW f \in [key : Offsets, press : BOOLEAN]
  PROVE  /\ q \o [i \in DOMAIN <<>> |-> Request(<<>>[i])] = q
         /\ q \o [i \in DOMAIN <<e>> |-> Request(<<e>>[i])] = Append(q, Request(e))
         /\ q \o [i \in DOMAIN <<e, f>> |-> Request(<<e, f>>[i])]
              = Append(Append(q, Request(e)), Request(f))
<1>1. /\ [i \in DOMAIN <<>> |-> Request(<<>>[i])] = <<>>
      /\ [i \in DOMAIN <<e>> |-> Request(<<e>>[i])] = <<Request(e)>>
      /\ [i \in DOMAIN <<e, f>> |-> Request(<<e, f>>[i])] = <<Request(e), Request(f)>>
  OBVIOUS
<1>2. Request(e) \in KeyRequests /\ Request(f) \in KeyRequests
  BY CodeTableType DEF Request, KeyRequests
<1>3. /\ q \o <<>> = q
      /\ q \o <<Request(e)>> = Append(q, Request(e))
      /\ q \o <<Request(e), Request(f)>> = Append(Append(q, Request(e)), Request(f))
  BY <1>2
<1> QED
  BY <1>1, <1>3

\* What one player's half of an iteration does to its tracker, and the key
\* events it asks for: nothing, a press over no key, a key changed for
\* another, or a release.
LEMMA OutcomeCases ==
  ASSUME TypeOK, NEW ev \in Events, NEW p \in Players
  PROVE  \/ Outcome(p, ev).held = held[p] /\ Outcome(p, ev).keys = <<>>
         \/ /\ held[p] = NoKey /\ Outcome(p, ev).held \in Offsets
            /\ Outcome(p, ev).keys = <<KeyEvent(Outcome(p, ev).held, TRUE)>>
         \/ /\ held[p] \in Offsets /\ Outcome(p, ev).held \in Offsets
            /\ Outcome(p, ev).keys = <<KeyEvent(held[p], FALSE),
                                       KeyEvent(Outcome(p, ev).held, TRUE)>>
         \/ /\ held[p] \in Offsets /\ Outcome(p, ev).held = NoKey
            /\ Outcome(p, ev).keys = <<KeyEvent(held[p], FALSE)>>
<1>1. ev.note \in Int /\ ev.pressed \in BOOLEAN
  BY OutcomeType
<1>2. held[p] \in Offsets \cup {NoKey}
  BY DEF TypeOK
<1>3. CASE Handles(p, ev.note)
  <2> DEFINE o == ev.note - BaseKey[p]
  <2>1. o \in Offsets
    BY <1>1, <1>3, HandledOffset
  <2>2. Outcome(p, ev) = HandleNote(held[p], ev.pressed, o)
    BY <1>3 DEF Outcome
  <2> HIDE DEF o
  <2>3. CASE ev.pressed /\ held[p] = o
    <3>1. Outcome(p, ev) = [held |-> held[p], keys |-> <<>>, posts |-> <<>>]
      BY <2>1, <2>2, <2>3, <1>1, <1>2, HandleNoteCases
    <3> QED
      BY <3>1, <2>1, <2>3, <1>2
  <2>4. CASE ev.pressed /\ held[p] = NoKey
    <3> DEFINE k == <<KeyEvent(o, TRUE)>>
               n == <<NotePost(o, TRUE)>>
    <3>1. Outcome(p, ev) = [held |-> o, keys |-> k, posts |-> n]
      BY <2>1, <2>2, <2>4, <1>1, <1>2, HandleNoteCases
    <3> HIDE DEF k, n
    <3>2. Outcome(p, ev).held = o /\ Outcome(p, ev).keys = k
      BY <3>1
    <3> QED
      BY <3>2, <2>1, <2>4, <1>2 DEF k
  <2>5. CASE ev.pressed /\ held[p] # o /\ held[p] # NoKey
    <3> DEFINE k == <<KeyEvent(held[p], FALSE), KeyEvent(o, TRUE)>>
               n == <<NotePost(o, TRUE), NotePost(held[p], FALSE)>>
    <3>1. Outcome(p, ev) = [held |-> o, keys |-> k, posts |-> n]
      BY <2>1, <2>2, <2>5, <1>1, <1>2, HandleNoteCases
    <3> HIDE DEF k, n
    <3>2. Outcome(p, ev).held = o /\ Outcome(p, ev).keys = k
      BY <3>1
    <3> QED
      BY <3>2, <2>1, <2>5, <1>2 DEF k
  <2>6. CASE ~ev.pressed /\ held[p] = o
    <3> DEFINE k == <<KeyEvent(o, FALSE)>>
               n == <<NotePost(o, FALSE), NotePost(o, FALSE)>>
    <3>1. Outcome(p, ev) = [held |-> NoKey, keys |-> k, posts |-> n]
      BY <2>1, <2>2, <2>6, <1>1, <1>2, HandleNoteCases
    <3> HIDE DEF k, n
    <3>2. Outcome(p, ev).held = NoKey /\ Outcome(p, ev).keys = k
      BY <3>1
    <3> QED
      BY <3>2, <2>1, <2>6, <1>2 DEF k
  <2>7. CASE ~ev.pressed /\ held[p] # o
    <3>1. Outcome(p, ev) = [held |-> held[p], keys |-> <<>>,
                           posts |-> <<NotePost(o, FALSE)>>]
      BY <2>1, <2>2, <2>7, <1>1, <1>2, HandleNoteCases
    <3> QED
      BY <3>1, <2>1, <2>7, <1>2
  <2> QED
    BY <2>3, <2>4, <2>5, <2>6, <2>7
<1>4. CASE ~Handles(p, ev.note)
  BY <1>4 DEF Outcome, Nothing
<1> QED
  BY <1>3, <1>4

LEMMA ReleaseRequest ==
  ASSUME NEW h \in Offsets
  PROVE  LET e == KeyEvent(h, FALSE)
         IN  /\ e \in [key : Offsets, press : BOOLEAN]
             /\ Request(e) \in KeyRequests
             /\ Request(e).code = CodeTable[h]
             /\ ~Request(e).press
BY CodeTableType DEF Request, KeyEvent, KeyRequests

LEMMA PressRequest ==
  ASSUME NEW o \in Offsets
  PROVE  LET e == KeyEvent(o, TRUE)
         IN  /\ e \in [key : Offsets, press : BOOLEAN]
             /\ Request(e) \in KeyRequests
             /\ Request(e).code = CodeTable[o]
             /\ Request(e).press
BY CodeTableType DEF Request, KeyEvent, KeyRequests

\* Releasing key h finds h at the end of the pipe and leaves nothing there;
\* pressing o finds nothing and leaves o.
LEMMA PipeRelease ==
  ASSUME NEW q \in Seq(KeyRequests), NEW down, NEW h \in Offsets,
         NEW r \in KeyRequests, r.code = CodeTable[h], ~r.press,
         Legal(q, down), DownAfter(q, down, Len(q)) = {CodeTable[h]}
  PROVE  /\ Append(q, r) \in Seq(KeyRequests) /\ Legal(Append(q, r), down)
         /\ DownAfter(Append(q, r), down, Len(Append(q, r))) = {}
<1>1. DownAfter(q, down, Len(q)) = Before(r)
  BY DEF Before
<1>2. Append(q, r) \in Seq(KeyRequests)
  BY AppendProperties
<1> QED
  BY <1>1, <1>2, PipeAppend

LEMMA PipePress ==
  ASSUME NEW q \in Seq(KeyRequests), NEW down, NEW o \in Offsets,
         NEW r \in KeyRequests, r.code = CodeTable[o], r.press,
         Legal(q, down), DownAfter(q, down, Len(q)) = {}
  PROVE  /\ Append(q, r) \in Seq(KeyRequests) /\ Legal(Append(q, r), down)
         /\ DownAfter(Append(q, r), down, Len(Append(q, r))) = {CodeTable[o]}
<1>1. DownAfter(q, down, Len(q)) = Before(r)
  BY DEF Before
<1>2. Append(q, r) \in Seq(KeyRequests)
  BY AppendProperties
<1> QED
  BY <1>1, <1>2, PipeAppend

\* An iteration of the loop keeps the pipe.
LEMMA RouteEventPipe ==
  ASSUME TypeOK, KeyPipe, NEW ev \in Events, RouteEvent(ev)
  PROVE  KeyPipe'
<1> DEFINE h == held["local"]
           g == Outcome("local", ev).held
           ks == Outcome("local", ev).keys
           es == IF HasKeySink THEN ks ELSE <<>>
           up == KeyEvent(h, FALSE)
           dn == KeyEvent(g, TRUE)
           E == [key : Offsets, press : BOOLEAN]
<1>1. "local" \in Players /\ keyQueue \in Seq(KeyRequests) /\ phase = "loop" /\ phase' = "loop"
  BY DEF Players, TypeOK, KeySinkTypeOK, RouteEvent
<1>2. held'["local"] = g /\ keysDown' = keysDown
  BY <1>1 DEF RouteEvent, PlayNote, Dispatch
<1>3. keyQueue' = keyQueue \o [i \in DOMAIN es |-> Request(es[i])]
  BY DEF RouteEvent, PlayNote, Dispatch
<1>4. /\ Legal(keyQueue, keysDown)
      /\ DownAfter(keyQueue, keysDown, Len(keyQueue)) =
           IF HasKeySink /\ h # NoKey THEN {CodeTable[h]} ELSE {}
  BY <1>1 DEF KeyPipe, KeysWanted
<1>5. SUFFICES /\ Legal(keyQueue', keysDown)
               /\ DownAfter(keyQueue', keysDown, Len(keyQueue')) =
                    IF HasKeySink /\ g # NoKey THEN {CodeTable[g]} ELSE {}
  BY <1>1, <1>2 DEF KeyPipe, KeysWanted
<1>6. \/ g = h /\ ks = <<>>
      \/ h = NoKey /\ g \in Offsets /\ ks = <<dn>>
      \/ h \in Offsets /\ g \in Offsets /\ ks = <<up, dn>>
      \/ h \in Offsets /\ g = NoKey /\ ks = <<up>>
  BY <1>1, OutcomeCases
<1>7. /\ h \in Offsets => /\ up \in E /\ Request(up) \in KeyRequests
                          /\ Request(up).code = CodeTable[h] /\ ~Request(up).press
      /\ g \in Offsets => /\ dn \in E /\ Request(dn) \in KeyRequests
                          /\ Request(dn).code = CodeTable[g] /\ Request(dn).press
  BY ReleaseRequest, PressRequest
<1>8. NoKey \notin Offsets
  BY DEF Offsets, NoKey, NumKeys, NumOctaves
<1> HIDE DEF up, dn, ks, g, h
<1>9. CASE ~HasKeySink \/ (g = h /\ ks = <<>>)
  <2>1. es = <<>>
    BY <1>9
  <2>2. keyQueue' = keyQueue
    BY <1>1, <1>3, <2>1
  <2> QED
    BY <1>4, <1>9, <2>2
<1>10. CASE HasKeySink /\ h = NoKey /\ g \in Offsets /\ ks = <<dn>>
  <2>1. keyQueue' = Append(keyQueue, Request(dn))
    BY <1>1, <1>3, <1>7, <1>10, DispatchSmall
  <2>2. /\ Legal(keyQueue, keysDown) /\ DownAfter(keyQueue, keysDown, Len(keyQueue)) = {}
        /\ Request(dn) \in KeyRequests /\ Request(dn).press
        /\ Request(dn).code = CodeTable[g]
    BY <1>4, <1>7, <1>10
  <2>3. Legal(keyQueue', keysDown) /\ DownAfter(keyQueue', keysDown, Len(keyQueue')) = {CodeTable[g]}
    BY <1>1, <1>10, <2>1, <2>2, PipePress
  <2> QED
    BY <1>8, <1>10, <2>3
<1>11. CASE HasKeySink /\ h \in Offsets /\ g \in Offsets /\ ks = <<up, dn>>
  <2> DEFINE a == Append(keyQueue, Request(up))
  <2>1. keyQueue' = Append(a, Request(dn))
    BY <1>1, <1>3, <1>7, <1>11, DispatchSmall
  <2>2. a \in Seq(KeyRequests) /\ Legal(a, keysDown) /\ DownAfter(a, keysDown, Len(a)) = {}
    BY <1>1, <1>4, <1>7, <1>8, <1>11, PipeRelease
  <2> HIDE DEF a
  <2>3. /\ Request(dn) \in KeyRequests /\ Request(dn).press
        /\ Request(dn).code = CodeTable[g]
    BY <1>7, <1>11
  <2>4. Legal(keyQueue', keysDown) /\ DownAfter(keyQueue', keysDown, Len(keyQueue')) = {CodeTable[g]}
    BY <1>11, <2>1, <2>2, <2>3, PipePress
  <2> QED
    BY <1>8, <1>11, <2>4
<1>12. CASE HasKeySink /\ h \in Offsets /\ g = NoKey /\ ks = <<up>>
  <2>1. keyQueue' = Append(keyQueue, Request(up))
    BY <1>1, <1>3, <1>7, <1>12, DispatchSmall
  <2> QED
    BY <1>1, <1>4, <1>7, <1>8, <1>12, <2>1, PipeRelease
<1> QED
  BY <1>6, <1>9, <1>10, <1>11, <1>12

\* So does the release of the exit path.
LEMMA ReleaseOnExitPipe ==
  ASSUME TypeOK, KeyPipe, ReleaseOnExit
  PROVE  KeyPipe'
<1> DEFINE h == held["local"]
           up == KeyEvent(h, FALSE)
<1>1. /\ keyQueue \in Seq(KeyRequests) /\ h \in Offsets \cup {NoKey}
      /\ phase = "exit" /\ phase' = "done" /\ keysDown' = keysDown
  BY DEF Players, TypeOK, KeySinkTypeOK, ReleaseOnExit, Dispatch
<1>2. keyQueue' = keyQueue \o [i \in DOMAIN ExitEvents |-> Request(ExitEvents[i])]
  BY DEF ReleaseOnExit, Dispatch, ExitEvents
<1>3. SUFFICES Legal(keyQueue', keysDown) /\ DownAfter(keyQueue', keysDown, Len(keyQueue')) = {}
  BY <1>1 DEF KeyPipe, KeysWanted
<1>4. /\ Legal(keyQueue, keysDown)
      /\ DownAfter(keyQueue, keysDown, Len(keyQueue)) =
           IF HasKeySink /\ h # NoKey THEN {CodeTable[h]} ELSE {}
  BY <1>1 DEF KeyPipe, KeysWanted
<1>5. ExitEvents = IF HasKeySink /\ h >= 0 THEN <<up>> ELSE <<>>
  BY DEF ExitEvents
<1>6. h \in Offsets => /\ up \in [key : Offsets, press : BOOLEAN]
                       /\ Request(up) \in KeyRequests
                       /\ Request(up).code = CodeTable[h] /\ ~Request(up).press
  BY ReleaseRequest
<1> HIDE DEF h, up
<1>7. h >= 0 <=> h # NoKey
  BY <1>1 DEF Offsets, NoKey, NumKeys, NumOctaves
<1>8. CASE HasKeySink /\ h # NoKey
  <2>1. keyQueue' = Append(keyQueue, Request(up))
    BY <1>1, <1>2, <1>5, <1>6, <1>7, <1>8, DispatchSmall
  <2>2. /\ h \in Offsets /\ CodeTable[h] = Request(up).code
        /\ Request(up) \in KeyRequests /\ ~Request(up).press
        /\ keyQueue \in Seq(KeyRequests)
        /\ Legal(keyQueue, keysDown)
        /\ DownAfter(keyQueue, keysDown, Len(keyQueue)) = {Request(up).code}
    BY <1>1, <1>4, <1>6, <1>8
  <2> QED
    BY <2>1, <2>2, PipeRelease
<1>9. CASE ~(HasKeySink /\ h # NoKey)
  <2>1. ExitEvents = <<>>
    BY <1>5, <1>7, <1>9
  <2>2. keyQueue' = keyQueue
    BY <1>1, <1>2, <2>1
  <2> QED
    BY <1>4, <1>9, <2>2
<1> QED
  BY <1>8, <1>9

\* A replayed request is a step of the keyboard and keeps the pipe.
LEMMA ReplayKeyPipe ==
  ASSUME TypeOK, KeyPipe, ReplayKey
  PROVE  KeyPipe' /\ Keyboard!Next
<1> DEFINE r == Head(keyQueue)
<1>1. /\ keyQueue \in Seq(KeyRequests) /\ keyQueue # <<>> /\ keyQueue' = Tail(keyQueue)
      /\ keysDown' = IF r.press THEN keysDown \cup {r.code} ELSE keysDown \ {r.code}
      /\ KeysWanted' = KeysWanted
  BY DEF TypeOK, KeySinkTypeOK, ReplayKey, ReplayRequest, routerVars, KeysWanted
<1>2. r = keyQueue[1] /\ r \in KeyRequests
  BY <1>1, HeadTailProperties
<1>3. r.press \in BOOLEAN /\ r.code \in KeyCodes
  BY <1>2 DEF KeyRequests
<1>4. keysDown = Before(r)
  BY <1>1, PipeTail DEF KeyPipe
<1>5. keysDown' = IF r.press THEN {r.code} ELSE {}
  BY <1>1, <1>3, <1>4 DEF Before
<1>6. keysDown' = DownAfter(keyQueue, keysDown, 1)
  BY <1>2, <1>5 DEF DownAfter
<1>7. KeyPipe'
  BY <1>1, <1>6, PipeTail DEF KeyPipe
<1>8. Keyboard!Next
  <2>1. CASE r.press
    BY <1>3, <1>4, <1>5, <2>1 DEF Before, Keyboard!Next, Keyboard!Press
  <2>2. CASE ~r.press
    BY <1>3, <1>4, <1>5, <2>2 DEF Before, Keyboard!Next, Keyboard!Release
  <2> QED
    BY <2>1, <2>2
<1> QED
  BY <1>7, <1>8

\* Every step keeps the pipe, and is a step of the keyboard or leaves it alone.
LEMMA NextPipe ==
  TypeOK /\ KeyPipe /\ [Next]_vars => KeyPipe' /\ [Keyboard!Next]_keysDown
<1> SUFFICES ASSUME TypeOK, KeyPipe, [Next]_vars
             PROVE  KeyPipe' /\ [Keyboard!Next]_keysDown
  OBVIOUS
<1>1. ASSUME NEW ev \in Events, RouteEvent(ev)
      PROVE  KeyPipe' /\ keysDown' = keysDown
  BY <1>1, RouteEventPipe DEF RouteEvent, PlayNote, Dispatch
<1>2. ASSUME NEW ev \in Events, SendFails(ev)
      PROVE  KeyPipe' /\ keysDown' = keysDown
  BY <1>2 DEF SendFails, keySinkVars, KeyPipe, KeysWanted
<1>3. CASE SourceFails
  BY <1>3 DEF SourceFails, keySinkVars, KeyPipe, KeysWanted
<1>4. CASE ReleaseOnExit
  BY <1>4, ReleaseOnExitPipe DEF ReleaseOnExit, Dispatch
<1>5. CASE ReplayKey
  BY <1>5, ReplayKeyPipe
<1>6. CASE ApplyNote
  BY <1>6 DEF ApplyNote, keySinkVars, KeyPipe, KeysWanted
<1>7. CASE TakeDatagram
  BY <1>7 DEF TakeDatagram, keySinkVars, KeyPipe, KeysWanted
<1>8. CASE UNCHANGED vars
  BY <1>8 DEF vars, keySinkVars, routerVars, KeyPipe, KeysWanted
<1> QED
  BY <1>1, <1>2, <1>3, <1>4, <1>5, <1>6, <1>7, <1>8 DEF Next, Terminated

LEMMA InitPipe == Init => KeyPipe /\ Keyboard!Init
BY DEF Init, KeySinkInit, KeyPipe, Legal, DownAfter, KeysWanted, Keyboard!Init, Players

\* Once the window system has caught up with the main thread, exactly the
\* tracker's key is down, and none after the exit path: for every key map,
\* even one that binds two notes to one key.
THEOREM KeysFollow == Spec => []KeysFollowTracker
<1>1. Init => TypeOK
  BY DEF Init, KeySinkInit, TypeOK, KeySinkTypeOK
<1>2. KeyPipe => KeysFollowTracker
  BY DEF KeyPipe, KeysFollowTracker, DownAfter
<1> QED
  BY <1>1, <1>2, InitPipe, NextType, NextPipe, PTL DEF Spec

\* main() implements the one-key keyboard: the game never sees two keys down,
\* nor a press of a key that is down, nor a release of one that is not.
THEOREM OneKeyAtATime == Spec => KeyboardSpec
<1>1. Init => TypeOK
  BY DEF Init, KeySinkInit, TypeOK, KeySinkTypeOK
<1> QED
  BY <1>1, InitPipe, NextType, NextPipe, PTL DEF Spec, KeyboardSpec, Keyboard!Spec

-----------------------------------------------------------------------------
(***************************************************************************)
(* The trackers.  LastNotePriority is inductive once it is known that the  *)
(* last note a player was given is one, and one that the player handles.   *)
(***************************************************************************)

LastHandled ==
  \A p \in Players :
    \/ lastPressed[p] = {}
    \/ \E n \in Int : lastPressed[p] = {n} /\ Handles(p, n)

\* The tracker after an event, in terms of the note's offset.
LEMMA OutcomeHeld ==
  ASSUME TypeOK, NEW ev \in Events, NEW p \in Players
  PROVE  Outcome(p, ev).held =
           IF ~Handles(p, ev.note) THEN held[p]
           ELSE IF ev.pressed THEN ev.note - BaseKey[p]
           ELSE IF held[p] = ev.note - BaseKey[p] THEN NoKey ELSE held[p]
<1> DEFINE o == ev.note - BaseKey[p]
<1>1. ev.note \in Int /\ ev.pressed \in BOOLEAN /\ held[p] \in Offsets \cup {NoKey}
  BY OutcomeType DEF TypeOK
<1>2. CASE Handles(p, ev.note)
  <2>1. o \in Offsets
    BY <1>1, <1>2, HandledOffset
  <2>2. Outcome(p, ev) = HandleNote(held[p], ev.pressed, o)
    BY <1>2 DEF Outcome
  <2> HIDE DEF o
  <2>3. HandleNote(held[p], ev.pressed, o).held =
          IF ev.pressed THEN o ELSE IF held[p] = o THEN NoKey ELSE held[p]
    BY <1>1, <2>1, HandleNoteHeld
  <2> QED
    BY <1>2, <2>2, <2>3 DEF o
<1>3. CASE ~Handles(p, ev.note)
  BY <1>3 DEF Outcome, Nothing
<1> QED
  BY <1>2, <1>3

\* An iteration of the loop keeps both.
LEMMA RouteEventTrackers ==
  ASSUME TypeOK, LastHandled, LastNotePriority, NEW ev \in Events, RouteEvent(ev)
  PROVE  LastHandled' /\ LastNotePriority'
<1>1. ev.note \in Int /\ ev.pressed \in BOOLEAN
  BY OutcomeType DEF Players
<1> SUFFICES ASSUME NEW p \in Players
             PROVE  /\ \/ lastPressed'[p] = {}
                       \/ \E n \in Int : lastPressed'[p] = {n} /\ Handles(p, n)
                    /\ {held'[p]} =
                         IF lastPressed'[p] # {} /\ lastPressed'[p] \subseteq notesDown'
                         THEN {n - BaseKey[p] : n \in lastPressed'[p]} ELSE {NoKey}
  BY DEF LastHandled, LastNotePriority, Handles, InRange
<1> DEFINE note == ev.note
           base == BaseKey[p]
<1>2. /\ notesDown' = IF ev.pressed THEN notesDown \cup {note} ELSE notesDown \ {note}
      /\ lastPressed'[p] = IF ev.pressed /\ Handles(p, note) THEN {note} ELSE lastPressed[p]
      /\ held'[p] = IF ~Handles(p, note) THEN held[p]
                    ELSE IF ev.pressed THEN note - base
                    ELSE IF held[p] = note - base THEN NoKey ELSE held[p]
  BY OutcomeHeld DEF RouteEvent, RecordEvent, PlayNote
<1>3. /\ \/ lastPressed[p] = {}
         \/ \E n \in Int : lastPressed[p] = {n} /\ Handles(p, n)
      /\ {held[p]} = IF lastPressed[p] # {} /\ lastPressed[p] \subseteq notesDown
                     THEN {n - base : n \in lastPressed[p]} ELSE {NoKey}
  BY DEF LastHandled, LastNotePriority
<1>4. base \in Int
  BY RouterConstants
<1>5. \A n \in Int : Handles(p, n) => n - base # NoKey
  BY HandledOffset DEF Offsets, NoKey, NumKeys, NumOctaves
<1> HIDE DEF note, base
<1>6. note \in Int
  BY <1>1 DEF note
<1>7. CASE ev.pressed /\ Handles(p, note)
  <2>1. held'[p] = note - base /\ lastPressed'[p] = {note} /\ note \in notesDown'
    BY <1>2, <1>7
  <2>2. {n - base : n \in {note}} = {note - base}
    OBVIOUS
  <2> QED
    BY <1>6, <1>7, <2>1, <2>2 DEF base
<1>8. CASE ~(ev.pressed /\ Handles(p, note)) /\ lastPressed[p] = {}
  <2>1. held[p] = NoKey /\ lastPressed'[p] = {} /\ held'[p] = NoKey
    BY <1>2, <1>3, <1>8
  <2> QED
    BY <2>1
<1>9. CASE ~(ev.pressed /\ Handles(p, note)) /\ lastPressed[p] # {}
  <2>1. PICK n \in Int : lastPressed[p] = {n} /\ Handles(p, n)
    BY <1>3, <1>9
  <2>2. held[p] = IF n \in notesDown THEN n - base ELSE NoKey
    BY <1>3, <2>1
  <2>3. lastPressed'[p] = {n}
    BY <1>2, <1>9, <2>1
  <2>4. held'[p] = IF n \in notesDown' THEN n - base ELSE NoKey
    <3>1. CASE ~Handles(p, note)
      <4>1. n # note
        BY <2>1, <3>1
      <4> QED
        BY <1>2, <2>2, <3>1, <4>1
    <3>2. CASE Handles(p, note) /\ n = note
      BY <1>2, <1>5, <1>9, <2>1, <2>2, <3>2
    <3>3. CASE Handles(p, note) /\ n # note
      <4>1. n - base # note - base
        BY <1>4, <1>6, <3>3
      <4>2. note - base # NoKey
        BY <1>5, <1>6, <3>3
      <4>3. held'[p] = held[p]
        BY <1>2, <1>9, <2>2, <3>3, <4>1, <4>2
      <4> QED
        BY <1>2, <2>2, <3>3, <4>3
    <3> QED
      BY <3>1, <3>2, <3>3
  <2>5. {m - base : m \in {n}} = {n - base}
    OBVIOUS
  <2> QED
    BY <2>1, <2>3, <2>4, <2>5 DEF base
<1> QED
  BY <1>7, <1>8, <1>9

LEMMA NextTrackers ==
  TypeOK /\ LastHandled /\ LastNotePriority /\ [Next]_vars
    => LastHandled' /\ LastNotePriority'
<1> SUFFICES ASSUME TypeOK, LastHandled, LastNotePriority, [Next]_vars
             PROVE  LastHandled' /\ LastNotePriority'
  OBVIOUS
<1>1. ASSUME NEW ev \in Events, RouteEvent(ev)
      PROVE  LastHandled' /\ LastNotePriority'
  BY <1>1, RouteEventTrackers
<1>2. CASE UNCHANGED <<held, notesDown, lastPressed>>
  BY <1>2 DEF LastHandled, LastNotePriority, Handles, InRange
<1> QED
  BY <1>1, <1>2 DEF Next, SendFails, SourceFails, ReleaseOnExit, ReplayKey, ApplyNote,
                    TakeDatagram, Terminated, vars, routerVars

LEMMA TrackersInv == Spec => [](TypeOK /\ LastHandled /\ LastNotePriority)
<1>1. Init => TypeOK /\ LastHandled /\ LastNotePriority
  BY DEF Init, KeySinkInit, TypeOK, KeySinkTypeOK, LastHandled, LastNotePriority
<1> QED
  BY <1>1, NextType, NextTrackers, PTL DEF Spec

\* A late, repeated or foreign release neither silences the newest note nor
\* leaves an old one held: whatever the windows and the notes.
THEOREM LastNoteWins == Spec => []LastNotePriority
BY TrackersInv, PTL

\* With a UDP sink the two players never hold the same note: whatever windows
\* the arguments give them.
THEOREM SplitKeyboard == Spec => []PlayersDisjoint
<1>1. TypeOK /\ LastHandled /\ LastNotePriority => PlayersDisjoint
  <2> SUFFICES ASSUME TypeOK, LastHandled, LastNotePriority, HasUdpSink,
                      held["local"] # NoKey, held["remote"] # NoKey
               PROVE  held["local"] + BaseKey["local"] # held["remote"] + BaseKey["remote"]
    BY DEF PlayersDisjoint
  <2>1. ASSUME NEW p \in Players, held[p] # NoKey
        PROVE  Handles(p, held[p] + BaseKey[p])
    <3>1. lastPressed[p] # {} /\ {held[p]} = {n - BaseKey[p] : n \in lastPressed[p]}
      <4>1. {held[p]} # {NoKey}
        BY <2>1
      <4> QED
        BY <4>1 DEF LastNotePriority
    <3>2. PICK n \in Int : lastPressed[p] = {n} /\ Handles(p, n)
      BY <3>1 DEF LastHandled
    <3>3. held[p] = n - BaseKey[p]
      BY <3>1, <3>2
    <3>4. BaseKey[p] \in Int
      BY RouterConstants
    <3>5. held[p] + BaseKey[p] = n
      BY <3>2, <3>3, <3>4
    <3> QED
      BY <3>2, <3>5
  <2>2. "local" \in Players /\ "remote" \in Players
    BY DEF Players
  <2>3. Handles("local", held["local"] + BaseKey["local"])
    BY <2>1, <2>2
  <2>4. Handles("remote", held["remote"] + BaseKey["remote"])
    BY <2>1, <2>2
  <2> QED
    BY <2>3, <2>4 DEF Handles
<1> QED
  BY <1>1, TrackersInv, PTL

-----------------------------------------------------------------------------
(***************************************************************************)
(* The synthesizer.  The pipe invariant says what the audio thread will    *)
(* make of the words still queued: of all that name a key of a channel the *)
(* last one counts, and it leaves the key on exactly if the tracker of the *)
(* channel's player holds it.                                              *)
(***************************************************************************)

\* The key a player's offset is posted as, when its note fits in the word's
\* eight bits (synth.cpp:60 and :67).
KeyOf(p, offset) == offset + BaseKey[p] + SynthTranspose[p]

SynthNotesFit == \A p \in Players, o \in Offsets : KeyOf(p, o) \in FmKeys

Names(w, c, k) == w.channel = c /\ w.key = k

\* The words of q from the i-th on do not turn the key off.
KeepsOn(q, i, c, k) == \A j \in i .. Len(q) : Names(q[j], c, k) => q[j].on

\* Key k of channel c is on once all of q has been applied to s.
LeavesOn(q, s, c, k) ==
  \/ k \in s[c] /\ KeepsOn(q, 1, c, k)
  \/ \E i \in 1 .. Len(q) : Names(q[i], c, k) /\ q[i].on /\ KeepsOn(q, i + 1, c, k)

WantedWith(p, h) == IF h = NoKey THEN {} ELSE {KeyOf(p, h)}

SynthPipe ==
  \A p \in Players, k \in FmKeys :
    LeavesOn(noteQueue, sounding, Channel(p), k) <=> k \in WantedWith(p, held[p])

\* A word decides about the key it names and leaves the others alone.
LEMMA OnAppend ==
  ASSUME NEW q \in Seq(SynthWords), NEW w \in SynthWords, NEW s, NEW c, NEW k
  PROVE  /\ Append(q, w) \in Seq(SynthWords)
         /\ LeavesOn(Append(q, w), s, c, k)
              <=> IF Names(w, c, k) THEN w.on ELSE LeavesOn(q, s, c, k)
<1> DEFINE a == Append(q, w)
<1>1. /\ a \in Seq(SynthWords) /\ Len(a) = Len(q) + 1 /\ Len(q) \in Nat
      /\ a[Len(q) + 1] = w
      /\ \A i \in 1 .. Len(q) : a[i] = q[i]
  BY AppendProperties
<1> HIDE DEF a
<1>2. ASSUME NEW i \in Nat, 1 <= i, i <= Len(q) + 1
      PROVE  KeepsOn(a, i, c, k) <=> KeepsOn(q, i, c, k) /\ (Names(w, c, k) => w.on)
  <2>1. ASSUME KeepsOn(a, i, c, k)
        PROVE  KeepsOn(q, i, c, k) /\ (Names(w, c, k) => w.on)
    <3>1. Len(q) + 1 \in i .. Len(a)
      BY <1>1, <1>2
    <3>2. Names(w, c, k) => w.on
      BY <1>1, <2>1, <3>1 DEF KeepsOn
    <3>3. ASSUME NEW j \in i .. Len(q)
          PROVE  Names(q[j], c, k) => q[j].on
      <4>1. j \in i .. Len(a) /\ a[j] = q[j]
        BY <1>1, <1>2
      <4> QED
        BY <2>1, <4>1 DEF KeepsOn
    <3> QED
      BY <3>2, <3>3 DEF KeepsOn
  <2>2. ASSUME KeepsOn(q, i, c, k), Names(w, c, k) => w.on
        PROVE  KeepsOn(a, i, c, k)
    <3> SUFFICES ASSUME NEW j \in i .. Len(a) PROVE Names(a[j], c, k) => a[j].on
      BY DEF KeepsOn
    <3>1. (j \in i .. Len(q) /\ a[j] = q[j]) \/ a[j] = w
      BY <1>1, <1>2
    <3> QED
      BY <2>2, <3>1 DEF KeepsOn
  <2> QED
    BY <2>1, <2>2
<1>3. KeepsOn(a, Len(a) + 1, c, k)
  BY <1>1 DEF KeepsOn
<1>4. KeepsOn(a, 1, c, k) <=> KeepsOn(q, 1, c, k) /\ (Names(w, c, k) => w.on)
  BY <1>1, <1>2
<1>5. CASE Names(w, c, k)
  <2>1. ASSUME LeavesOn(a, s, c, k) PROVE w.on
    <3>1. CASE KeepsOn(a, 1, c, k)
      BY <1>4, <1>5, <3>1
    <3>2. CASE \E i \in 1 .. Len(a) : Names(a[i], c, k) /\ a[i].on /\ KeepsOn(a, i + 1, c, k)
      <4>1. PICK i \in 1 .. Len(a) : a[i].on /\ KeepsOn(a, i + 1, c, k)
        BY <3>2
      <4>2. CASE i = Len(q) + 1
        BY <1>1, <4>1, <4>2
      <4>3. CASE i # Len(q) + 1
        <5>1. i + 1 \in Nat /\ 1 <= i + 1 /\ i + 1 <= Len(q) + 1
          BY <1>1, <4>3
        <5> QED
          BY <1>2, <1>5, <4>1, <5>1
      <4> QED
        BY <4>2, <4>3
    <3> QED
      BY <2>1, <3>1, <3>2 DEF LeavesOn
  <2>2. ASSUME w.on PROVE LeavesOn(a, s, c, k)
    <3>1. Len(a) \in 1 .. Len(a) /\ a[Len(a)] = w
      BY <1>1
    <3> QED
      BY <1>3, <1>5, <2>2, <3>1 DEF LeavesOn
  <2> QED
    BY <1>1, <1>5, <2>1, <2>2 DEF a
<1>6. CASE ~Names(w, c, k)
  <2>1. ASSUME NEW i \in 1 .. Len(q)
        PROVE  /\ i \in 1 .. Len(a) /\ a[i] = q[i]
               /\ KeepsOn(a, i + 1, c, k) <=> KeepsOn(q, i + 1, c, k)
    <3>1. i + 1 \in Nat /\ 1 <= i + 1 /\ i + 1 <= Len(q) + 1 /\ i \in 1 .. Len(a)
      BY <1>1
    <3> QED
      BY <1>1, <1>2, <1>6, <3>1
  <2>2. ASSUME LeavesOn(q, s, c, k) PROVE LeavesOn(a, s, c, k)
    BY <1>4, <1>6, <2>1, <2>2 DEF LeavesOn
  <2>3. ASSUME LeavesOn(a, s, c, k) PROVE LeavesOn(q, s, c, k)
    <3>1. CASE k \in s[c] /\ KeepsOn(a, 1, c, k)
      BY <1>4, <3>1 DEF LeavesOn
    <3>2. CASE \E i \in 1 .. Len(a) : Names(a[i], c, k) /\ a[i].on /\ KeepsOn(a, i + 1, c, k)
      <4>1. PICK i \in 1 .. Len(a) : Names(a[i], c, k) /\ a[i].on /\ KeepsOn(a, i + 1, c, k)
        BY <3>2
      <4>2. a[i] # w
        BY <1>6, <4>1
      <4>3. i \in 1 .. Len(q)
        BY <1>1, <4>2
      <4>4. Names(q[i], c, k) /\ q[i].on /\ KeepsOn(q, i + 1, c, k)
        BY <2>1, <4>1, <4>3
      <4> QED
        BY <4>3, <4>4 DEF LeavesOn
    <3> QED
      BY <2>3, <3>1, <3>2 DEF LeavesOn
  <2> QED
    BY <1>1, <1>6, <2>2, <2>3 DEF a
<1> QED
  BY <1>5, <1>6

\* Applying the oldest word changes nothing of what the queue will leave.
LEMMA OnTail ==
  ASSUME NEW q \in Seq(SynthWords), q # <<>>, NEW s \in [Channels -> SUBSET FmKeys],
         NEW c \in Channels, NEW k
  PROVE  LeavesOn(Tail(q), ApplyWord(s, Head(q)), c, k) <=> LeavesOn(q, s, c, k)
<1> DEFINE t == Tail(q)
           w == Head(q)
           r == ApplyWord(s, w)
<1>1. /\ t \in Seq(SynthWords) /\ w = q[1] /\ w \in SynthWords
      /\ Len(q) \in Nat /\ Len(q) >= 1 /\ Len(t) = Len(q) - 1
      /\ \A i \in 1 .. Len(t) : t[i] = q[i + 1]
  BY HeadTailProperties, LenProperties
<1>2. k \in r[c] <=> IF Names(w, c, k) THEN w.on ELSE k \in s[c]
  BY <1>1 DEF ApplyWord, Names, SynthWords
<1> HIDE DEF t, w, r
<1>3. ASSUME NEW i \in Nat, 1 <= i, i <= Len(t) + 1
      PROVE  KeepsOn(t, i, c, k) <=> KeepsOn(q, i + 1, c, k)
  <2>1. ASSUME KeepsOn(q, i + 1, c, k), NEW j \in i .. Len(t)
        PROVE  Names(t[j], c, k) => t[j].on
    <3>1. j + 1 \in i + 1 .. Len(q) /\ j \in 1 .. Len(t)
      BY <1>1, <1>3
    <3> QED
      BY <1>1, <2>1, <3>1 DEF KeepsOn
  <2>2. ASSUME KeepsOn(t, i, c, k), NEW j \in i + 1 .. Len(q)
        PROVE  Names(q[j], c, k) => q[j].on
    <3>1. j - 1 \in i .. Len(t) /\ j - 1 \in 1 .. Len(t) /\ (j - 1) + 1 = j
      BY <1>1, <1>3
    <3>2. t[j - 1] = q[j]
      BY <1>1, <3>1
    <3> QED
      BY <2>2, <3>1, <3>2 DEF KeepsOn
  <2> QED
    BY <2>1, <2>2 DEF KeepsOn
<1>4. KeepsOn(t, 1, c, k) <=> KeepsOn(q, 2, c, k)
  BY <1>1, <1>3
<1>5. KeepsOn(q, 1, c, k) <=> KeepsOn(q, 2, c, k) /\ (Names(w, c, k) => w.on)
  <2>1. 1 .. Len(q) = {1} \cup (2 .. Len(q))
    BY <1>1
  <2> QED
    BY <1>1, <2>1 DEF KeepsOn
<1>6. (\E i \in 1 .. Len(t) : Names(t[i], c, k) /\ t[i].on /\ KeepsOn(t, i + 1, c, k))
        <=> \E i \in 2 .. Len(q) : Names(q[i], c, k) /\ q[i].on /\ KeepsOn(q, i + 1, c, k)
  <2>1. ASSUME NEW i \in 1 .. Len(t), Names(t[i], c, k), t[i].on, KeepsOn(t, i + 1, c, k)
        PROVE  \E n \in 2 .. Len(q) : Names(q[n], c, k) /\ q[n].on /\ KeepsOn(q, n + 1, c, k)
    <3>1. i + 1 \in 2 .. Len(q) /\ i + 1 \in Nat /\ 1 <= i + 1 /\ i + 1 <= Len(t) + 1
      BY <1>1
    <3>2. KeepsOn(q, (i + 1) + 1, c, k)
      BY <1>3, <2>1, <3>1
    <3> QED
      BY <1>1, <2>1, <3>1, <3>2
  <2>2. ASSUME NEW i \in 2 .. Len(q), Names(q[i], c, k), q[i].on, KeepsOn(q, i + 1, c, k)
        PROVE  \E n \in 1 .. Len(t) : Names(t[n], c, k) /\ t[n].on /\ KeepsOn(t, n + 1, c, k)
    <3>1. i - 1 \in 1 .. Len(t) /\ i \in Nat /\ 1 <= i /\ i <= Len(t) + 1 /\ (i - 1) + 1 = i
      BY <1>1
    <3>2. KeepsOn(t, i, c, k) /\ t[i - 1] = q[i]
      BY <1>1, <1>3, <2>2, <3>1
    <3> QED
      BY <2>2, <3>1, <3>2
  <2> QED
    BY <2>1, <2>2
<1>7. LeavesOn(q, s, c, k) <=>
        \/ k \in s[c] /\ KeepsOn(q, 1, c, k)
        \/ Names(w, c, k) /\ w.on /\ KeepsOn(q, 2, c, k)
        \/ \E i \in 2 .. Len(q) : Names(q[i], c, k) /\ q[i].on /\ KeepsOn(q, i + 1, c, k)
  <2>1. 1 .. Len(q) = {1} \cup (2 .. Len(q)) /\ 1 + 1 = 2
    BY <1>1
  <2> QED
    BY <1>1, <2>1 DEF LeavesOn
<1>8. LeavesOn(t, r, c, k) <=>
        \/ k \in r[c] /\ KeepsOn(q, 2, c, k)
        \/ \E i \in 2 .. Len(q) : Names(q[i], c, k) /\ q[i].on /\ KeepsOn(q, i + 1, c, k)
  BY <1>4, <1>6 DEF LeavesOn
<1> QED
  BY <1>2, <1>5, <1>7, <1>8 DEF t, r, w

\* The word of a note that fits says what was posted, of its player's channel.
LEMMA WordFits ==
  ASSUME SynthNotesFit, NEW p \in Players, NEW o \in Offsets, NEW on \in BOOLEAN
  PROVE  /\ WordOf(p, NotePost(o, on)) \in SynthWords
         /\ WordOf(p, NotePost(o, on)).on = on
         /\ \A c, k : Names(WordOf(p, NotePost(o, on)), c, k)
                        <=> c = Channel(p) /\ k = KeyOf(p, o)
<1> DEFINE note == KeyOf(p, o)
<1>1. note \in FmKeys /\ Channel(p) \in Channels
  BY DEF SynthNotesFit, Channel, Channels
<1>2. WordOf(p, NotePost(o, on)) = PostNote(Channel(p), on, note)
  BY DEF WordOf, NotePost, KeyOf
<1> HIDE DEF note
<1>3. note % 256 = note /\ Bit16(note) = 0 /\ ~(note < 0)
  <2>1. note \div 65536 = 0
    BY <1>1 DEF FmKeys
  <2> QED
    BY <1>1, <2>1 DEF FmKeys, Bit16
<1>4. PostNote(Channel(p), on, note) = [on |-> on, channel |-> Channel(p), key |-> note]
  <2>1. (on \/ note < 0) = on
    BY <1>3, Zenon
  <2>2. (IF Bit16(note) = 1 THEN 1 ELSE Channel(p)) = Channel(p)
    BY <1>3
  <2> QED
    BY <1>3, <2>1, <2>2, Zenon DEF PostNote
<1> QED
  BY <1>1, <1>2, <1>4 DEF SynthWords, Names, note

\* What handle_note posts, beside the tracker it leaves.
LEMMA OutcomePosts ==
  ASSUME TypeOK, NEW ev \in Events, NEW p \in Players
  PROVE  LET h == held[p]
             g == Outcome(p, ev).held
             posts == Outcome(p, ev).posts
         IN  \/ g = h /\ posts = <<>>
             \/ h = NoKey /\ g \in Offsets /\ posts = <<NotePost(g, TRUE)>>
             \/ /\ h \in Offsets /\ g \in Offsets /\ g # h
                /\ posts = <<NotePost(g, TRUE), NotePost(h, FALSE)>>
             \/ /\ h \in Offsets /\ g = NoKey
                /\ posts = <<NotePost(h, FALSE), NotePost(h, FALSE)>>
             \/ \E o \in Offsets : g = h /\ h # o /\ posts = <<NotePost(o, FALSE)>>
<1> DEFINE h == held[p]
           o == ev.note - BaseKey[p]
<1>1. ev.note \in Int /\ ev.pressed \in BOOLEAN /\ h \in Offsets \cup {NoKey}
  BY OutcomeType DEF TypeOK
<1>2. CASE Handles(p, ev.note)
  <2>1. o \in Offsets
    BY <1>1, <1>2, HandledOffset
  <2>2. Outcome(p, ev) = HandleNote(h, ev.pressed, o)
    BY <1>2 DEF Outcome
  <2> HIDE DEF o, h
  <2>3. NoKey \notin Offsets
    BY DEF Offsets, NoKey, NumKeys, NumOctaves
  <2>4. CASE ev.pressed /\ h = o
    <3>1. Outcome(p, ev) = [held |-> h, keys |-> <<>>, posts |-> <<>>]
      BY <1>1, <2>1, <2>2, <2>4, HandleNoteCases
    <3>2. Outcome(p, ev).held = h /\ Outcome(p, ev).posts = <<>>
      BY <3>1
    <3> QED
      BY <3>2 DEF h
  <2>5. CASE ev.pressed /\ h = NoKey
    <3> DEFINE k == <<KeyEvent(o, TRUE)>>
               n == <<NotePost(o, TRUE)>>
    <3>1. Outcome(p, ev) = [held |-> o, keys |-> k, posts |-> n]
      BY <1>1, <2>1, <2>2, <2>5, HandleNoteCases
    <3> HIDE DEF k, n
    <3>2. Outcome(p, ev).held = o /\ Outcome(p, ev).posts = n
      BY <3>1
    <3> QED
      BY <2>1, <2>5, <3>2 DEF h, n
  <2>6. CASE ev.pressed /\ h # o /\ h # NoKey
    <3> DEFINE k == <<KeyEvent(h, FALSE), KeyEvent(o, TRUE)>>
               n == <<NotePost(o, TRUE), NotePost(h, FALSE)>>
    <3>1. Outcome(p, ev) = [held |-> o, keys |-> k, posts |-> n]
      BY <1>1, <2>1, <2>2, <2>6, HandleNoteCases
    <3> HIDE DEF k, n
    <3>2. Outcome(p, ev).held = o /\ Outcome(p, ev).posts = n
      BY <3>1
    <3> QED
      BY <1>1, <2>1, <2>6, <3>2 DEF h, n
  <2>7. CASE ~ev.pressed /\ h = o
    <3> DEFINE k == <<KeyEvent(o, FALSE)>>
               n == <<NotePost(o, FALSE), NotePost(o, FALSE)>>
    <3>1. Outcome(p, ev) = [held |-> NoKey, keys |-> k, posts |-> n]
      BY <1>1, <2>1, <2>2, <2>7, HandleNoteCases
    <3> HIDE DEF k, n
    <3>2. Outcome(p, ev).held = NoKey /\ Outcome(p, ev).posts = n
      BY <3>1
    <3> QED
      BY <2>1, <2>7, <3>2 DEF h, n
  <2>8. CASE ~ev.pressed /\ h # o
    <3> DEFINE n == <<NotePost(o, FALSE)>>
    <3>1. Outcome(p, ev) = [held |-> h, keys |-> <<>>, posts |-> n]
      BY <1>1, <2>1, <2>2, <2>8, HandleNoteCases
    <3> HIDE DEF n
    <3>2. Outcome(p, ev).held = h /\ Outcome(p, ev).posts = n
      BY <3>1
    <3> QED
      BY <2>1, <2>8, <3>2 DEF h, n
  <2> QED
    BY <1>1, <2>4, <2>5, <2>6, <2>7, <2>8
<1>3. CASE ~Handles(p, ev.note)
  BY <1>3 DEF Outcome, Nothing
<1> QED
  BY <1>2, <1>3

\* The words of up to two posts are appended one by one.
LEMMA PostSmall ==
  ASSUME NEW q \in Seq(SynthWords), NEW p \in Players
  PROVE  /\ q \o WordsOf(p, <<>>) = q
         /\ \A e : WordOf(p, e) \in SynthWords
              => q \o WordsOf(p, <<e>>) = Append(q, WordOf(p, e))
         /\ \A e, f : WordOf(p, e) \in SynthWords /\ WordOf(p, f) \in SynthWords
              => q \o WordsOf(p, <<e, f>>) = Append(Append(q, WordOf(p, e)), WordOf(p, f))
<1>1. q \o WordsOf(p, <<>>) = q
  BY DEF WordsOf
<1>2. \A v, w \in SynthWords :
        q \o <<v>> = Append(q, v) /\ q \o <<v, w>> = Append(Append(q, v), w)
  OBVIOUS
<1>3. ASSUME NEW e, WordOf(p, e) \in SynthWords
      PROVE  q \o WordsOf(p, <<e>>) = Append(q, WordOf(p, e))
  <2>1. WordsOf(p, <<e>>) = <<WordOf(p, e)>>
    BY DEF WordsOf
  <2> QED
    BY <1>3, <1>2, <2>1, Zenon
<1>4. ASSUME NEW e, NEW f, WordOf(p, e) \in SynthWords, WordOf(p, f) \in SynthWords
      PROVE  q \o WordsOf(p, <<e, f>>) = Append(Append(q, WordOf(p, e)), WordOf(p, f))
  <2>1. WordsOf(p, <<e, f>>) = <<WordOf(p, e), WordOf(p, f)>>
    BY DEF WordsOf
  <2> QED
    BY <1>4, <1>2, <2>1, Zenon
<1> QED
  BY <1>1, <1>3, <1>4

\* A player's words take what the queue leaves of his channel from his old
\* tracker to his new one, and leave the other channel alone.
LEMMA PlayerWords ==
  ASSUME SynthNotesFit, TypeOK, NEW ev \in Events, NEW p \in Players,
         NEW q \in Seq(SynthWords), NEW s
  PROVE  LET r == q \o WordsOf(p, Outcome(p, ev).posts)
         IN  /\ r \in Seq(SynthWords)
             /\ \A c \in Channels : \A k : c # Channel(p)
                  => (LeavesOn(r, s, c, k) <=> LeavesOn(q, s, c, k))
             /\ \A k : (LeavesOn(q, s, Channel(p), k) <=> k \in WantedWith(p, held[p]))
                  => (LeavesOn(r, s, Channel(p), k)
                        <=> k \in WantedWith(p, Outcome(p, ev).held))
<1> DEFINE h == held[p]
           g == Outcome(p, ev).held
           posts == Outcome(p, ev).posts
           r == q \o WordsOf(p, posts)
           W(o, on) == WordOf(p, NotePost(o, on))
<1>1. \/ g = h /\ posts = <<>>
      \/ h = NoKey /\ g \in Offsets /\ posts = <<NotePost(g, TRUE)>>
      \/ h \in Offsets /\ g \in Offsets /\ g # h
           /\ posts = <<NotePost(g, TRUE), NotePost(h, FALSE)>>
      \/ h \in Offsets /\ g = NoKey /\ posts = <<NotePost(h, FALSE), NotePost(h, FALSE)>>
      \/ \E o \in Offsets : g = h /\ h # o /\ posts = <<NotePost(o, FALSE)>>
  BY OutcomePosts
<1>2. h \in Offsets \cup {NoKey} /\ NoKey \notin Offsets
  BY DEF TypeOK, Offsets, NoKey, NumKeys, NumOctaves
<1>3. \A o \in Offsets, on \in BOOLEAN :
        /\ W(o, on) \in SynthWords /\ W(o, on).on = on
        /\ \A c, k : Names(W(o, on), c, k) <=> c = Channel(p) /\ k = KeyOf(p, o)
  BY WordFits
<1>4. /\ posts = <<>> => r = q
      /\ \A o \in Offsets, on \in BOOLEAN :
           posts = <<NotePost(o, on)>> => r = Append(q, W(o, on))
      /\ \A o, o2 \in Offsets, on, on2 \in BOOLEAN :
           posts = <<NotePost(o, on), NotePost(o2, on2)>>
             => r = Append(Append(q, W(o, on)), W(o2, on2))
  <2>1. posts = <<>> => r = q
    BY PostSmall
  <2>2. ASSUME NEW o \in Offsets, NEW on \in BOOLEAN, posts = <<NotePost(o, on)>>
        PROVE  r = Append(q, W(o, on))
    <3>1. WordOf(p, NotePost(o, on)) \in SynthWords
      BY <1>3
    <3>2. q \o WordsOf(p, <<NotePost(o, on)>>) = Append(q, WordOf(p, NotePost(o, on)))
      BY <3>1, PostSmall
    <3> QED
      BY <2>2, <3>2
  <2>3. ASSUME NEW o \in Offsets, NEW o2 \in Offsets, NEW on \in BOOLEAN, NEW on2 \in BOOLEAN,
               posts = <<NotePost(o, on), NotePost(o2, on2)>>
        PROVE  r = Append(Append(q, W(o, on)), W(o2, on2))
    <3>1. /\ WordOf(p, NotePost(o, on)) \in SynthWords
          /\ WordOf(p, NotePost(o2, on2)) \in SynthWords
      BY <1>3
    <3>2. q \o WordsOf(p, <<NotePost(o, on), NotePost(o2, on2)>>)
            = Append(Append(q, WordOf(p, NotePost(o, on))), WordOf(p, NotePost(o2, on2)))
      BY <3>1, PostSmall
    <3> QED
      BY <2>3, <3>2
  <2> QED
    BY <2>1, <2>2, <2>3
<1>5. \A a \in Seq(SynthWords), o \in Offsets, on \in BOOLEAN :
        /\ Append(a, W(o, on)) \in Seq(SynthWords)
        /\ \A c, k : LeavesOn(Append(a, W(o, on)), s, c, k)
             <=> IF c = Channel(p) /\ k = KeyOf(p, o) THEN on ELSE LeavesOn(a, s, c, k)
  BY <1>3, OnAppend
<1>6. \A o, o2 \in Offsets : KeyOf(p, o) = KeyOf(p, o2) => o = o2
  <2> SUFFICES ASSUME NEW o \in Offsets, NEW o2 \in Offsets, KeyOf(p, o) = KeyOf(p, o2)
               PROVE  o = o2
    OBVIOUS
  <2> DEFINE b == BaseKey[p]
             t == SynthTranspose[p]
  <2>1. b \in Int /\ t \in Int
    BY RouterConstants
  <2>2. o + b + t = o2 + b + t
    BY DEF KeyOf
  <2> HIDE DEF b, t
  <2> QED
    BY <2>1, <2>2 DEF Offsets
<1> HIDE DEF h, g, posts, r, W
<1>7. ASSUME NEW c, NEW k
      PROVE  /\ r \in Seq(SynthWords)
             /\ c # Channel(p) => (LeavesOn(r, s, c, k) <=> LeavesOn(q, s, c, k))
             /\ (LeavesOn(q, s, Channel(p), k) <=> k \in WantedWith(p, h))
                  => (LeavesOn(r, s, Channel(p), k) <=> k \in WantedWith(p, g))
  <2>1. CASE g = h /\ posts = <<>>
    BY <1>4, <2>1
  <2>2. CASE h = NoKey /\ g \in Offsets /\ posts = <<NotePost(g, TRUE)>>
    <3>1. r = Append(q, W(g, TRUE))
      BY <1>4, <2>2
    <3> QED
      BY <1>2, <1>5, <2>2, <3>1 DEF WantedWith
  <2>3. CASE h \in Offsets /\ g \in Offsets /\ g # h
               /\ posts = <<NotePost(g, TRUE), NotePost(h, FALSE)>>
    <3> DEFINE a == Append(q, W(g, TRUE))
    <3>1. r = Append(a, W(h, FALSE)) /\ a \in Seq(SynthWords)
      BY <1>4, <1>5, <2>3
    <3>2. \A d : LeavesOn(a, s, d, k)
            <=> IF d = Channel(p) /\ k = KeyOf(p, g) THEN TRUE ELSE LeavesOn(q, s, d, k)
      BY <1>5, <2>3
    <3> HIDE DEF a
    <3>3. r \in Seq(SynthWords) /\ \A d : LeavesOn(r, s, d, k)
            <=> IF d = Channel(p) /\ k = KeyOf(p, h) THEN FALSE ELSE LeavesOn(a, s, d, k)
      BY <1>5, <2>3, <3>1
    <3>4. KeyOf(p, g) # KeyOf(p, h) /\ h # NoKey /\ g # NoKey
      BY <1>2, <1>6, <2>3
    <3> QED
      BY <3>2, <3>3, <3>4 DEF WantedWith
  <2>4. CASE h \in Offsets /\ g = NoKey /\ posts = <<NotePost(h, FALSE), NotePost(h, FALSE)>>
    <3> DEFINE a == Append(q, W(h, FALSE))
    <3>1. r = Append(a, W(h, FALSE)) /\ a \in Seq(SynthWords)
      BY <1>4, <1>5, <2>4
    <3>2. \A d : LeavesOn(a, s, d, k)
            <=> IF d = Channel(p) /\ k = KeyOf(p, h) THEN FALSE ELSE LeavesOn(q, s, d, k)
      BY <1>5, <2>4
    <3> HIDE DEF a
    <3>3. r \in Seq(SynthWords) /\ \A d : LeavesOn(r, s, d, k)
            <=> IF d = Channel(p) /\ k = KeyOf(p, h) THEN FALSE ELSE LeavesOn(a, s, d, k)
      BY <1>5, <2>4, <3>1
    <3> QED
      BY <1>2, <2>4, <3>2, <3>3 DEF WantedWith
  <2>5. ASSUME NEW o \in Offsets, g = h, h # o, posts = <<NotePost(o, FALSE)>>
        PROVE  /\ r \in Seq(SynthWords)
               /\ c # Channel(p) => (LeavesOn(r, s, c, k) <=> LeavesOn(q, s, c, k))
               /\ (LeavesOn(q, s, Channel(p), k) <=> k \in WantedWith(p, h))
                    => (LeavesOn(r, s, Channel(p), k) <=> k \in WantedWith(p, g))
    <3>1. r = Append(q, W(o, FALSE))
      BY <1>4, <2>5
    <3>2. KeyOf(p, o) \notin WantedWith(p, h)
      BY <1>2, <1>6, <2>5 DEF WantedWith
    <3> QED
      BY <1>5, <2>5, <3>1, <3>2
  <2> QED
    BY <1>1, <2>1, <2>2, <2>3, <2>4, <2>5
<1> QED
  BY <1>7 DEF h, g, posts, r

\* An iteration of the loop keeps the pipe: the remote player's words come
\* first, the local one's after them.
LEMMA RouteEventSynth ==
  ASSUME SynthNotesFit, TypeOK, SynthPipe, NEW ev \in Events, RouteEvent(ev)
  PROVE  SynthPipe'
<1> DEFINE mid == noteQueue \o WordsOf("remote", Outcome("remote", ev).posts)
           end == mid \o WordsOf("local", Outcome("local", ev).posts)
<1>1. /\ "local" \in Players /\ "remote" \in Players
      /\ Channel("local") = 0 /\ Channel("remote") = 1 /\ 0 \in Channels /\ 1 \in Channels
  BY DEF Players, Channel, Channels
<1>2. noteQueue \in Seq(SynthWords)
  BY DEF TypeOK
<1>3. /\ mid \in Seq(SynthWords)
      /\ \A k : LeavesOn(mid, sounding, 0, k) <=> LeavesOn(noteQueue, sounding, 0, k)
      /\ \A k : (LeavesOn(noteQueue, sounding, 1, k) <=> k \in WantedWith("remote", held["remote"]))
           => (LeavesOn(mid, sounding, 1, k)
                 <=> k \in WantedWith("remote", Outcome("remote", ev).held))
  BY <1>1, <1>2, PlayerWords
<1> HIDE DEF mid
<1>4. /\ \A k : LeavesOn(end, sounding, 1, k) <=> LeavesOn(mid, sounding, 1, k)
      /\ \A k : (LeavesOn(mid, sounding, 0, k) <=> k \in WantedWith("local", held["local"]))
           => (LeavesOn(end, sounding, 0, k)
                 <=> k \in WantedWith("local", Outcome("local", ev).held))
  BY <1>1, <1>3, PlayerWords
<1>5. /\ noteQueue' = (noteQueue \o WordsOf("remote", Outcome("remote", ev).posts))
                        \o WordsOf("local", Outcome("local", ev).posts)
      /\ sounding' = sounding
      /\ held' = [p \in Players |-> Outcome(p, ev).held]
  BY DEF RouteEvent, PlayNote
<1>6. noteQueue' = end
  BY <1>5 DEF mid
<1> HIDE DEF end
<1>7. \A k \in FmKeys :
        /\ LeavesOn(noteQueue, sounding, 0, k) <=> k \in WantedWith("local", held["local"])
        /\ LeavesOn(noteQueue, sounding, 1, k) <=> k \in WantedWith("remote", held["remote"])
  BY <1>1 DEF SynthPipe
<1>8. \A k \in FmKeys :
        /\ LeavesOn(end, sounding, 0, k) <=> k \in WantedWith("local", Outcome("local", ev).held)
        /\ LeavesOn(end, sounding, 1, k) <=> k \in WantedWith("remote", Outcome("remote", ev).held)
  BY <1>3, <1>4, <1>7
<1>9. held'["local"] = Outcome("local", ev).held /\ held'["remote"] = Outcome("remote", ev).held
  BY <1>1, <1>5
<1>10. SUFFICES ASSUME NEW p \in Players, NEW k \in FmKeys
                PROVE  LeavesOn(end, sounding, Channel(p), k) <=> k \in WantedWith(p, held'[p])
  <2>1. noteQueue' = end /\ sounding' = sounding
    BY <1>5, <1>6
  <2> QED
    BY <2>1 DEF SynthPipe, WantedWith
<1> QED
  BY <1>1, <1>8, <1>9 DEF Players

\* So does the audio thread, and every other step leaves the pipe alone.
LEMMA NextSynth ==
  ASSUME SynthNotesFit, TypeOK, SynthPipe, [Next]_vars
  PROVE  SynthPipe'
<1>1. ASSUME NEW ev \in Events, RouteEvent(ev)
      PROVE  SynthPipe'
  BY <1>1, RouteEventSynth
<1>2. CASE ApplyNote
  <2>1. /\ noteQueue \in Seq(SynthWords) /\ noteQueue # <<>>
        /\ sounding \in [Channels -> SUBSET FmKeys]
        /\ noteQueue' = Tail(noteQueue) /\ held' = held
        /\ sounding' = ApplyWord(sounding, Head(noteQueue))
    BY <1>2 DEF TypeOK, ApplyNote
  <2>2. SUFFICES ASSUME NEW p \in Players, NEW k \in FmKeys
                 PROVE  LeavesOn(Tail(noteQueue), ApplyWord(sounding, Head(noteQueue)),
                                 Channel(p), k)
                          <=> k \in WantedWith(p, held[p])
    BY <2>1 DEF SynthPipe, WantedWith
  <2>3. Channel(p) \in Channels
    BY DEF Channel, Channels
  <2>4. LeavesOn(Tail(noteQueue), ApplyWord(sounding, Head(noteQueue)), Channel(p), k)
          <=> LeavesOn(noteQueue, sounding, Channel(p), k)
    BY <2>1, <2>3, OnTail
  <2> QED
    BY <2>4 DEF SynthPipe
<1>3. CASE noteQueue' = noteQueue /\ sounding' = sounding /\ held' = held
  BY <1>3 DEF SynthPipe, WantedWith
<1> QED
  BY <1>1, <1>2, <1>3 DEF Next, SendFails, SourceFails, ReleaseOnExit, ReplayKey,
                          TakeDatagram, Terminated, vars, routerVars

LEMMA InitSynth == Init => SynthPipe
<1> SUFFICES ASSUME Init, NEW p \in Players, NEW k \in FmKeys
             PROVE  LeavesOn(noteQueue, sounding, Channel(p), k) <=> k \in WantedWith(p, held[p])
  BY DEF SynthPipe
<1>1. /\ noteQueue = <<>> /\ Len(noteQueue) = 0 /\ held[p] = NoKey
      /\ sounding[Channel(p)] = {}
  BY DEF Init, Channel, Channels
<1> QED
  BY <1>1 DEF LeavesOn, WantedWith

\* Once the audio thread has caught up with the posts, each channel sounds
\* exactly its player's note, for all arguments whose transposed notes fit in
\* the word: no voice hangs and none is cut, however far it had lagged behind.
THEOREM SynthFollows ==
  ASSUME SynthNotesFit
  PROVE  Spec => []SynthFollowsTrackers
<1>1. Init => TypeOK
  BY DEF Init, KeySinkInit, TypeOK, KeySinkTypeOK
<1>2. TypeOK /\ SynthPipe /\ [Next]_vars => SynthPipe'
  BY NextSynth
<1>3. TypeOK /\ SynthPipe => SynthFollowsTrackers
  <2> SUFFICES ASSUME TypeOK, SynthPipe, noteQueue = <<>>, NEW p \in Players
               PROVE  sounding[Channel(p)] = WantedWith(p, held[p])
    BY DEF SynthFollowsTrackers, NotesWanted, WantedWith, KeyOf
  <2>1. Channel(p) \in Channels
    BY DEF Channel, Channels
  <2>2. sounding[Channel(p)] \in SUBSET FmKeys
    BY <2>1 DEF TypeOK
  <2>3. WantedWith(p, held[p]) \in SUBSET FmKeys
    BY DEF TypeOK, WantedWith, SynthNotesFit
  <2>4. \A k \in FmKeys : k \in sounding[Channel(p)] <=> k \in WantedWith(p, held[p])
    <3>1. Len(noteQueue) = 0
      OBVIOUS
    <3> QED
      BY <3>1 DEF SynthPipe, LeavesOn, KeepsOn
  <2> QED
    BY <2>2, <2>3, <2>4
<1> QED
  BY <1>1, <1>2, <1>3, InitSynth, NextType, PTL DEF Spec
=============================================================================
