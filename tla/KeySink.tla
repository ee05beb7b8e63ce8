------------------------------- MODULE KeySink -------------------------------
(***************************************************************************)
(* The key sink (key_sink_xcb.cpp, key_sink_win32.cpp) and the bind table  *)
(* that main() builds on it (initialize_bind_table in sussybard.cpp).      *)
(* A dispatched event is a request to the window system, which replays the *)
(* requests in order, one at a time: the game sees keysDown after each.    *)
(***************************************************************************)
EXTENDS Monophony

CONSTANTS
  KeyCodes,      \* the window system's key codes
  TranslateKey   \* KeySink::translate_key: [BindChars -> KeyCodes]

VARIABLES
  keyQueue,      \* requests sent to the window system and not replayed yet
  keysDown       \* the key codes the window system holds as pressed

keySinkVars == <<keyQueue, keysDown>>

\* ASCII codes of the characters bound to the 37 keys of the instrument.
Comma == 44
Digits == 48 .. 57
LowerCase == 97 .. 122
BindChars == LowerCase \cup Digits \cup {Comma}

\* The character of the key at an offset: the letters, then the digits, and
\* the comma for the high C.
BindChar(offset) ==
  IF offset + 1 = NumKeys THEN Comma
  ELSE IF 97 + offset <= 122 THEN 97 + offset
  ELSE 48 + offset - (122 - 97 + 1)

CodeTable == [offset \in Offsets |-> TranslateKey[BindChar(offset)]]

\* translate_key of key_sink_win32.cpp, whose virtual-key codes are those of
\* the upper case letters and of the digits, and VK_OEM_COMMA.
VkOemComma == 188
Win32TranslateKey ==
  [c \in BindChars |-> IF c \in LowerCase THEN c - 32
                       ELSE IF c = Comma THEN VkOemComma ELSE c]

ASSUME TranslateKeyType == TranslateKey \in [BindChars -> KeyCodes]

KeyRequests == [code : KeyCodes, press : BOOLEAN]

-----------------------------------------------------------------------------
KeySinkInit == keyQueue = <<>> /\ keysDown = {}

Request(event) == [code |-> CodeTable[event.key], press |-> event.press]

\* KeySink::dispatch of an array of key events.
Dispatch(events) ==
  /\ keyQueue' = keyQueue \o [i \in DOMAIN events |-> Request(events[i])]
  /\ UNCHANGED keysDown

\* The window system replays the oldest request.
ReplayRequest ==
  /\ keyQueue # <<>>
  /\ keysDown' = IF Head(keyQueue).press THEN keysDown \cup {Head(keyQueue).code}
                                         ELSE keysDown \ {Head(keyQueue).code}
  /\ keyQueue' = Tail(keyQueue)

KeySinkTypeOK ==
  /\ keyQueue \in Seq(KeyRequests)
  /\ keysDown \in SUBSET KeyCodes
=============================================================================
