----------------------------- MODULE MCNoteRouter -----------------------------
(***************************************************************************)
(* Instances of NoteRouter: the program's default windows (C2 and C5, which*)
(* overlap in C5 = 72) and notes at their edges.                           *)
(***************************************************************************)
EXTENDS NoteRouter

\* Below the windows, their lowest key, inner ones, the key they share, the
\* next, and the highest: all of them, or some.
EdgeNotes == {35, 36, 40, 72, 73}
SplitNotes == {36, 37, 72, 73, 109, 110}

DefaultBaseKey == [local |-> 36, remote |-> 72]
DefaultOctaves == [local |-> 3, remote |-> 3]
DefaultTranspose == [local |-> 12, remote |-> 0]

SemitoneDown == -1

\* --base-key 0 --synth-transpose -12, and notes near MIDI note 0.
LowBaseKey == [local |-> 0, remote |-> 72]
LowTranspose == [local |-> -12, remote |-> 0]
LowNotes == {2, 5, 14}

Win32KeyCodes == {Win32TranslateKey[c] : c \in BindChars}

\* A key map in which two characters share a key: a and e (offsets 0 and 4).
SharedKey == [c \in BindChars |-> IF c = 101 THEN 97 ELSE c]
=============================================================================
