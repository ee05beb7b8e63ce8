------------------------------ MODULE Monophony ------------------------------
(***************************************************************************)
(* MonophonyTracker and the handle_note lambda of main() in sussybard.cpp, *)
(* as operators on values: what one note event does to one player's        *)
(* tracker, which key events it asks for and which notes it posts to the   *)
(* synthesizer.  A player (the local Bard, or the remote one that plays    *)
(* the mirrored part) has a window of the keyboard; inside it a note is    *)
(* named by its offset from the window's lowest key, 0 .. NumKeys - 1.     *)
(***************************************************************************)
EXTENDS Integers, Sequences

NumOctaves == 3
NumKeys == NumOctaves * 12 + 1

\* pressed_note_offset of a player who holds no key.
NoKey == -1

Offsets == 0 .. NumKeys - 1

\* The window's width: --active-octaves clamped to 0 .. NumOctaves, plus the
\* high C.
TrackerRange(octaves) ==
  LET clamped == IF octaves > NumOctaves THEN NumOctaves
                 ELSE IF octaves < 0 THEN 0 ELSE octaves
  IN  clamped * 12 + 1

\* A plausible bug: the window is one key too wide.
NoteIsNearRange(base, range, note) == note - base >= 0 /\ note - base <= range

NoteIsInRange(base, range, note) == note - base >= 0 /\ note - base < range

-----------------------------------------------------------------------------
KeyEvent(offset, press) == [key |-> offset, press |-> press]
NotePost(offset, on) == [key |-> offset, on |-> on]

\* Plausible bugs of HandleNote, which the runs must be able to tell from it.
ReleaseOnAnyKeyUp(held, pressed, offset) == held >= 0
ReleaseBeforePressOnly(held, pressed, offset) == pressed /\ held >= 0
AnyPressIsDoubleTap(held, pressed, offset) == pressed /\ held >= 0
PressBeforeRelease(held, offset, release, pressed) ==
  (IF pressed THEN <<KeyEvent(offset, TRUE)>> ELSE <<>>)
     \o (IF release THEN <<KeyEvent(held, FALSE)>> ELSE <<>>)
ReleaseTheEventsKey(held, offset, release, pressed) ==
  (IF release THEN <<KeyEvent(offset, FALSE)>> ELSE <<>>)
     \o (IF pressed THEN <<KeyEvent(offset, TRUE)>> ELSE <<>>)
HeldNoteKeepsSounding(held, offset, release, pressed) == <<NotePost(offset, pressed)>>

\* "Ignore weird double taps": the key that is already held is pressed again.
DoubleTap(held, pressed, offset) == pressed /\ held = offset

\* A press releases whatever is held; a release, only the held key itself.
ReleasesHeldKey(held, pressed, offset) == (pressed \/ held = offset) /\ held >= 0

\* The array handed to KeySink::dispatch, in its order.
KeyEvents(held, offset, release, pressed) ==
  (IF release THEN <<KeyEvent(held, FALSE)>> ELSE <<>>)
     \o (IF pressed THEN <<KeyEvent(offset, TRUE)>> ELSE <<>>)

\* The calls of Synth::post_note_on and post_note_off, in their order: the
\* event itself first, the release of the held note after it.
NotePosts(held, offset, release, pressed) ==
  <<NotePost(offset, pressed)>>
     \o (IF release THEN <<NotePost(held, FALSE)>> ELSE <<>>)

Nothing(held) == [held |-> held, keys |-> <<>>, posts |-> <<>>]

\* handle_note of an event in the window: the tracker it leaves, and the key
\* events and the notes it produces.
HandleNote(held, pressed, offset) ==
  LET release == ReleasesHeldKey(held, pressed, offset)
  IN  IF DoubleTap(held, pressed, offset)
      THEN Nothing(held)
      ELSE [held  |-> IF pressed THEN offset ELSE IF release THEN NoKey ELSE held,
            keys  |-> KeyEvents(held, offset, release, pressed),
            posts |-> NotePosts(held, offset, release, pressed)]
=============================================================================
