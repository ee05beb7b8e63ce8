------------------------------ MODULE SynthNotes ------------------------------
(***************************************************************************)
(* The 32-bit words through which the main thread tells the audio thread   *)
(* what to play (Synth::post_note_on / post_note_off), and what the loop   *)
(* of Synth::mix_samples makes of one (synth.cpp).  A word is the bitwise  *)
(* OR of the note, an int, of the channel in bit 16 and of the note-on     *)
(* flag in bit 31; the audio thread takes the note from bits 0-7.  A word  *)
(* is represented by the three fields the audio thread extracts.           *)
(***************************************************************************)
EXTENDS Integers

Channels == 0 .. 1
FmKeys == 0 .. 255
SynthWords == [on : BOOLEAN, channel : Channels, key : FmKeys]

\* Bit 16 of the two's complement of note (\div rounds down, so this holds of
\* negative notes too); bit 31 is its sign.
Bit16(note) == (note \div 65536) % 2

\* note | 0x80000000u | (channel << 16), or without the flag, for a channel in
\* 0 .. 1 and an int note.
PostNote(channel, on, note) ==
  [on      |-> on \/ note < 0,
   channel |-> IF Bit16(note) = 1 THEN 1 ELSE channel,
   key     |-> note % 256]

\* fmsynth_note_on / fmsynth_note_off of the synthesizer of the word's
\* channel.  sounding[c] is the set of keys whose voices of channel c are on.
ApplyWord(sounding, word) ==
  [sounding EXCEPT ![word.channel] = IF word.on THEN @ \cup {word.key}
                                                ELSE @ \ {word.key}]
=============================================================================
