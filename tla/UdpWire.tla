------------------------------- MODULE UdpWire -------------------------------
(***************************************************************************)
(* The one-byte datagrams of UDPSink::send (udp_sink.cpp) and what         *)
(* MIDISourceUDP::wait_next_note_event makes of one (midi_source_udp.cpp): *)
(* the note in bits 0-6, the press flag in bit 7.                          *)
(***************************************************************************)
EXTENDS Integers

Bytes == 0 .. 255

\* uint8_t(note) | (pressed ? 0x80 : 0), for any int note.
SendByte(note, pressed) ==
  LET low == note % 256
  IN  IF pressed /\ low < 128 THEN low + 128 ELSE low

\* Decoding: event.note and event.pressed.
ByteNote(byte) == byte % 128
BytePressed(byte) == byte >= 128
=============================================================================
