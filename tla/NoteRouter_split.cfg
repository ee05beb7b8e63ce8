\* --key-sink --udp-sink, transposed down by a semitone.
SPECIFICATION FairSpec
CONSTANTS
  KeyCodes <- Win32KeyCodes
  TranslateKey <- Win32TranslateKey
  Notes <- SplitNotes
  MidiTranspose <- SemitoneDown
  BaseKey <- DefaultBaseKey
  ActiveOctaves <- DefaultOctaves
  SynthTranspose <- DefaultTranspose
  HasKeySink = TRUE
  HasUdpSink = TRUE
  MaxQueued = 0
INVARIANTS TypeOK LastNotePriority PlayersDisjoint
PROPERTY KeysReleasedAtExit
