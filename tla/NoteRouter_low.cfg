\* --base-key 0 --synth-transpose -12: notes that transpose below 0.
SPECIFICATION Spec
CONSTANTS
  KeyCodes <- Win32KeyCodes
  TranslateKey <- Win32TranslateKey
  Notes <- LowNotes
  MidiTranspose = 0
  BaseKey <- LowBaseKey
  ActiveOctaves <- DefaultOctaves
  SynthTranspose <- LowTranspose
  HasKeySink = FALSE
  HasUdpSink = FALSE
  MaxQueued = 0
INVARIANT SplitMonophony
