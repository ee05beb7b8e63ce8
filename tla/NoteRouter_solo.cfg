\* The program's defaults with --key-sink: both trackers play every note.
SPECIFICATION Spec
CONSTANTS
  KeyCodes <- BindChars
  TranslateKey <- SharedKey
  Notes <- EdgeNotes
  MidiTranspose = 0
  BaseKey <- DefaultBaseKey
  ActiveOctaves <- DefaultOctaves
  SynthTranspose <- DefaultTranspose
  HasKeySink = TRUE
  HasUdpSink = FALSE
  MaxQueued = 1
INVARIANTS KeysFollowTracker SynthFollowsTrackers
PROPERTY KeyboardSpec
