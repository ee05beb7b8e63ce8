\* --key-sink --udp-sink; the ring is lapped, and its counters wrap.
SPECIFICATION FairSpec
CONSTANTS
  KeyCodes <- Win32KeyCodes
  TranslateKey <- Win32TranslateKey
  Notes <- ThreeNotes
  MidiTranspose = 0
  BaseKey <- DefaultBaseKey
  ActiveOctaves <- DefaultOctaves
  SynthTranspose <- DefaultTranspose
  HasKeySink = TRUE
  HasUdpSink = TRUE
  Words <- SynthWords
  Zero <- ZeroWord
  RingSize = 2
  CounterModulus = 4
  MaxPosts = 6
  MaxMessages = 3
INVARIANT TypeOK
PROPERTIES RefinesRouter QuietOnceReleased
