\* A network that loses, duplicates and reorders.
SPECIFICATION Spec
CONSTANTS
  Notes <- WindowNotes
  MidiTranspose = 12
  BaseKeyUdp = 96
  ActiveOctavesUdp = 3
  BaseKey = 36
  ActiveOctaves = 5
  ReceiverTranspose <- FiveOctavesDown
  MaxInFlight = 3
INVARIANTS TypeOK MirrorsWhenReceived PressResynchronizes
