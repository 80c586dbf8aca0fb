CONSTANTS
  Serial = {"dev1", "dev2"}
  Waveform = {"w1", "w2"}
SPECIFICATION SweeperSpec
INVARIANTS
  EnvelopeWasShown
  SweepsOnShownDevice
