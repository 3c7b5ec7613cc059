\* Frames of 6 bytes, packets of 1 to 3: blocks of the largest length (2 data
\* bytes) occur in the middle and at the end; packets of 1 byte are too short
\* and merged ones too long to be submitted.
CONSTANTS
  MTU = 3
  MinLen = 2
  MaxCode = 3
  FrameLen = 6
  PacketLens = {1, 2, 3}
  Symbols = {0, 1}
SPECIFICATION LinkSpec
INVARIANTS
  LinkTypeOK
  RoundTrip
  RecoversAfterOneFrame
  EncodingSound
