\* Frames of three samples and a queue of three, up to eleven samples: three full
\* frames and a partial one, a full queue, and every number of samples from none.
CONSTANTS
  SIZE = 3
  BertFrames = 2
  MaxSamples = 11
  MaxPreambles = 2
SPECIFICATION FairSpec
INVARIANTS
  TypeOK
  SamplesInOrder
  NothingLost
  NoLostWakeup
  VoiceTransmissionShape
  BertTransmissionShape
PROPERTIES
  ProgramEnds
  RelaysVoice
