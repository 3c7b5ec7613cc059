\* A signal that arrives while the lead-in is being sent.
CONSTANTS
  SIZE = 2
  BertFrames = 2
  MaxSamples = 5
  MaxPreambles = 2
SPECIFICATION Spec
INVARIANT InterruptHonoured
