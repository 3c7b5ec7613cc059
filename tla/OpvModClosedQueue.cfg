\* The input ends while samples are still in the queue.
CONSTANTS
  SIZE = 2
  BertFrames = 2
  MaxSamples = 5
  MaxPreambles = 2
SPECIFICATION Spec
INVARIANT NoWaitOnClosedQueue
