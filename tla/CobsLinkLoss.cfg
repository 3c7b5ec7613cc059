\* Voice frames as opv-mod fills them: the packet, its code byte and one zero.
CONSTANTS
  MTU = 7
  MinLen = 2
  MaxCode = 5
  FrameLen = 5
  PacketLens = {3}
  Symbols = {1}
SPECIFICATION LinkSpec
INVARIANT IntactFrameNeverLost
