\* MTU 4 and MaxRaw 9: a packet can pass the limit by two bytes and be followed
\* by more, and three blocks of the longest kind fit between delimiters.
CONSTANTS
  MTU = 4
  MinLen = 2
  MaxCode = 3
  MaxRaw = 9
SPECIFICATION MCSpec
INVARIANTS
  TypeOK
  NoBufferOverrun
  StateCoherent
PROPERTIES
  ZeroResynchronizes
  DecodesTheStream
