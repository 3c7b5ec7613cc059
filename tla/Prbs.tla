-------------------------------- MODULE Prbs --------------------------------
(***************************************************************************)
(* PRBS9 of include/opvcxx/Util.h: the generator of the bit error rate      *)
(* test's bits, and the receiver's validator, which synchronizes a copy of  *)
(* the generator with what is received, then lets it run freely and counts  *)
(* the bits that differ, until too many of the last ones did.               *)
(***************************************************************************)
EXTENDS Integers, FiniteSets

CONSTANTS
  Width,          \* bits in the shift register: 9
  Tap,            \* TAP_2, the tap that is not the last bit: 4
  LOCK_COUNT,     \* good bits in a row to lock: 18
  UNLOCK_COUNT,   \* bad bits in the history to unlock: 25
  HistoryBits,    \* 128
  CountLimit      \* where the two uint32_t counters wrap: 2^32

ASSUME PrbsAssumption ==
  /\ Width \in Nat \ {0} /\ Tap \in 0..Width-1
  /\ LOCK_COUNT \in Nat \ {0}
  /\ HistoryBits \in Nat \ {0} /\ UNLOCK_COUNT \in Nat \ {0}
  /\ CountLimit \in Nat \ {0}

VARIABLES
  state,        \* the register
  synced,
  syncCount,    \* good bits in a row while synchronizing
  bitCount, errCount,
  history,      \* which of the last bits were bad, a ring
  histCount,    \* how many of them
  histPos       \* where the next bit goes in the ring

prbsVars == <<state, synced, syncCount, bitCount, errCount, history, histCount, histPos>>

Bit == {0, 1}
Registers == [0..Width-1 -> Bit]
Ring == 0..HistoryBits-1

Xor(a, b) == IF a = b THEN 0 ELSE 1
Feedback(register) == Xor(register[Width-1], register[Tap])
Shifted(register, bit) ==
  [n \in 0..Width-1 |-> IF n = 0 THEN bit ELSE register[n-1]]
One == [n \in 0..Width-1 |-> IF n = 0 THEN 1 ELSE 0]
Zero == [n \in 0..Width-1 |-> 0]

Clean == [n \in Ring |-> FALSE]
Plus(count, n) == (count + n) % CountLimit

\* The initial values, and those of reset().
Reset ==
  /\ state' = One /\ synced' = FALSE /\ syncCount' = 0
  /\ bitCount' = 0 /\ errCount' = 0
  /\ history' = Clean /\ histCount' = 0 /\ histPos' = 0

PrbsInit ==
  /\ state = One /\ synced = FALSE /\ syncCount = 0
  /\ bitCount = 0 /\ errCount = 0
  /\ history = Clean /\ histCount = 0 /\ histPos = 0

\* generate(), as the transmitter uses it: the register after one more bit.
Generated(register) == Shifted(register, Feedback(register))

\* The registers after up to n bits.
Generations(register, n) ==
  LET after[i \in 0..n] == IF i = 0 THEN register ELSE Generated(after[i-1])
  IN  after

-----------------------------------------------------------------------------
\* synchronize(): the register is filled with what is received.
Mismatch(bit) ==
  /\ bit # Feedback(state)
  /\ syncCount' = 0
  /\ UNCHANGED <<synced, bitCount, errCount, history, histCount, histPos>>

Match(bit) ==
  /\ bit = Feedback(state)
  /\ syncCount + 1 # LOCK_COUNT
  /\ syncCount' = syncCount + 1
  /\ UNCHANGED <<synced, bitCount, errCount, history, histCount, histPos>>

LockKeepsCount(bit) ==
  /\ bit = Feedback(state)
  /\ syncCount + 1 = LOCK_COUNT
  /\ synced' = TRUE
  /\ bitCount' = Plus(bitCount, LOCK_COUNT)
  /\ history' = Clean /\ histCount' = 0 /\ histPos' = 0
  /\ syncCount' = syncCount + 1
  /\ UNCHANGED errCount
Lock(bit) ==
  /\ bit = Feedback(state)
  /\ syncCount + 1 = LOCK_COUNT
  /\ synced' = TRUE
  /\ bitCount' = Plus(bitCount, LOCK_COUNT)
  /\ history' = Clean /\ histCount' = 0 /\ histPos' = 0
  /\ syncCount' = 0
  /\ UNCHANGED errCount

Synchronize(bit) ==
  /\ ~synced
  /\ state' = Shifted(state, bit)
  /\ Mismatch(bit) \/ Match(bit) \/ Lock(bit)

\* count_errors(): the oldest bit of the history makes room for this one.
HistCountKeepsOldest(bad) == histCount + (IF bad THEN 1 ELSE 0)
HistCountAfter(bad) ==
  histCount - (IF history[histPos] THEN 1 ELSE 0) + (IF bad THEN 1 ELSE 0)

NeverUnlocks(bad) == FALSE
Unlocks(bad) == bad /\ HistCountAfter(bad) >= UNLOCK_COUNT

CountErrors(bad) ==
  /\ bitCount' = Plus(bitCount, 1)
  /\ errCount' = IF bad THEN Plus(errCount, 1) ELSE errCount
  /\ history' = [history EXCEPT ![histPos] = bad]
  /\ histCount' = HistCountAfter(bad)
  /\ synced' = ~Unlocks(bad)
  /\ histPos' = (histPos + 1) % HistoryBits

\* validate() once synchronized: the register runs freely.
RunFree(bit) ==
  /\ synced
  /\ state' = Generated(state)
  /\ CountErrors(bit # Feedback(state))
  /\ UNCHANGED syncCount

Validate(bit) == Synchronize(bit) \/ RunFree(bit)

-----------------------------------------------------------------------------
PrbsTypeOK ==
  /\ state \in Registers
  /\ synced \in BOOLEAN
  /\ syncCount \in 0..LOCK_COUNT-1
  /\ bitCount \in 0..CountLimit-1 /\ errCount \in 0..CountLimit-1
  /\ history \in [Ring -> BOOLEAN]
  /\ histCount \in 0..HistoryBits
  /\ histPos \in Ring

\* hist_count, which is counted up and down, is the number of bad bits among the last
\* ones, and the validator stays locked only while there are fewer than UNLOCK_COUNT
\* of them.
HistoryCounted ==
  /\ histCount = Cardinality({n \in Ring : history[n]})
  /\ synced => histCount < UNLOCK_COUNT
=============================================================================
