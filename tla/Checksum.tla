------------------------------ MODULE Checksum ------------------------------
(***************************************************************************)
(* internetChecksum and verifyIpChecksum (utils/checksum.cpp), step by     *)
(* step, with their 16-bit words and 32-bit sum for bytes of any base:     *)
(* 256 in the code, less when TLC goes through all data of a length.       *)
(***************************************************************************)
EXTENDS Integers, Sequences, Functions

CONSTANTS
  BYTE,     \* one more than the largest byte
  MaxLen    \* the longest data; ip_parser.cpp passes at most 60 bytes

U16 == BYTE * BYTE
UINT32 == U16 * U16

\* Data short enough for the sum not to overflow: 131072 bytes in the code.
ASSUME ChecksumAssumption ==
  /\ BYTE \in Nat /\ BYTE >= 2
  /\ MaxLen \in Nat /\ MaxLen <= 2 * U16

VARIABLES
  phase, data, len, sum, checksum,
  total    \* history: the words added so far, as a number without a width

checksumVars == <<phase, data, len, sum, checksum, total>>
-----------------------------------------------------------------------------
Bytes == 0 .. BYTE - 1

ChecksumInit ==
  /\ \E n \in 0..MaxLen : data \in [1..n -> Bytes]
  /\ phase = "words" /\ len = Len(data)
  /\ sum = 0 /\ total = 0 /\ checksum = 0

\* data[0] of the code, which moves the pointer along.
next(k) == data[Len(data) - len + 1 + k]

add(word) ==
  /\ sum' = (sum + word) % UINT32
  /\ total' = total + word

addWord ==
  /\ phase = "words" /\ len > 1
  /\ add(BYTE * next(0) + next(1))
  /\ len' = len - 2
  /\ UNCHANGED <<phase, data, checksum>>

\* A last byte alone is the high half of a word.
lastWordLow == next(0)
lastWord == BYTE * next(0)

addLast ==
  /\ phase = "words" /\ len <= 1
  /\ IF len = 1 THEN add(lastWord) ELSE UNCHANGED <<sum, total>>
  /\ phase' = "fold"
  /\ UNCHANGED <<data, len, checksum>>

foldsLate == sum \div U16 > 1
folds == sum \div U16 > 0

foldCarry ==
  /\ phase = "fold" /\ folds
  /\ sum' = (sum % U16) + (sum \div U16)
  /\ UNCHANGED <<phase, data, len, checksum, total>>

complement ==
  /\ phase = "fold" /\ ~folds
  /\ checksum' = (UINT32 - 1 - sum) % U16
  /\ phase' = "done"
  /\ UNCHANGED <<data, len, sum, total>>

verifyIpChecksum == checksum = 0

ChecksumNext == addWord \/ addLast \/ foldCarry \/ complement
ChecksumSpec == ChecksumInit /\ [][ChecksumNext]_checksumVars
-----------------------------------------------------------------------------
\* The checksum completes the words to zero in one's complement arithmetic: a
\* header verifies exactly when its words, the checksum among them, add up to
\* a positive multiple of 2^16 - 1, and putting the checksum where zero was
\* makes it verify.
Completes ==
  phase = "done" =>
    /\ checksum \in 0 .. U16 - 1
    /\ (total + checksum) % (U16 - 1) = 0
    /\ total + checksum > 0
    /\ verifyIpChecksum <=> total > 0 /\ total % (U16 - 1) = 0

\* What the k-th byte counts for, in the high or the low half of a word.
weights == [k \in 1..Len(data) |-> IF k % 2 = 1 THEN BYTE * data[k] ELSE data[k]]

\* Every byte is added once, at its place in its word, in data of any parity.
SumsEveryByte == phase = "done" => total = SumFunction(weights)
=============================================================================
