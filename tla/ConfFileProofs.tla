--------------------------- MODULE ConfFileProofs ---------------------------
(***************************************************************************)
(* readfile stays inside its buffer, for any size of the blocks and of the *)
(* first buffer and any files, whatever the parser makes of them.          *)
(***************************************************************************)
EXTENDS ConfFile, TLAPS

Fits(t) == Len(t) \in Nat /\ Len(t) < realloc

(* Whole blocks have been read, and the next is asked for, or the file has *)
(* been read.                                                              *)
AtBlock ==
  \/ remain = block_size /\ \E k \in Nat : total = k * block_size
  \/ total = Len(text)

(* What follows in the block has been cleared. *)
Cleared == \A i \in total .. total + remain - 1 : i \notin any

Reading ==
  /\ Fits(text)
  /\ size \in {buflen, realloc}
  /\ total \in Nat /\ total <= Len(text)
  /\ remain \in 1 .. block_size /\ total + remain <= size
  /\ AtBlock
  /\ Cleared

IInv ==
  /\ outside = FALSE
  /\ pc \in {"read", "parse"} => Reading
  /\ pc = "parse" => total = Len(text)

-----------------------------------------------------------------------------
LEMMA SizeFacts ==
  /\ block_size \in Nat \ {0} /\ buflen \in Nat /\ realloc \in Nat /\ Blocks \in Nat
  /\ block_size <= buflen /\ realloc = (Blocks + 1) * block_size /\ buflen < realloc
<1>1. block_size \in Nat \ {0} /\ Blocks \in Nat \ {0}
  BY SizesAssumption
<1>2. Blocks * block_size \in Nat
  BY <1>1
<1>3. (Blocks + 1) * block_size = Blocks * block_size + block_size
  BY <1>1
<1>4. (Blocks - 1) * block_size >= 0 /\ (Blocks - 1) * block_size = Blocks * block_size - block_size
  BY <1>1
<1> QED BY <1>1, <1>2, <1>3, <1>4 DEF buflen, realloc

(* A multiple of a block that is below realloc leaves room for one more. *)
LEMMA RoomForBlock ==
  ASSUME NEW k \in Nat, k * block_size < realloc
  PROVE  (k + 1) * block_size <= realloc /\ (k + 1) * block_size = k * block_size + block_size
<1>1. block_size \in Nat \ {0} /\ Blocks \in Nat /\ realloc = (Blocks + 1) * block_size
  BY SizeFacts
<1>2. (k + 1) * block_size = k * block_size + block_size
  BY <1>1
<1>3. k < Blocks + 1
  <2>1. SUFFICES ASSUME k >= Blocks + 1 PROVE FALSE
    BY <1>1
  <2>2. (k - (Blocks + 1)) * block_size >= 0
    BY <1>1, <2>1
  <2>3. (k - (Blocks + 1)) * block_size = k * block_size - (Blocks + 1) * block_size
    BY <1>1
  <2>4. k * block_size \in Nat /\ (Blocks + 1) * block_size \in Nat
    BY <1>1
  <2> QED BY <1>1, <2>2, <2>3, <2>4
<1>4. (Blocks - k) * block_size >= 0
  BY <1>1, <1>3
<1>5. (Blocks - k) * block_size = Blocks * block_size - k * block_size
  BY <1>1
<1>6. (Blocks + 1) * block_size = Blocks * block_size + block_size
  BY <1>1
<1>7. k * block_size \in Nat /\ Blocks * block_size \in Nat
  BY <1>1
<1> QED BY <1>1, <1>2, <1>4, <1>5, <1>6, <1>7

(* A file that has just been opened. *)
LEMMA OpenStep ==
  ASSUME readconf
  PROVE  IInv'
<1>1. outside' = FALSE /\ pc' \in {"read", "failed"}
  BY DEF readconf
<1>2. Fits(text')
  <2>1. text' \in Texts \cup {s[1] : s \in Sources}
    BY DEF readconf
  <2> QED BY <2>1, SizesAssumption, SizeFacts DEF Fits
<1>3. ASSUME pc' = "read"
      PROVE  Reading'
  <2>1. size' = buflen /\ any' = {} /\ total' = 0 /\ remain' = block_size
    BY <1>3 DEF readconf
  <2>2. total' = 0 * block_size
    BY <2>1, SizeFacts
  <2>3. AtBlock'
    BY <2>1, <2>2 DEF AtBlock
  <2>4. Cleared'
    BY <2>1 DEF Cleared
  <2>5. Fits(text)'
    BY <1>2 DEF Fits, realloc, buflen
  <2>6. /\ size' \in {buflen, realloc}' /\ total' \in Nat /\ total' <= Len(text')
        /\ remain' \in 1 .. block_size /\ total' + remain' <= size'
    BY <1>2, <2>1, SizeFacts DEF Fits
  <2> QED BY <2>3, <2>4, <2>5, <2>6 DEF Reading
<1> QED BY <1>1, <1>3 DEF IInv

(* One round of readfile: a whole block, or the rest of the file. *)
LEMMA RoundStep ==
  ASSUME Reading, outside = FALSE, text' = text, NEW n \in Nat, n > 0,
         n <= remain, n <= Len(text) - total, n = remain \/ n = Len(text) - total, readfile(n)
  PROVE  Reading' /\ outside' = FALSE
<1>0. /\ Len(text) \in Nat /\ Len(text) < realloc /\ total \in Nat /\ total <= Len(text)
      /\ size \in Nat /\ size <= realloc /\ remain \in Nat /\ remain > 0 /\ remain <= block_size
      /\ total + remain <= size /\ AtBlock /\ Cleared /\ size \in {buflen, realloc}
  BY SizeFacts DEF Reading, Fits
<1>1. /\ total' = total + n /\ n <= remain /\ n <= Len(text) - total
      /\ block_size \in Nat \ {0} /\ realloc \in Nat
  BY SizeFacts DEF readfile
<1>2. total # Len(text)
  BY <1>0, <1>1
<1>3. remain = block_size /\ \E k \in Nat : total = k * block_size
  BY <1>0, <1>2 DEF AtBlock
<1>4. CASE remain = n
  <2> DEFINE new == total + block_size .. total + 2 * block_size - 1
             read == total .. total + n - 1
  <2>0. PICK k \in Nat : total = k * block_size
    BY <1>3
  <2>1. /\ remain' = block_size /\ size' = realloc
        /\ any' = (any \cup size .. realloc - 1) \ (read \cup new)
        /\ outside' = (outside \/ total + n > size \/ total + 2 * block_size > realloc)
    BY <1>4 DEF readfile
  <2>2. total' = (k + 1) * block_size /\ k + 1 \in Nat
    <3>1. (k + 1) * block_size = k * block_size + block_size
      BY <1>1
    <3> QED BY <1>1, <1>3, <1>4, <2>0, <3>1
  <2>3. total' < realloc /\ total' \in Nat /\ total' <= Len(text)
    BY <1>0, <1>1
  <2>4. (k + 2) * block_size = total' + block_size /\ total' + block_size <= realloc
    <3>1. (k + 1) * block_size < realloc
      BY <2>2, <2>3
    <3>2. ((k + 1) + 1) * block_size <= realloc /\ ((k + 1) + 1) * block_size = (k + 1) * block_size + block_size
      BY <2>2, <3>1, RoomForBlock
    <3> QED BY <2>2, <3>2
  <2>5. total' = total + block_size /\ total + 2 * block_size = total' + block_size
    BY <1>0, <1>1, <1>3, <1>4
  <2>6. outside' = FALSE
    <3>1. ~(total + n > size) /\ ~(total + 2 * block_size > realloc)
      BY <1>0, <1>1, <1>4, <2>4, <2>5
    <3> QED BY <2>1, <3>1
  <2>7. Cleared'
    <3>1. \A i \in total' .. total' + remain' - 1 : i \in new
      BY <1>0, <1>1, <2>1, <2>5
    <3> HIDE DEF new, read
    <3> QED BY <2>1, <3>1 DEF Cleared
  <2>8. AtBlock'
    BY <2>1, <2>2 DEF AtBlock
  <2>9. Fits(text)'
    BY <1>0 DEF Fits, realloc, buflen
  <2>10. size' \in {buflen, realloc}' /\ remain' \in 1 .. block_size /\ total' + remain' <= size'
    BY <2>1, <2>4, SizeFacts
  <2> QED BY <2>3, <2>6, <2>7, <2>8, <2>9, <2>10 DEF Reading
<1>5. CASE remain # n
  <2>1. /\ remain' = remain - n /\ any' = any \ (total .. total + n - 1)
        /\ outside' = (outside \/ total + n > size) /\ size' = size
    BY <1>5 DEF readfile
  <2>2. total' = Len(text)
    BY <1>0, <1>1, <1>5
  <2>3. outside' = FALSE /\ total' + remain' <= size' /\ remain' \in 1 .. block_size
    <3>1. ~(total + n > size)
      BY <1>0, <1>1
    <3>2. remain - n \in 1 .. block_size /\ (total + n) + (remain - n) <= size
      BY <1>0, <1>1, <1>5
    <3> QED BY <1>1, <2>1, <3>1, <3>2
  <2>4. Cleared'
    <3>1. \A i \in total' .. total' + remain' - 1 : i \in total .. total + remain - 1
      BY <1>0, <1>1, <2>1
    <3> QED BY <1>0, <2>1, <3>1 DEF Cleared
  <2>5. AtBlock' /\ Fits(text)'
    BY <1>0, <2>2 DEF AtBlock, Fits, realloc, buflen
  <2> QED BY <1>0, <2>1, <2>2, <2>3, <2>4, <2>5 DEF Reading
<1> QED BY <1>4, <1>5

LEMMA ReadStep ==
  ASSUME IInv, Read
  PROVE  IInv'
<1> DEFINE n == IF Len(text) - total < remain THEN Len(text) - total ELSE remain
<1>1. pc = "read" /\ Reading /\ outside = FALSE /\ text' = text
  BY DEF Read, IInv, file
<1>2. n \in Nat /\ (n = 0 => total = Len(text))
  BY <1>1, SizeFacts DEF Reading, Fits
<1>3. CASE pc' = "failed" /\ UNCHANGED <<buffer, junk>>
  BY <1>1, <1>3 DEF IInv, buffer
<1>4. CASE n > 0 /\ readfile(n) /\ UNCHANGED <<pc, junk>>
  <2>1. n <= remain /\ n <= Len(text) - total /\ (n = remain \/ n = Len(text) - total)
    BY <1>1, SizeFacts DEF Reading, Fits
  <2> HIDE DEF n
  <2>2. Reading' /\ outside' = FALSE
    BY <1>1, <1>2, <1>4, <2>1, RoundStep
  <2> QED BY <1>1, <1>4, <2>2 DEF IInv
<1>5. CASE n = 0 /\ pc' = "parse" /\ UNCHANGED buffer
  <2>1. Reading' /\ total' = Len(text')
    BY <1>1, <1>2, <1>5 DEF Reading, Fits, AtBlock, Cleared, buffer, realloc, buflen
  <2> QED BY <1>1, <1>5, <2>1 DEF IInv, buffer
<1> QED BY <1>3, <1>4, <1>5 DEF Read

-----------------------------------------------------------------------------
(* The invariant of the reading: whole blocks until the end of the file,   *)
(* and behind them a block that has been cleared.                          *)
THEOREM FileInvariance == FileSpec => []IInv
<1>1. Init => IInv
  BY DEF Init, IInv
<1>2. IInv /\ [FileNext]_vars => IInv'
  <2> SUFFICES ASSUME IInv, [FileNext]_vars PROVE IInv'
    OBVIOUS
  <2>1. CASE readconf
    BY <2>1, OpenStep
  <2>2. CASE Read
    BY <2>2, ReadStep
  <2>3. CASE Parsing
    BY <2>3 DEF Parsing, IInv, buffer
  <2>4. CASE destroy
    BY <2>4 DEF destroy, IInv
  <2>5. CASE UNCHANGED vars
    BY <2>5 DEF vars, file, buffer, IInv, Reading, Fits, AtBlock, Cleared, realloc, buflen
  <2> QED BY <2>1, <2>2, <2>3, <2>4, <2>5 DEF FileNext
<1> QED BY <1>1, <1>2, PTL DEF FileSpec

(* readfile never writes beyond the buffer, always has room to read into,  *)
(* and leaves a zero behind the last byte of the file, whatever its length *)
(* below that at which the buffer stops growing.                           *)
THEOREM StaysInBuffer == FileSpec => []InBuffer
<1>1. IInv => InBuffer
  <2> SUFFICES ASSUME IInv PROVE InBuffer
    OBVIOUS
  <2>1. ~outside
    BY DEF IInv
  <2>2. ASSUME pc = "read"
        PROVE  remain > 0 /\ total + remain <= size
    BY <2>2, SizeFacts DEF IInv, Reading
  <2>3. ASSUME pc = "parse"
        PROVE  total = Len(text) /\ At(end) = "zero"
    <3>1. /\ total = Len(text) /\ total \in Nat /\ remain \in Nat /\ remain > 0 /\ size \in Nat
          /\ total + remain <= size /\ Cleared
      BY <2>3, SizeFacts DEF IInv, Reading
    <3>2. total \notin any
      BY <3>1 DEF Cleared
    <3>3. ~(end < end) /\ ~(end > size) /\ end - 1 = total
      BY <3>1 DEF end
    <3> QED BY <3>1, <3>2, <3>3 DEF At
  <2> QED BY <2>1, <2>2, <2>3 DEF InBuffer
<1> QED BY <1>1, FileInvariance, PTL
=============================================================================
