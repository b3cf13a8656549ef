-------------------------------- MODULE Argon2 --------------------------------
(***************************************************************************)
(* Argon2 as src/web/kdbx-read.js computes it for KDBX 4 files: which block*)
(* each block is made from, and the arithmetic on halves of words it does  *)
(* for want of 64-bit integers.  What a block holds is left open: its first*)
(* two words, which choose the block to refer to, may be any words.  A word*)
(* has two limbs (16 bits each in the code), a long two words.             *)
(***************************************************************************)
EXTENDS Integers, Sequences, SequencesExt

CONSTANTS
  Params,      \* what a file may ask for: [lanes, memKiB, passes, variant]
  Limb,        \* values of a limb: 2^16 in the code
  AddrWords,   \* addresses in one block of addresses: 128 in the code
  Digest,      \* bytes of the longest BLAKE2b digest: 64 in the code
  Uppers,      \* upper words of what is mixed: they are only added
  Lengths,     \* lengths of the inputs and outputs of the hashes
  None

VARIABLES
  par,         \* the parameters
  at,          \* the block that is next: [pass, slice, lane, idx]
  written,     \* how many times each block of each lane was written
  addrCounter, \* the block of addresses in use; 0 for none
  ref,         \* the last block referred to, where and by which words
  result       \* of an operation on words, with its arguments

vars == <<par, at, written, addrCounter, ref, result>>

-----------------------------------------------------------------------------
(* Words and hashes *)

Word == Limb * Limb

\* Mutant of umulHi: the carry out of the low word is dropped.
umulHiNoCarry(a) ==
  LET x0 == a % Limb
      x1 == a \div Limb
      mid == x1 * x0 * 2
  IN (x1 * x1 + mid \div Limb) % Word

\* The upper word of a square.
umulHi(a) ==
  LET x0 == a % Limb
      x1 == a \div Limb
      mid == x1 * x0 * 2
      tl == x0 * x0 + (mid % Limb) * Limb
  IN (x1 * x1 + mid \div Limb + tl \div Word) % Word

\* a + b + 2 lo(a) lo(b), as [lo, hi].
fBlaMka(al, ah, bl, bh) ==
  LET x0 == al % Limb
      x1 == al \div Limb
      y0 == bl % Limb
      y1 == bl \div Limb
      mid == x1 * y0 + x0 * y1
      tl == x0 * y0 + (mid % Limb) * Limb
      th == (x1 * y1 + mid \div Limb + tl \div Word) % Word
      pl == tl % Word
      dl == (2 * pl) % Word
      dh == ((2 * th) % Word) + pl \div (Word \div 2)
      lo == al + bl + dl
  IN [lo |-> lo % Word, hi |-> (ah + bh + dh + lo \div Word) % Word]

\* One block of n bytes more: the counter of bytes, its carry included.
Absorb(p, n, last) ==
  LET over == p.tLo + n > Word - 1
      lo == IF over THEN p.tLo + n - Word ELSE p.tLo + n
      hi == IF over THEN p.tHi + 1 ELSE p.tHi
  IN [tLo |-> lo, tHi |-> hi, out |-> Append(p.out, [tLo |-> lo, tHi |-> hi, last |-> last])]

\* The blocks a BLAKE2b input is cut into, of two digests each, with the
\* counter of bytes before and the flag of the last one.
blake2b(len) ==
  LET Block == 2 * Digest
      count == IF len = 0 THEN 1 ELSE (len + Block - 1) \div Block
      f[i \in 0..count] ==
        IF i = 0 THEN [tLo |-> 0, tHi |-> 0, out |-> <<>>]
        ELSE LET rest == len - (i - 1) * Block
             IN Absorb(f[i - 1], IF rest < Block THEN rest ELSE Block, i = count)
  IN f[count].out

\* The pieces of a long hash: how much is taken of a digest of which length.
hPrime(outLen) ==
  LET Link(take, of) == [take |-> take, of |-> of]
      f[rem \in 0..outLen] ==
        IF rem <= Digest THEN <<Link(rem, rem)>>
        ELSE <<Link(Digest \div 2, Digest)>> \o f[rem - Digest \div 2]
  IN f[outLen]

-----------------------------------------------------------------------------
(* Memory *)

mPrime ==
  LET whole == 4 * par.lanes * (par.memKiB \div (4 * par.lanes))
  IN IF whole < 8 * par.lanes THEN 8 * par.lanes ELSE whole
q == mPrime \div par.lanes
segLen == q \div 4
curIdx == at.slice * segLen + at.idx

First == at.pass = 0 /\ at.slice = 0
startIdx == IF First THEN 2 ELSE 0

\* Argon2d (0), Argon2i (1), Argon2id (2).
dataIndependent ==
  par.variant = 1 \/ (par.variant = 2 /\ at.pass = 0 /\ at.slice < 2)

Init ==
  /\ par \in Params
  /\ at = [pass |-> 0, slice |-> 0, lane |-> 0, idx |-> 2]
  /\ written = [l \in 0..par.lanes - 1 |-> [b \in 0..q - 1 |-> IF b < 2 THEN 1 ELSE 0]]
  /\ addrCounter = 0 /\ ref = None /\ result = None

\* The next turn of the four loops.
Turn ==
  IF at.idx + 1 < segLen THEN [at EXCEPT !.idx = @ + 1]
  ELSE LET lanesDone == at.lane + 1 = par.lanes
           slice == IF lanesDone THEN (at.slice + 1) % 4 ELSE at.slice
           pass == IF lanesDone /\ at.slice = 3 THEN at.pass + 1 ELSE at.pass
       IN [pass |-> pass, slice |-> slice,
           lane |-> IF lanesDone THEN 0 ELSE at.lane + 1,
           idx |-> IF pass = 0 /\ slice = 0 THEN 2 ELSE 0]

Computing == at.pass < par.passes /\ at.idx < segLen

\* Mutant of refArea: the block being made from counts as well.
refAreaAll(sameLane) ==
  IF at.pass = 0 THEN at.slice * segLen + (IF sameLane THEN at.idx ELSE 0)
  ELSE q - segLen + (IF sameLane THEN at.idx ELSE 0)

refArea(sameLane) ==
  IF at.pass = 0
  THEN CASE at.slice = 0 -> at.idx - 1
         [] at.slice # 0 /\ sameLane -> at.slice * segLen + at.idx - 1
         [] OTHER -> at.slice * segLen + (IF at.idx = 0 THEN -1 ELSE 0)
  ELSE IF sameLane THEN q - segLen + at.idx - 1
       ELSE q - segLen + (IF at.idx = 0 THEN -1 ELSE 0)

argon2(J1, J2) ==
  LET refLane == IF First THEN at.lane ELSE J2 % par.lanes
      area == refArea(refLane = at.lane)
      rel == area - 1 - (area * umulHi(J1)) \div Word
      startPos == IF at.pass = 0 THEN 0 ELSE ((at.slice + 1) % 4) * segLen
  IN /\ Computing /\ result = None
     /\ ref' = [lane |-> refLane, pos |-> (startPos + rel) % q, J1 |-> J1, at |-> at]
     /\ written' = [written EXCEPT ![at.lane][curIdx] = @ + 1]
     /\ addrCounter' = IF ~dataIndependent THEN 0
                       ELSE IF at.idx % AddrWords = 0 \/ at.idx = startIdx
                            THEN at.idx \div AddrWords + 1 ELSE addrCounter
     /\ at' = Turn
     /\ UNCHANGED <<par, result>>

\* A segment of two blocks in the first slice is complete from the start.
Skip ==
  /\ at.pass < par.passes /\ at.idx >= segLen /\ result = None
  /\ at' = Turn
  /\ UNCHANGED <<par, written, addrCounter, ref, result>>

Fresh == ref = None /\ result = None

Mix ==
  /\ Fresh
  /\ \E al, bl \in 0..Word - 1, ah, bh \in Uppers :
       LET r == fBlaMka(al, ah, bl, bh)
       IN result' = [op |-> "mix", in |-> <<al + ah * Word, bl + bh * Word>>,
                     out |-> <<r.lo + r.hi * Word>>]
  /\ UNCHANGED <<par, at, written, addrCounter, ref>>

Square ==
  /\ Fresh
  /\ \E a \in 0..Word - 1 : result' = [op |-> "square", in |-> <<a>>, out |-> <<umulHi(a)>>]
  /\ UNCHANGED <<par, at, written, addrCounter, ref>>

Hash ==
  /\ Fresh
  /\ \E n \in Lengths : result' \in {[op |-> "blocks", in |-> <<n>>, out |-> blake2b(n)],
                                     [op |-> "hash", in |-> <<n>>, out |-> hPrime(n)]}
  /\ UNCHANGED <<par, at, written, addrCounter, ref>>

Next ==
  \/ \E J1 \in 0..Word - 1, J2 \in 0..par.lanes - 1 : argon2(J1, J2)
  \/ Skip \/ Mix \/ Square \/ Hash

Spec == Init /\ [][Next]_vars

-----------------------------------------------------------------------------
(* What must hold *)

Segment(s) == [k \in 1..segLen |-> s * segLen + k - 1]

\* RFC 9106, 3.4.2: the blocks of the last three finished segments, oldest
\* first, and, in the lane of the block, those of its own segment; not the
\* block before it.
Window(b, lane) ==
  LET finished == IF b.pass = 0 THEN [s \in 1..b.slice |-> s - 1]
                  ELSE [s \in 1..3 |-> (b.slice + s) % 4]
      all == FlattenSeq([i \in DOMAIN finished |-> Segment(finished[i])])
             \o (IF lane = b.lane THEN SubSeq(Segment(b.slice), 1, b.idx) ELSE <<>>)
  IN IF lane = b.lane \/ b.idx = 0 THEN Front(all) ELSE all

\* Every block refers to the block RFC 9106 prescribes, which has been
\* computed, and is not being computed in another lane.
RefersAsPrescribed ==
  ref # None =>
    LET W == Window(ref.at, ref.lane)
        x == (ref.J1 * ref.J1) \div Word
    IN /\ ref.pos = W[Len(W) - (Len(W) * x) \div Word]
       /\ written[ref.lane][ref.pos] >= 1
       /\ ref.lane # ref.at.lane => ref.pos \notin ToSet(Segment(ref.at.slice))
       /\ addrCounter # 0 => addrCounter = ref.at.idx \div AddrWords + 1

\* With limbs and words for want of longer integers, sums and products are
\* those of 64-bit integers, the counter of bytes is exact beyond a word, and
\* a long hash has the length that was asked for.
NumbersAreExact ==
  result # None =>
    LET in == result.in
        out == result.out
    IN CASE result.op = "mix" ->
              out[1] = (in[1] + in[2] + 2 * (in[1] % Word) * (in[2] % Word)) % (Word * Word)
         [] result.op = "square" -> out[1] = (in[1] * in[1]) \div Word
         [] result.op = "blocks" ->
              \A i \in DOMAIN out :
                /\ out[i].last <=> i = Len(out)
                /\ out[i].tLo + out[i].tHi * Word =
                     IF i * 2 * Digest < in[1] THEN i * 2 * Digest ELSE in[1]
                /\ i > 1 => (i - 1) * 2 * Digest < in[1]
         [] result.op = "hash" ->
              /\ (Len(out) - 1) * (Digest \div 2) + Last(out).take = in[1]
              /\ \A i \in DOMAIN out :
                   IF i = Len(out) THEN out[i].take = out[i].of /\ out[i].of <= Digest
                   ELSE out[i] = [take |-> Digest \div 2, of |-> Digest]
=============================================================================
