----------------------------- MODULE MixedRadix -----------------------------
(***************************************************************************)
(* From residues to the digits of a gadget (ResidueArithmetic of _cpu_ext/ *)
(* bfv_residue.h).  A coefficient modulo Q is kept as residues modulo the  *)
(* primes of Q.  Key switching cuts the representative in 0 .. Q - 1 into  *)
(* digits of a few bits, so this one has to be found, and no other: first  *)
(* its digits in the mixed radix of the primes (Garner), then its words,   *)
(* then the digits of the gadget, and their residues.                      *)
(*                                                                         *)
(* One step is one round of a loop.                                        *)
(***************************************************************************)
EXTENDS WordArithmetic, Sequences, FiniteSetsExt

CONSTANTS RadixPrimes,   \* the primes of Q, largest first
          GadgetBits,        \* widths of gadget digits
          PrimeBits,         \* bits of a prime: 60 in the code
          WordCount          \* words of a coefficient: 8 in the code

M == RadixPrimes
Count == Len(M)
WordBits == PrimeBits + 4

ProductTo[j \in 0 .. Count] == IF j = 0 THEN 1 ELSE ProductTo[j - 1] * M[j]
RadixModulus == ProductTo[Count]

(* 1 << b                                                                  *)
BitPower[b \in 0 .. WordBits * WordCount] == IF b = 0 THEN 1 ELSE 2 * BitPower[b - 1]

(* inverses_: of M[k] modulo M[j].                                         *)
GarnerInverse(k, j) == Invert(M[k] % M[j], M[j])

(* A prime has four bits less than a word, and Q as many as its primes.    *)
ASSUME RadixAssumption ==
  /\ PrimeBits \in Nat \ {0} /\ WordCount \in Nat \ {0} /\ B = BitPower[WordBits]
  /\ M \in Seq(BitPower[PrimeBits - 1] + 1 .. BitPower[PrimeBits] - 1) /\ Count > 0
  /\ PrimeBits * Count <= WordBits * WordCount
  /\ RadixModulus \in BitPower[PrimeBits * Count - 1] .. BitPower[PrimeBits * Count]
  /\ GadgetBits \subseteq 1 .. PrimeBits * Count

(* The moduli are different primes, for which power_mod finds inverses.    *)
ASSUME InverseAssumption ==
  \A j \in 1 .. Count : \A k \in 1 .. j - 1 :
    GarnerInverse(k, j) \in 0 .. M[j] - 1 /\ (GarnerInverse(k, j) * M[k]) % M[j] = 1

VARIABLES coefficient,    \* the representative (history)
          loop,       \* the loop: garner, compose, done
          digits,   \* mixed-radix digits found so far
          words     \* the words, least significant first
radixVars == <<coefficient, loop, digits, words>>

RadixInit ==
  /\ coefficient \in 0 .. RadixModulus - 1
  /\ loop = "garner"
  /\ digits = <<>>
  /\ words = <<>>

(* The residue with the earlier digits taken off it, one after the other;  *)
(* the next digit is what is left.                                         *)
Remaining(j) ==
  LET left[k \in 0 .. j - 1] ==
        IF k = 0 THEN coefficient % M[j]
        ELSE Multiply(Multiplier(GarnerInverse(k, j), M[j]),
                      left[k - 1] + M[j] - Below(digits[k], M[j]), M[j])
  IN  left

NextDigit(j) == Remaining(j)[j - 1]

Garner ==
  /\ loop = "garner"
  /\ digits' = Append(digits, NextDigit(Len(digits) + 1))
  /\ words' = IF Len(digits') = Count THEN <<digits'[Count]>> ELSE <<>>
  /\ loop' = IF Len(digits') < Count THEN "garner" ELSE IF Count = 1 THEN "done" ELSE "compose"
  /\ UNCHANGED coefficient

(* words * p + d, in one pass with a carry.                                *)
Carries(w, p, d) ==
  LET carry[i \in 0 .. Len(w)] == IF i = 0 THEN d ELSE (w[i] * p + carry[i - 1]) \div B
  IN  carry

TimesPlus(w, p, d) ==
  LET carry == Carries(w, p, d)
      low == [i \in 1 .. Len(w) |-> (w[i] * p + carry[i - 1]) % B]
  IN  IF carry[Len(w)] = 0 THEN low ELSE Append(low, carry[Len(w)])

(* One factor of Horner's rule; digits are used up from the last one.      *)
Compose ==
  /\ loop = "compose"
  /\ LET j == Len(digits) - 1
     IN  /\ words' = TimesPlus(words, M[j], digits[j])
         /\ digits' = SubSeq(digits, 1, j)
         /\ loop' = IF j = 1 THEN "done" ELSE "compose"
  /\ UNCHANGED coefficient

RadixNext == Garner \/ Compose

RadixSpec == RadixInit /\ [][RadixNext]_radixVars

-----------------------------------------------------------------------------

(* A word of the fixed array: zero past the words in use.                  *)
WordAt(i) == IF i < Len(words) THEN words[i + 1] ELSE 0

(* extract: width bits from a bit on, which two words may share.           *)
Extract(bit, width) ==
  LET limb == bit \div WordBits
      offset == bit % WordBits
      low == WordAt(limb) \div BitPower[offset]
      high == IF offset > 0 /\ limb + 1 < WordCount
              THEN (WordAt(limb + 1) * BitPower[WordBits - offset]) % B ELSE 0
  IN  (low + high) % BitPower[width]

DigitCount(bits) == (PrimeBits * Count + bits - 1) \div bits
DigitWidth(start, bits) == Min({bits, PrimeBits * Count - start})

(* The bits that the loop of digit_mod takes: PrimeBits at a time from the *)
(* highest on, and in the end what is left.                                *)
Take(n) == IF n % PrimeBits = 0 THEN PrimeBits ELSE n % PrimeBits

(* Mutant: the parts of a wide digit are all read from its start.          *)
WideResiduesMutant(start, width, j) ==
  LET done[n \in 0 .. width] ==
        IF n = 0 THEN 0
        ELSE Reduce(done[n - Take(n)] * BitPower[Take(n)] + Extract(start, Take(n)), M[j])
  IN  done

(* The residues of the n highest bits of a wide digit.                     *)
WideResidues(start, width, j) ==
  LET done[n \in 0 .. width] ==
        IF n = 0 THEN 0
        ELSE Reduce(done[n - Take(n)] * BitPower[Take(n)]
                      + Extract((start + width) - n, Take(n)), M[j])
  IN  done

(* digit_mod: a gadget digit modulo a prime.  One of at most PrimeBits     *)
(* bits needs one subtraction, a wider one is reduced part by part.        *)
DigitMod(start, bits, j) ==
  LET width == DigitWidth(start, bits)
  IN  IF width <= PrimeBits THEN Below(Extract(start, width), M[j])
      ELSE WideResidues(start, width, j)[width]

-----------------------------------------------------------------------------

RadixTypeOK ==
  /\ \A k \in DOMAIN digits : digits[k] \in 0 .. M[k] - 1
  /\ Len(words) <= WordCount /\ \A i \in DOMAIN words : words[i] \in Words

(* The numbers that digits and words stand for.                            *)
DigitValues(d) ==
  LET value[k \in 0 .. Len(d)] == IF k = 0 THEN 0 ELSE value[k - 1] + d[k] * ProductTo[k - 1]
  IN  value

WordValues(w) ==
  LET value[i \in 0 .. Len(w)] ==
        IF i = 0 THEN 0 ELSE value[i - 1] + w[i] * BitPower[WordBits * (i - 1)]
  IN  value

(* Every gadget digit of every width has the residues of that digit of the *)
(* representative in 0 .. Q - 1, however the words and the primes lie; and *)
(* on the way the digits found and the words composed are those of the     *)
(* representative.                                                         *)
GadgetDigitsAreExact ==
  /\ RadixTypeOK
  /\ loop = "garner" =>
       DigitValues(digits)[Len(digits)] = coefficient % ProductTo[Len(digits)]
  /\ loop # "garner" =>
       WordValues(words)[Len(words)] = coefficient \div ProductTo[Len(digits) - 1]
  /\ loop = "done" =>
       \A bits \in GadgetBits, j \in 1 .. Count :
         \A i \in 0 .. DigitCount(bits) - 1 :
           DigitMod(i * bits, bits, j)
             = ((coefficient \div BitPower[i * bits]) % BitPower[bits]) % M[j]
=============================================================================
