----------------------------- MODULE PackedWire -----------------------------
(***************************************************************************)
(* Polynomials as packed bytes (_cpu_ext/packed_wire.h): every coefficient *)
(* takes as many bits as q has, with no padding between them, and the      *)
(* native kernels read and write whole words at bit offsets.               *)
(*                                                                         *)
(* A word is the set of its one bits, counted from the least significant   *)
(* one; so or is union, and a shift moves the members and drops those that *)
(* leave the word.  Bytes are their number and the set of their one bits.  *)
(* One step reads or writes one coefficient.                               *)
(***************************************************************************)
EXTENDS Integers

CONSTANTS WireDegree,   \* N
          ByteBits,     \* 8 in the code
          WordBytes,    \* 8 in the code
          MaxBits,      \* most bits of a modulus: 512 in the code
          Moduli,       \* values of q
          Samples,      \* coefficients to write, modulo q
          SmallModuli   \* values of q for which all bytes are read

LimbBits == ByteBits * WordBytes

PowerOfTwo[b \in 0 .. MaxBits] == IF b = 0 THEN 1 ELSE 2 * PowerOfTwo[b - 1]

ASSUME PackedAssumption ==
  /\ {WireDegree, ByteBits, WordBytes, MaxBits} \subseteq Nat \ {0}
  /\ WireDegree % ByteBits = 0
  /\ Moduli \cup SmallModuli \subseteq 3 .. PowerOfTwo[MaxBits] - 1
  /\ Samples \subseteq Int

Index == 0 .. WireDegree - 1

(* q.bit_length()                                                          *)
BitLength(x) == CHOOSE l \in 1 .. MaxBits : PowerOfTwo[l - 1] <= x /\ x < PowerOfTwo[l]

BitsOf(x) == {b \in 0 .. MaxBits - 1 : (x \div PowerOfTwo[b]) % 2 = 1}
Number(bits) ==
  LET below[n \in 0 .. MaxBits] ==
        IF n = 0 THEN 0 ELSE below[n - 1] + (IF n - 1 \in bits THEN PowerOfTwo[n - 1] ELSE 0)
  IN  below[MaxBits]

(* Shifts of a word by s bits.  By its whole size they are undefined; the  *)
(* processors the extension is built for leave the word as it is.          *)
Left(w, s) == IF s < LimbBits THEN {b + s : b \in w} \cap 0 .. LimbBits - 1 ELSE w
Right(w, s) == IF s < LimbBits THEN {b - s : b \in {c \in w : c >= s}} ELSE w

VARIABLES q,
          poly,      \* coefficients to be written, if any
          packed,    \* the words written
          data,      \* the bytes to be read
          received,    \* coefficients read
          next,      \* index of the coefficient that comes next
          side         \* export, import, done or refused
wireVars == <<q, poly, packed, data, received, next, side>>

Bits == BitLength(q)
LimbCount == (Bits + LimbBits - 1) \div LimbBits
ByteCount == (WireDegree * Bits + ByteBits - 1) \div ByteBits

(* The words of a coefficient, by mpz_export.                              *)
Limb(c, j) == {b - j * LimbBits : b \in BitsOf(c) \cap j * LimbBits .. (j + 1) * LimbBits - 1}

Offset(i) == (i * Bits) \div LimbBits
Shift(i) == (i * Bits) % LimbBits

-----------------------------------------------------------------------------

(* Mutant: the next word is written at a word boundary, too.               *)
WrittenMutant(i, k) ==
  UNION {(IF k = Offset(i) + j THEN Left(Limb(poly[i], j), Shift(i)) ELSE {})
         \cup (IF k = Offset(i) + j + 1
               THEN Right(Limb(poly[i], j), LimbBits - Shift(i)) ELSE {}) :
           j \in 0 .. LimbCount - 1}

(* export_packed: what coefficient i adds to word k.                       *)
Written(i, k) ==
  UNION {(IF k = Offset(i) + j THEN Left(Limb(poly[i], j), Shift(i)) ELSE {})
         \cup (IF k = Offset(i) + j + 1 /\ Shift(i) > 0
               THEN Right(Limb(poly[i], j), LimbBits - Shift(i)) ELSE {}) :
           j \in 0 .. LimbCount - 1}

PackedWords == 0 .. (WireDegree * Bits + LimbBits - 1) \div LimbBits

Export ==
  /\ side = "export"
  /\ next < WireDegree
  /\ packed' = [k \in PackedWords |-> packed[k] \cup Written(next, k)]
  /\ next' = next + 1
  /\ UNCHANGED <<q, poly, data, received, side>>

Send ==
  /\ side = "export"
  /\ next = WireDegree
  /\ data' = [size |-> ByteCount,
              bits |-> (UNION {{k * LimbBits + b : b \in packed[k]} : k \in PackedWords})
                         \cap 0 .. ByteCount * ByteBits - 1]
  /\ next' = 0
  /\ side' = "import"
  /\ UNCHANGED <<q, poly, packed, received>>

(* load_word: bytes past the end read as zero.                             *)
LoadWord(offset) ==
  {b - offset * ByteBits :
     b \in data.bits \cap offset * ByteBits .. (offset + WordBytes) * ByteBits - 1}

Loaded(i, j) ==
  LET from == (Offset(i) + j) * WordBytes
      word == Right(LoadWord(from), Shift(i))
        \cup (IF Shift(i) > 0 THEN Left(LoadWord(from + WordBytes), LimbBits - Shift(i)) ELSE {})
  IN  IF j = LimbCount - 1 /\ Bits % LimbBits > 0
      THEN word \cap 0 .. (Bits % LimbBits) - 1 ELSE word

(* Mutant: a coefficient beyond q is reduced instead of being refused.     *)
CoefficientMutant(i) ==
  Number(UNION {{b + j * LimbBits : b \in Loaded(i, j)} : j \in 0 .. LimbCount - 1}) % q

(* The number of the limbs that were read, by mpz_import.                  *)
Coefficient(i) ==
  Number(UNION {{b + j * LimbBits : b \in Loaded(i, j)} : j \in 0 .. LimbCount - 1})

(* import_packed refuses bytes of another length and coefficients beyond q.*)
Refuse ==
  /\ side = "import"
  /\ \/ data.size # ByteCount
     \/ next < WireDegree /\ Coefficient(next) >= q
  /\ side' = "refused"
  /\ UNCHANGED <<q, poly, packed, data, received, next>>

Read ==
  /\ side = "import"
  /\ data.size = ByteCount
  /\ next < WireDegree
  /\ Coefficient(next) < q
  /\ received' = [received EXCEPT ![next] = Coefficient(next)]
  /\ next' = next + 1
  /\ UNCHANGED <<q, poly, packed, data, side>>

Return ==
  /\ side = "import"
  /\ data.size = ByteCount
  /\ next = WireDegree
  /\ side' = "done"
  /\ UNCHANGED <<q, poly, packed, data, received, next>>

WireNext == Export \/ Send \/ Refuse \/ Read \/ Return

(* A polynomial to be sent, or bytes that came from elsewhere, as many as  *)
(* q needs or one fewer or more.                                           *)
WireInit ==
  /\ \/ /\ side = "export"
        /\ q \in Moduli
        /\ \E f \in [Index -> Samples] : poly = [i \in Index |-> f[i] % q]
        /\ data = [size |-> 0, bits |-> {}]
     \/ /\ side = "import"
        /\ q \in SmallModuli
        /\ poly = <<>>
        /\ \E size \in ByteCount - 1 .. ByteCount + 1,
              ones \in SUBSET (0 .. WireDegree * Bits - 1) :
             data = [size |-> size, bits |-> ones \cap 0 .. size * ByteBits - 1]
  /\ packed = [k \in PackedWords |-> {}]
  /\ received = [i \in Index |-> 0]
  /\ next = 0

WireSpec == WireInit /\ [][WireNext]_wireVars

-----------------------------------------------------------------------------

(* Where the format puts the bits of the coefficients of f.                *)
Format(f) == UNION {{i * Bits + b : b \in BitsOf(f[i])} : i \in Index}

Touched(i) == Offset(i) .. Offset(i) + (IF Shift(i) > 0 THEN LimbCount ELSE LimbCount - 1)

WireTypeOK ==
  /\ \A i \in Index : Touched(i) \subseteq PackedWords
  /\ \A k \in PackedWords : packed[k] \subseteq 0 .. LimbBits - 1
  /\ data.bits \subseteq 0 .. data.size * ByteBits - 1
  /\ \A i \in Index : received[i] \in 0 .. q - 1

(* Whatever the number of bits, and wherever a coefficient crosses from    *)
(* one word to the next, the bytes sent are those of the format, and the   *)
(* polynomial is read back; and bytes that are accepted are the only ones  *)
(* of the polynomial that was read from them.  No bit is read or written   *)
(* outside of the words and bytes there are.                               *)
WireIsExact ==
  /\ side # "export" => WireTypeOK
  /\ side = "import" /\ poly # <<>> => data = [size |-> ByteCount, bits |-> Format(poly)]
  /\ side = "refused" => poly = <<>>
  /\ side = "done" /\ poly # <<>> => received = poly
  /\ side = "done" => data = [size |-> ByteCount, bits |-> Format(received)]
=============================================================================
