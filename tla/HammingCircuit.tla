---------------------------- MODULE HammingCircuit ----------------------------
(***************************************************************************)
(* One encrypted search with exact arithmetic: the client encrypts a query *)
(* and a packed index (hamming/bfv.py), the evaluator subtracts, squares,  *)
(* adds up dimensions, masks and merges (bfv/evaluator.py), and the client *)
(* decrypts; with the noise bounds that sessions demand before they start  *)
(* (hamming/bfv_assurance.py).                                             *)
(*                                                                         *)
(* The stack of the carry tree is in PackedHamming; an index here has so   *)
(* few tiles that it holds at most one.                                    *)
(***************************************************************************)
EXTENDS NoiseBounds, FiniteSets

CONSTANTS ResponseBits,   \* response_modulus_bits
          Jobs,           \* [query, vectors], of bits
          None,           \* nothing yet
          Samples         \* [keys, ephemerals]: randomness; ephemerals[1] for the query

VARIABLES job, sample, keys,
          query,       \* its ciphertext
          index,       \* the ciphertexts of the tiles
          stage,       \* what was done last to work
          tile,        \* tiles of the index that were begun
          rounds,      \* rotations added to work
          work,        \* the ciphertext in hand
          merged,      \* the tiles put together so far
          meaning,     \* the slots work should hold, ...
          meanings,    \* ... and those merged should
          distances    \* as decoded by the client

clientVars == <<job, sample, keys, query, index>>
circuitVars == <<job, sample, keys, query, index, stage, tile, rounds, work, merged, meaning,
                 meanings, distances>>

-----------------------------------------------------------------------------

(* The layout                                                              *)

EmbedLen == Len(job.query)
Width == Min({w \in {2 ^ i : i \in 0 .. 14} : w >= EmbedLen})
Lanes == RingDegree \div (2 * Width)
Capacity == 2 * Lanes
Row == RingDegree \div 2

ASSUME CircuitAssumption ==
  /\ ResponseBits \in DOMAIN Primes /\ ResponseBits < CoeffBits
  /\ \A j \in Jobs :
       /\ Len(j.query) \in 1 .. Min({RingDegree \div 2, PlainModulus - 1})
       /\ j.vectors # <<>> /\ \A i \in DOMAIN j.vectors : Len(j.vectors[i]) = Len(j.query)

Target == Primes[ResponseBits]

Tiles == (Len(job.vectors) + Capacity - 1) \div Capacity

(* Lane l of a tile: its slot in the block of a dimension.                 *)
Slot(l, dimension) == (l \div Lanes) * Row + dimension * Lanes + (l % Lanes)

SlotSeq(slots) == [i \in 1 .. RingDegree |-> slots[i - 1]]

DimensionOf(slot) == (slot % Row) \div Lanes

LaneOf(slot) == (slot \div Row) * Lanes + ((slot % Row) % Lanes)

(* _query_slots: the query in every lane.                                  *)
QuerySlots(bits) ==
  SlotSeq([s \in Index |-> IF DimensionOf(s) < EmbedLen THEN bits[DimensionOf(s) + 1] ELSE 0])

(* encrypt_vec_packed: one vector in each lane.                            *)
TileSlots(vectors, number) ==
  SlotSeq([s \in Index |->
    LET i == (number - 1) * Capacity + LaneOf(s) + 1
        filled == DimensionOf(s) < EmbedLen /\ i <= Len(vectors)
    IN  IF filled THEN vectors[i][DimensionOf(s) + 1] ELSE 0])

(* _distance_tile: the first block of each row.                            *)
MaskSlots(count) ==
  SlotSeq([s \in Index |-> IF DimensionOf(s) = 0 /\ LaneOf(s) < count THEN 1 ELSE 0])

CountOf(number) == Min({Capacity, Len(job.vectors) - (number - 1) * Capacity})

Exponents ==
  {RotationExponent(sign * Lanes * 2 ^ i) :
     sign \in {1, -1}, i \in {k \in 0 .. 14 : 2 ^ k < Width}}

-----------------------------------------------------------------------------

CircuitInit ==
  /\ job \in Jobs /\ Tiles <= Min({2, Width})   \* one response
  /\ sample \in Samples
  /\ keys = KeyGen(sample.keys, Exponents)
  /\ query = None
  /\ index = <<>>
  /\ stage = "index"
  /\ tile = 0
  /\ rounds = 0
  /\ work = None /\ merged = None
  /\ meaning = None /\ meanings = None
  /\ distances = None

(* encrypt_vec_packed, one ciphertext.                                     *)
EncryptTile ==
  /\ stage = "index"
  /\ Len(index) < Tiles
  /\ LET slots == TileSlots(job.vectors, Len(index) + 1)
         c == Encrypt(BatchEncode(slots), keys.pk, sample.ephemerals[Len(index) + 2])
     IN  index' = Append(index, c) /\ work' = c /\ meaning' = Filled(slots)
  /\ UNCHANGED <<job, sample, keys, query, stage, tile, rounds, merged, meanings, distances>>

(* encrypt_vec_one                                                         *)
EncryptQuery ==
  /\ stage = "index"
  /\ Len(index) = Tiles
  /\ LET slots == QuerySlots(job.query)
         c == Encrypt(BatchEncode(slots), keys.pk, sample.ephemerals[1])
     IN  query' = c /\ work' = c /\ meaning' = Filled(slots)
  /\ stage' = "query"
  /\ UNCHANGED <<job, sample, keys, index, tile, rounds, merged, meanings, distances>>

(* hamming_tile: xor, first half.                                          *)
SubtractTile ==
  /\ stage \in {"query", "merged"}
  /\ tile < Tiles
  /\ tile' = tile + 1
  /\ work' = Subtract(query, index[tile'])
  /\ meaning' =
       [s \in Index |-> (QuerySlots(job.query)[s + 1] - TileSlots(job.vectors, tile')[s + 1]) % t]
  /\ stage' = "difference"
  /\ UNCHANGED <<clientVars, rounds, merged, meanings, distances>>

(* xor, second half.                                                       *)
Square ==
  /\ stage = "difference"
  /\ work' = Multiply(work, work, keys.pk)
  /\ meaning' = SlotProduct(meaning, meaning)
  /\ stage' = "squared"
  /\ rounds' = 0
  /\ UNCHANGED <<clientVars, tile, merged, meanings, distances>>

(* One round of the sum over dimensions.                                   *)
AddRotation ==
  /\ stage = "squared"
  /\ 2 ^ rounds < Width
  /\ LET step == Lanes * 2 ^ rounds
     IN  /\ work' = Add(work, Rotate(work, step, keys.pk))
         /\ meaning' = SlotSum(meaning, SlotRotation(meaning, step))
  /\ rounds' = rounds + 1
  /\ UNCHANGED <<clientVars, stage, tile, merged, meanings, distances>>

Mask ==
  /\ stage = "squared"
  /\ 2 ^ rounds = Width
  /\ LET mask == MaskSlots(CountOf(tile))
     IN  /\ work' = MultiplyByPlain(work, BatchEncode(mask))
         /\ meaning' = SlotProduct(meaning, Filled(mask))
  /\ stage' = "tile"
  /\ UNCHANGED <<clientVars, tile, rounds, merged, meanings, distances>>

(* encode_hamming_server_packed: the second tile goes beside the first.    *)
Merge ==
  /\ stage = "tile"
  /\ IF merged = None
     THEN work' = work /\ meaning' = meaning
     ELSE /\ work' = Add(merged, Rotate(work, - Lanes, keys.pk))
          /\ meaning' = SlotSum(meanings, SlotRotation(meaning, - Lanes))
  /\ merged' = work'
  /\ meanings' = meaning'
  /\ stage' = "merged"
  /\ UNCHANGED <<clientVars, tile, rounds, distances>>

(* compact=True                                                            *)
Compact ==
  /\ stage = "merged"
  /\ tile = Tiles
  /\ work' = ModulusSwitch(work, ResponseBits)
  /\ stage' = "compacted"
  /\ UNCHANGED <<clientVars, tile, rounds, merged, meaning, meanings, distances>>

(* decode_hamming_client_packed                                            *)
Decode ==
  /\ stage \in {"merged", "compacted"}
  /\ tile = Tiles
  /\ LET slots == BatchDecode(Decrypt(work, keys.sk))
     IN  distances' = [p \in 1 .. Len(job.vectors) |->
                        slots[Slot((p - 1) % Capacity, (p - 1) \div Capacity)]]
  /\ stage' = "decoded"
  /\ UNCHANGED <<clientVars, tile, rounds, work, merged, meaning, meanings>>

CircuitNext ==
  \/ EncryptTile \/ EncryptQuery
  \/ SubtractTile \/ Square \/ AddRotation \/ Mask \/ Merge \/ Compact
  \/ Decode

CircuitSpec == CircuitInit /\ [][CircuitNext]_circuitVars

-----------------------------------------------------------------------------

NoiseAt(s, tiles) ==
  CASE s \in {"index", "query"} -> EncryptedNoise
    [] s = "difference" -> DifferenceNoise
    [] s = "squared" -> SummedNoise[rounds]
    [] s = "tile" -> TileNoise(Width)
    [] s = "merged" -> MergedNoise(Width, tiles)
    [] s \in {"compacted", "decoded"} ->
         IF work.modulus = Q THEN MergedNoise(Width, tiles)
         ELSE CompactedNoise(Width, tiles, Target)

Noisy == work # None

NoiseNow == Noise(work, BatchEncode(SlotSeq(meaning)), keys.sk)

(* Every ciphertext the circuit makes would be accepted by the next        *)
(* operation and by the other party: canonical, with two components and,   *)
(* until it is compacted, at the original modulus.                         *)
CircuitTypeOK ==
  /\ stage \in {"index", "query", "difference", "squared", "tile", "merged", "compacted", "decoded"}
  /\ tile \in 0 .. Tiles
  /\ \A c \in {query, work, merged} \ {None} : Canonical(c) /\ Len(c.parts) = 2
  /\ stage \notin {"compacted", "decoded"} /\ Noisy => work.modulus = Q

(* The bounds hold for every coefficient at every stage of the circuit     *)
(* ("Bound every coefficient for the full supported binary Hamming         *)
(* workload"), against the slots that the stage should hold: a bound that  *)
(* forgets a carry, a lift or a key switch would be passed.                *)
NoiseBounded == Noisy => NoiseNow <= NoiseAt(stage, tile)

(* "Strict inequalities cover both rounding boundaries": as long as the    *)
(* noise is within the margin of its modulus, decryption gives the slots   *)
(* the circuit should have computed, at every stage.                       *)
ExactWithinMargin ==
  Noisy /\ WithinMargin(NoiseNow, work.modulus) =>
    BatchDecode(Decrypt(work, keys.sk)) = [s \in Index |-> meaning[s]]

HammingDistance(v, w) == Cardinality({i \in 1 .. EmbedLen : v[i] # w[i]})

(* What the sessions rely on when they refuse an insufficient policy and   *)
(* accept a sufficient one: the decoded distances are those of the         *)
(* vectors, for any keys and ephemeral randomness.                         *)
SufficientIsExact ==
  stage = "decoded" /\ Sufficient(Width, Tiles, Target) =>
    distances = [p \in 1 .. Len(job.vectors) |-> HammingDistance(job.query, job.vectors[p])]
=============================================================================
