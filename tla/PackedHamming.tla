---------------------------- MODULE PackedHamming ----------------------------
(***************************************************************************)
(* The packed layout of BFVClient and the server's carry tree, slot by     *)
(* slot.  A ciphertext is the vector of the RingDegree integers its slots  *)
(* hold: two rows of half as many.  A row is cut into blocks of lanes, one *)
(* block per (padded) dimension, and a vector occupies the same lane of    *)
(* every block.  Encryption and noise are left to other modules.           *)
(***************************************************************************)
EXTENDS Integers, Sequences, FiniteSetsExt, SequencesExt

CONSTANTS SlotCount,       \* N, the slots of a ciphertext
          MaxVectors,       \* bound on the vectors of an index
          Queries(_),       \* the queries tried for an embed_len
          Databases(_, _)   \* the indexes tried for an embed_len and a count

ASSUME RingAssumption == /\ SlotCount \in {2^i : i \in 3..15}
                         /\ MaxVectors \in Nat

\* _validate_vector: an embedding has embed_len binary entries.
ASSUME VectorAssumption ==
  \A e \in 1..SlotCount \div 2 :
    /\ Queries(e) \subseteq [1..e -> {0, 1}]
    /\ \A size \in 0..MaxVectors : Databases(e, size) \subseteq [1..size -> [1..e -> {0, 1}]]

VARIABLES embedLen,     \* the embedding dimension of client and server
          queryVector,        \* the query vector
          database,     \* the vectors of the index, in order
          claimed,      \* the vector_count handed to the server
          phase,        \* where the search is
          position,     \* how many tiles of the index were read
          carried,      \* [slots, size] being merged, or <<>>
          stack,        \* the partial tiles of the current response
          responses,    \* the slots of the ciphertexts returned so far
          rotations,    \* the rotations the server asked a key for
          damaged,      \* whether the answer was damaged on its way
          answer     \* what the client decoded

packedVars == <<embedLen, queryVector, database, claimed, phase, position, carried, stack,
          responses, rotations, damaged, answer>>
input == <<embedLen, queryVector, database, claimed>>

Half == SlotCount \div 2
Slots == 0..(SlotCount - 1)
CeilDiv(a, b) == (a + b - 1) \div b

\* padded_embed_len, lanes_per_row and vectors_per_ciphertext.
Padded == CHOOSE p \in {2^i : i \in 0..15} : p >= embedLen /\ p < 2 * embedLen
LanesPerRow == SlotCount \div (2 * Padded)
TileCapacity == 2 * LanesPerRow

\* The exponents i of the doubling steps lanes * 2^i.
Doublings == {i \in 0..15 : 2^(i + 1) <= Padded}

\* The rotations key_gen makes a key for; a key belongs to the step modulo a
\* row, and a rotation by a whole row needs none.
KeyedSteps == {(s * LanesPerRow * 2^i) % Half : s \in {1, -1}, i \in Doublings}

RowOf(s) == s \div Half
BlockOf(s) == (s % Half) \div LanesPerRow
LaneOfSlot(s) == (RowOf(s) * LanesPerRow) + ((s % Half) % LanesPerRow)

ReplicatedQuery(v) ==
  [s \in Slots |-> IF BlockOf(s) < embedLen THEN v[BlockOf(s) + 1] ELSE 0]

IndexTiles == CeilDiv(Len(database), TileCapacity)

\* encrypt_vec_packed: tile k, from 0, of the packed index.
IndexSlots(k) ==
  [s \in Slots |->
    LET i == k * TileCapacity + LaneOfSlot(s)
    IN  IF BlockOf(s) < embedLen /\ i < Len(database)
        THEN database[i + 1][BlockOf(s) + 1] ELSE 0]

\* rotate_rows: both rows to the left by step.
RotateSlots(c, step) == [s \in Slots |-> c[(RowOf(s) * Half) + (((s % Half) + step) % Half)]]
AddSlots(c, d) == [s \in Slots |-> c[s] + d[s]]

\* The rotate-and-add tree over the dimensions, in the order of its steps.
SumBlocks(c) ==
  LET sums[i \in 0..Cardinality(Doublings)] ==
        IF i = 0 THEN c
        ELSE LET sum == sums[i - 1]
             IN  AddSlots(sum, RotateSlots(sum, LanesPerRow * 2^(i - 1)))
  IN  sums[Cardinality(Doublings)]

\* _distance_tile: squares of the differences, summed, then only the first
\* block of the first count lanes.
DistanceTile(q, c, count) ==
  LET sums == SumBlocks([s \in Slots |-> (q[s] - c[s]) * (q[s] - c[s])])
  IN  [s \in Slots |-> IF BlockOf(s) = 0 /\ LaneOfSlot(s) < count THEN sums[s] ELSE 0]

\* _validate_count.
CountMatches(count, ciphertexts, capacity) ==
  ciphertexts = CeilDiv(count, capacity)

----------------------------------------------------------------------------
PackedInit ==
  /\ embedLen \in 1..Half
  /\ queryVector \in Queries(embedLen)
  /\ database \in UNION {Databases(embedLen, n) : n \in 0..MaxVectors}
  /\ claimed \in 0..MaxVectors
  /\ phase = "called"
  /\ position = 0
  /\ carried = <<>>
  /\ stack = <<>>
  /\ responses = <<>>
  /\ rotations = {}
  /\ damaged = FALSE
  /\ answer = <<>>

\* encode_hamming_server_packed checks the count against the index.
Accept ==
  /\ phase = "called"
  /\ phase' = IF ~CountMatches(claimed, IndexTiles, TileCapacity) THEN "refused"
              ELSE IF IndexTiles = 0 THEN "answered" ELSE "reading"
  /\ UNCHANGED <<input, damaged, position, carried, stack, responses, rotations, answer>>

\* encode_hamming_server on the first vector of the index, and its decoding.
CompareOne ==
  /\ phase = "called" /\ database # <<>>
  /\ phase' = "compared"
  /\ answer' = <<DistanceTile(ReplicatedQuery(queryVector), ReplicatedQuery(database[1]), 1)[0]>>
  /\ rotations' = rotations \cup {LanesPerRow * 2^i : i \in Doublings}
  /\ UNCHANGED <<input, damaged, position, carried, stack, responses>>

GroupDone == position = IndexTiles \/ ((position % Padded) = 0 /\ stack # <<>>)

\* The next tile of the group, compared and masked.
ReadTile ==
  /\ phase = "reading" /\ carried = <<>> /\ ~GroupDone
  /\ LET count == Min({TileCapacity, claimed - position * TileCapacity})
         query == ReplicatedQuery(queryVector)
     IN  carried' = [slots |-> DistanceTile(query, IndexSlots(position), count), size |-> 1]
  /\ rotations' = rotations \cup {LanesPerRow * 2^i : i \in Doublings}
  /\ position' = position + 1
  /\ UNCHANGED <<input, damaged, phase, stack, responses, answer>>

\* Mutant: any tile on the stack is merged, whatever its size.
CanMergeMutant == stack # <<>>

\* One turn of the while loop: a tile of the same size is on the stack.
CanMerge == stack # <<>> /\ Last(stack).size = carried.size

MergeTile ==
  /\ phase = "reading" /\ carried # <<>> /\ CanMerge
  /\ LET step == -LanesPerRow * carried.size
     IN  /\ carried' = [slots |-> AddSlots(Last(stack).slots, RotateSlots(carried.slots, step)),
                        size  |-> 2 * carried.size]
         /\ rotations' = rotations \cup {step}
  /\ stack' = Front(stack)
  /\ UNCHANGED <<input, damaged, phase, position, responses, answer>>

PushTile ==
  /\ phase = "reading" /\ carried # <<>> /\ ~CanMerge
  /\ stack' = Append(stack, carried)
  /\ carried' = <<>>
  /\ UNCHANGED <<input, damaged, phase, position, responses, rotations, answer>>

\* All tiles of the group were read: the partial tiles are combined from the
\* right into the topmost one.
StartCombining ==
  /\ phase = "reading" /\ carried = <<>> /\ GroupDone
  /\ carried' = Last(stack)
  /\ stack' = Front(stack)
  /\ phase' = "combining"
  /\ UNCHANGED <<input, damaged, position, responses, rotations, answer>>

CombineStep(size) == -LanesPerRow * size

CombineLeft ==
  /\ phase = "combining" /\ stack # <<>>
  /\ LET left == Last(stack)
         step == CombineStep(left.size)
         sum == AddSlots(left.slots, RotateSlots(carried.slots, step))
     IN  /\ carried' = [carried EXCEPT !.slots = sum]
         /\ rotations' = rotations \cup {step}
  /\ stack' = Front(stack)
  /\ UNCHANGED <<input, damaged, phase, position, responses, answer>>

\* The response is complete; the next group starts on an empty stack.
Respond ==
  /\ phase = "combining" /\ stack = <<>>
  /\ responses' = Append(responses, carried.slots)
  /\ carried' = <<>>
  /\ phase' = IF position = IndexTiles THEN "answered" ELSE "reading"
  /\ UNCHANGED <<input, damaged, position, stack, rotations, answer>>

\* The answer reaches the client without its last ciphertext, or with one
\* whose noise has outgrown the modulus, so that no slot holds a distance.
Damage ==
  /\ phase = "answered" /\ ~damaged /\ responses # <<>>
  /\ damaged' = TRUE
  /\ \/ responses' = Front(responses)
     \/ \E r \in DOMAIN responses :
          responses' = [responses EXCEPT ![r] = [s \in Slots |-> embedLen + 1 + s]]
  /\ UNCHANGED <<input, phase, position, carried, stack, rotations, answer>>

\* The slot of the i-th distance, from 0, of one response.
SlotOfDistance(i) ==
  LET tile == i \div TileCapacity
      lane == i % TileCapacity
  IN  ((lane \div LanesPerRow) * Half) + (tile * LanesPerRow) + (lane % LanesPerRow)

DecodedDistances ==
  [i \in 1..Len(database) |->
    responses[((i - 1) \div SlotCount) + 1][SlotOfDistance((i - 1) % SlotCount)]]

InRange(d) == d \in 0..embedLen

\* decode_hamming_client_packed with the client's own count.
DecodeTiles ==
  /\ phase = "answered"
  /\ LET complete == CountMatches(Len(database), Len(responses), SlotCount)
         valid == complete /\ \A i \in DOMAIN DecodedDistances : InRange(DecodedDistances[i])
     IN  \/ /\ valid
            /\ phase' = "decoded"
            /\ answer' = DecodedDistances
         \/ /\ ~valid
            /\ phase' = "rejected"
            /\ UNCHANGED answer
  /\ UNCHANGED <<input, damaged, position, carried, stack, responses, rotations>>

PackedNext == \/ Accept \/ CompareOne \/ ReadTile \/ MergeTile \/ PushTile
              \/ StartCombining \/ CombineLeft \/ Respond \/ Damage \/ DecodeTiles

PackedSpec == PackedInit /\ [][PackedNext]_packedVars

----------------------------------------------------------------------------
(***************************************************************************)
(* What the client is promised, stated on the plain vectors.               *)
(***************************************************************************)
PlainDistance(v, w) == Cardinality({d \in 1..embedLen : v[d] # w[d]})

\* What the server must put at place i, from 0, of its answer: the lanes of
\* the last tile that hold no vector are zero.
DistanceAt(i) ==
  IF i >= claimed THEN 0
  ELSE IF i < Len(database) THEN PlainDistance(queryVector, database[i + 1])
  ELSE PlainDistance(queryVector, [d \in 1..embedLen |-> 0])

\* A ciphertext holds the distances of `tiles` tiles from tile `first` on: one
\* per block, and nothing in the blocks behind them.
Holds(c, first, tiles) ==
  \A s \in Slots : c[s] = IF BlockOf(s) < tiles
                          THEN DistanceAt((first + BlockOf(s)) * TileCapacity + LaneOfSlot(s))
                          ELSE 0

\* Every loop variable of encode_hamming_server_packed is in range; no merged
\* tile outgrows a response.
PackedTypeOK ==
  /\ embedLen \in 1..Half /\ claimed \in 0..MaxVectors
  /\ phase \in {"called", "refused", "compared", "reading", "combining",
                "answered", "decoded", "rejected"}
  /\ position \in 0..IndexTiles
  /\ \A i \in DOMAIN stack : stack[i].size \in 1..Padded
  /\ carried # <<>> => carried.size \in 1..Padded
  /\ Len(responses) <= CeilDiv(Len(database), SlotCount)

\* The carry tree of the server: between two steps the stack holds, from the
\* bottom, tiles of strictly decreasing powers of two that together cover
\* exactly the tiles read of this group, each in its own block.
TreeHoldsTilesRead ==
  phase \in {"reading", "combining"} =>
    LET start == Len(responses) * Padded
        StartOf[i \in 1..(Len(stack) + 1)] ==
          IF i = 1 THEN start ELSE StartOf[i - 1] + stack[i - 1].size
        top == StartOf[Len(stack) + 1]
    IN  /\ \A i \in DOMAIN stack :
             /\ stack[i].size \in {2^k : k \in 0..15}
             /\ i > 1 => stack[i].size < stack[i - 1].size
             /\ Holds(stack[i].slots, StartOf[i], stack[i].size)
        /\ IF carried = <<>> THEN top = position
           ELSE Holds(carried.slots, top, position - top)

\* Every rotation of the distance circuit, the carry tree and the combination
\* of partial groups is one the layout generated a key for
\* ("Combining from the right uses the same already-generated rotation keys").
RotationsHaveKeys ==
  \A step \in rotations : step % Half \in KeyedSteps \cup {0}

\* A response tells the client nothing but the distances it asked for: every
\* slot that belongs to no claimed vector is zero.
OtherSlotsClear ==
  ~damaged => \A r \in DOMAIN responses : \A s \in Slots :
    LET place == (r - 1) * SlotCount + BlockOf(s) * TileCapacity + LaneOfSlot(s)
    IN  place >= claimed => responses[r][s] = 0

\* What decode_hamming_client_packed returns are the Hamming distances of the
\* vectors in index order, and a single comparison returns that of its vector,
\* whatever dimension, count, lane and group they fall in; an honest count is
\* never refused, its answer is rejected only if it was damaged, and a damaged
\* answer is never taken for distances.
DistancesInIndexOrder ==
  /\ phase = "decoded" => \A i \in 1..Len(database) :
       i <= claimed => answer[i] = PlainDistance(queryVector, database[i])
  /\ phase = "compared" => answer = <<PlainDistance(queryVector, database[1])>>
  /\ phase = "decoded" => ~damaged
  /\ claimed = Len(database) => /\ phase # "refused"
                                /\ phase = "rejected" => damaged

\* The layout as a whole: every distance is where the client looks for it, a
\* merged tile has its own block, every rotation has its key, and a slot of no
\* claimed vector holds zero.
LayoutIsExact ==
  /\ PackedTypeOK
  /\ DistancesInIndexOrder
  /\ TreeHoldsTilesRead
  /\ RotationsHaveKeys
  /\ OtherSlotsClear
=============================================================================
