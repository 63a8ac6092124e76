--------------------------- MODULE MCHammingSearch ---------------------------
(***************************************************************************)
(* Three machines of the encrypted search, one of them in each behaviour:  *)
(* the packed layout on plain slots, any sequence of BFV operations, and   *)
(* one search with its noise.  The variables of the others hold nothing.   *)
(***************************************************************************)
EXTENDS PackedHamming, Evaluation, HammingCircuit

VARIABLE running   \* the machine of this behaviour

Machines == {"layout", "operations", "search"}

-----------------------------------------------------------------------------

(* The layout                                                              *)

(* A vector whose first ones entries are 1.                                *)
Leading(e, ones) == [d \in 1 .. e |-> IF d <= ones THEN 1 ELSE 0]

MCQueries(e) == {Leading(e, 0), Leading(e, e), [d \in 1 .. e |-> d % 2]}

(* Neighbouring vectors have different distances, so that a distance that  *)
(* ends in the wrong place shows.                                          *)
MCDatabases(e, size) == {[i \in 1 .. size |-> Leading(e, (k * i) % (e + 1))] : k \in {1, e}}

-----------------------------------------------------------------------------

(* Keys and ciphertexts                                                    *)

MCPrimes == [bits \in {20, 30} |-> IF bits = 20 THEN 1048573 ELSE 1073741789]

(* Numbers that look random, from squares modulo a prime.                  *)
Stream(seed) ==
  LET r[i \in 0 .. RingDegree + 4] ==
        IF i = 0 THEN (seed * 7919 + 12345) % 46337
        ELSE LET p == r[i - 1] IN (p * p + 101 * seed + 7 * i) % 46337
  IN  r

Uniform(seed) ==
  LET r == Stream(seed) IN Table([i \in Index |-> (r[i + 3] * 23173 + r[i + 4]) % Modulus])

Small(seed) == LET r == Stream(seed) IN Table([i \in Index |-> (r[i + 4] % 3) - 1])

(* The exponents of one step to the right and of two of a row of four.     *)
Switched == {0, 3, 9, 11}

MCKey(k) ==
  [s |-> Small(k), a |-> Uniform(k + 1), e |-> Small(k + 2),
   switch |-> [g \in Switched |->
                [d \in 1 .. Digits |->
                  [a |-> Uniform(k + 10 * g + d), e |-> Small(k + 11 * g + d)]]]]

Ephemeral(k) == [u |-> Small(k), e0 |-> Small(k + 5), e1 |-> Small(k + 7)]

MCOwners == {1, 2}
MCKeys == <<MCKey(1), MCKey(60)>>
MCGaloisExponents == <<{3}, {3, 11}>>
MCRelinearizers == {1}

(* The second vector, of one in every slot, is a constant polynomial.      *)
MCFresh == <<
  [owner |-> 1, slots |-> <<1, 2, 3, 4, 5, 6, 7, 16>>, randomness |-> Ephemeral(3)],
  [owner |-> 1, slots |-> <<1, 1, 1, 1, 1, 1, 1, 1>>, randomness |-> Ephemeral(8)],
  [owner |-> 2, slots |-> <<9, 0, 0, 1>>, randomness |-> Ephemeral(4)]>>

MCPlaintexts == {<<1, 0, 0, 0, 1>>, <<16, 16, 16, 16, 16, 16, 16, 16>>}

MCSteps == {0, 1, 2, -1}
MCTargetBits == {12, 20, 30}

-----------------------------------------------------------------------------

(* Searches                                                                *)

Ones == [i \in Index |-> 1]
Alternating == [i \in Index |-> IF i % 2 = 0 THEN 1 ELSE -1]

(* The largest secrets and errors, of one sign or alternating.             *)
Extreme(p) ==
  [keys |-> [s |-> Ones, a |-> Uniform(77), e |-> p,
             switch |-> [g \in Switched |->
                          [d \in 1 .. Digits |-> [a |-> Uniform(g + d), e |-> p]]]],
   ephemerals |-> [i \in 1 .. 3 |-> [u |-> p, e0 |-> Ones, e1 |-> p]]]

Ordinary(k) == [keys |-> MCKey(k), ephemerals |-> [i \in 1 .. 3 |-> Ephemeral(k + 3 * i)]]

MCSamples == {Ordinary(1), Ordinary(50), Extreme(Ones), Extreme(Alternating)}

(* One dimension, where a response has room for one tile only, and two.    *)
MCJobs ==
  {[query |-> <<b>>, vectors |-> v] :
     b \in {0, 1}, v \in {<<<<1>>>>, <<<<0>>, <<1>>, <<1>>, <<0>>>>,
                          <<<<1>>, <<0>>, <<0>>, <<1>>, <<1>>, <<0>>, <<1>>, <<1>>>>}}
  \cup
  {[query |-> <<1, 0>>, vectors |-> <<<<1, 0>>, <<0, 1>>, <<1, 1>>>>],
   [query |-> <<1, 1>>, vectors |-> <<<<0, 0>>, <<0, 1>>, <<1, 1>>, <<1, 0>>, <<0, 0>>>>],
   [query |-> <<0, 1>>, vectors |-> <<<<1, 0>>, <<0, 1>>, <<0, 0>>, <<1, 1>>,
                                      <<1, 1>>, <<0, 1>>, <<1, 0>>, <<0, 0>>>>]}

-----------------------------------------------------------------------------

LayoutRest ==
  /\ embedLen = 1 /\ queryVector = <<>> /\ database = <<>> /\ claimed = 0
  /\ phase = "called" /\ position = 0 /\ carried = <<>> /\ stack = <<>>
  /\ responses = <<>> /\ rotations = {} /\ damaged = FALSE /\ answer = <<>>
OperationsRest ==
  keyPairs = <<>> /\ fresh = <<>> /\ result = None /\ expected = <<>> /\ bound = 0 /\ ops = 0
SearchRest ==
  /\ job = None /\ sample = None /\ keys = None /\ query = None /\ index = <<>>
  /\ stage = "idle" /\ tile = 0 /\ rounds = 0 /\ work = None /\ merged = None
  /\ meaning = None /\ meanings = None /\ distances = None

Init ==
  /\ running \in Machines
  /\ IF running = "operations" THEN EvalInit ELSE OperationsRest
  /\ IF running = "search" THEN CircuitInit ELSE SearchRest
  /\ IF running = "layout" THEN PackedInit ELSE LayoutRest

Others(machine) ==
  /\ running = machine
  /\ UNCHANGED running
  /\ machine # "layout" => UNCHANGED packedVars
  /\ machine # "operations" => UNCHANGED evalVars
  /\ machine # "search" => UNCHANGED circuitVars

Next ==
  \/ Others("layout") /\ PackedNext
  \/ Others("operations") /\ EvalNext
  \/ Others("search") /\ CircuitNext

Spec == Init /\ [][Next]_<<running, packedVars, evalVars, circuitVars>>

-----------------------------------------------------------------------------

(* Whatever sequence of operations BFV and its evaluator accept, the noise *)
(* of the result is within what they may add, its owner decrypts the slots *)
(* that were asked for, and it is read as it was written, by no other key. *)
OperationsAreExact ==
  running = "operations" =>
    /\ EvalTypeOK
    /\ AcceptedIsSound
    /\ ExactWhileNoisePermits
    /\ WireIsExact
    /\ SecretBelongsToKey

(* A search stays within the noise bounds that sessions demand, at every   *)
(* stage, and a policy found sufficient decodes the right distances.       *)
SearchesAreExact ==
  running = "search" =>
    /\ CircuitTypeOK
    /\ NoiseBounded
    /\ ExactWithinMargin
    /\ SufficientIsExact
=============================================================================
