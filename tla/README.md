# cuhepy in TLA+

A formal model of cuhepy: its BFV sessions and the Nitro service behind them,
the BFV scheme with its packed search, the word arithmetic of the native
kernels, both Paillier schemes, and the life of keys, tables and caches. The
models are checked with TLC on small instances; the safety of the protocols and
the exactness of the word arithmetic are proved with TLAPS for every value of
the constants. The modules follow the source action by action; `PROJECT.json`
maps each definition to the lines it models and lists the hazards, each at its
line, with the properties that watch it.

## 1. The system

cuhepy computes Hamming distances between binary vectors under homomorphic
encryption. A client owns the secret key, encrypts an index and queries, and
decrypts the distances; a server holds public keys and ciphertexts only.

| Component | Source (below `src/src/cuhepy` if not said otherwise) | State | Operations | Interacts with | What makes it correct |
|---|---|---|---|---|---|
| Verified client | `hamming/bfv_verified.py` (`BFVVerifiedClient`) | setup digest, private summary, pending table, counter of begun queries, a lock | `prepare_index`, `begin_query`, `finish_query`, `cancel_pending_queries`, `protect_state`, `restore` | evaluator by packets; application threads share the object | one decryption per ticket; right answers only; the budget is never refunded |
| Verified server | same file (`BFVVerifiedServer`) | admission semaphore, replay set, a lock | `search` | clients by packets; several threads | one evaluation per ticket, within the budget; no admission place lost or gained |
| Packets, storage | `hamming/bfv_security.py` | none | MAC, record codec, AES-GCM export | all sessions | a packet is taken only whole and authenticated |
| Guarded session | `hamming/bfv_guarded.py` | the two above, an Ed25519 pin | `approve`, guarded `finish_query` | client, evaluator, the owner's verifier | nothing unapproved is decrypted; the verifier is no signing oracle |
| Attested session | `hamming/bfv_attested.py`, `bfv_nitro.py` | challenge, lease with deadline, gate; server session, nonces | `begin_attestation`, `accept_attestation`, `begin_query`, `finish_query`, `attest`, `search` | enclave through an untrusted host | requests, receipts and evidence of different sessions never mix |
| Enclave service, relay | `src/experiments/bfv_nitro/` | one server object; four relay places; sockets with deadlines | register, attest, search; forward | host, clients, NSM | one registration per boot; no relay place lost; nobody is kept waiting for ever |
| Nitro evidence, NSM | `hamming/bfv_nitro.py` | the NSM descriptor and its lock; policies, clocks | `verify_nitro_attestation`, `attest`, `random_seed`, `close` | enclave threads, attested session | evidence is of the owner's image, fresh and under certificates in force; no call on a closed device |
| Private decoder | `bfv/private.py`, `bfv/_cpu_ext/private_decoder.h`, `private_bindings.cpp` | key spectra, closed flag, mutex | `decode`, `close` | Python threads and the GIL | no deadlock, no output from a wiped key, the slots the scheme would give |
| Packed layout | `hamming/bfv.py`, `bfv/_cpu_ext/bfv_server.h` | stack of the carry tree | pack, rotate-and-add, merge, decode | BFV scheme | decoding gives every distance in index order |
| Client caches | `hamming/bfv.py`, `bfv/native.py` | keys, configuration, evaluator, native plan, masks | load, search, switch backend | threads of a server | a search uses what is loaded, never what was |
| BFV arithmetic | `bfv/scheme.py`, `bfv/evaluator.py` | none | batch, encrypt, add, multiply, rotate, switch modulus, decrypt, (de)serialise | packed layout, sessions | accepted operations are sound; decryption exact while noise permits |
| Noise bounds | `hamming/bfv_assurance.py` | none | closed bounds and a verdict | sessions ask before they start | a sufficient bound means exact results |
| Native kernels | `bfv/_cpu_ext/*.h`, `bfv/native.py`, `bfv/rns.py` | none | transforms, digit sums, rounding and decoding on residues, Garner, packed wire | evaluator | bit for bit the reference, within the word |
| Paillier | `paillier/scheme.py`, `hamming/paillier.py` | keys | chunk, encrypt, add, decode | | sums of chunks stay below the modulus |
| Paillier-Lookup | `paillier/lookup.py`, `hamming/paillier_lookup.py` | keys, tables, chunk count, configuration | load keys, load config, dump, pickle | key files | tables belong to the keys, in the number encryption needs |
| CUDA clients | `paillier/_gpu_ext`, `paillier/_lookup_gpu_ext` | the same, tables on the device, a cache of tables per process | load, dump, encrypt | CUDA runtime, all clients of the process | the device holds the tables of the installed key |
| Key files, devices | `keys.py`, `device.py` | a file | save, load, resolve | all clients | a crash keeps the old or the new keys |
| Measurement code | `src/benchmarks`, `src/attacks`, `src/experiments/bfv` | | | | no protocol state |

What is hard here: application threads share a client object and work goes on
after its lock has been left; packets come from an evaluator that holds the
authentication key and so may be old, repeated or wrong without failing
authentication; saved states can be restored at any time, more than once, beside the
object that saved them; servers and enclaves restart with empty memory; sessions
expire in the middle of an operation; clocks jump; a peer falls silent in the
middle of a frame. In the arithmetic, a wrong lane, a missed carry or a
rounding at a boundary gives a wrong distance without any error, often for one
coefficient in very many. Loading keys and configurations in several steps
leaves clients between two states. The list of hazards, each at its line, is
in `PROJECT.json`.

## 2. Modules

    QueryPackets                      packets, expected answers, limits
      OneUseQueries                   abstract: what a client promises
      VerifiedClient                  BFVVerifiedClient; implements OneUseQueries
      VerifiedServer                  BFVVerifiedServer
        VerifiedSession               both over an unreliable network
        GuardedSession                + verifier receipts (bfv_guarded.py)
        AttestedSession               + enclave, leases (bfv_attested.py)
    NitroEvidence                     documents, certificates, clocks (bfv_nitro.py)
    NitroNSM                          the NSM device and its threads (bfv_nitro.py)
    NitroService                      caller, relay, serial service (experiments/bfv_nitro)
    PackedHamming                     layout, rotate-and-add, carry tree (hamming/bfv.py)
    EvaluatorCache                    evaluator, plan, masks of a client (hamming/bfv.py)
    Batching                          plaintext slots (bfv/scheme.py)
      BFVArithmetic                   keys, ciphertexts, operations (bfv/scheme.py)
        NoiseBounds                   closed bounds (hamming/bfv_assurance.py)
          Evaluation                  what BFV and BFVEvaluator accept, in any order
          HammingCircuit              one encrypted search beside its bounds
    KroneckerPacking                  products by big integers (scheme.py, evaluator.py)
    WordArithmetic                    Shoup, Barrett, fractions (rns_ntt.h)
      DigitSums                       gadget digits times keys
      ExactRescaling                  scale-and-round on residues (rns_scale.h)
      MixedRadix                      Garner and gadget digits (bfv_residue.h)
      PrimeTransform                  three forms of the transform; masks (bfv_server.h)
      PrivateDecoding                 what the private decoder computes (private_decoder.h)
    PrivateDecoder                    its threads, locks and key (bfv/private.py)
    PackedWire                        polynomials as bytes (packed_wire.h)
    PaillierHamming                   both Paillier schemes and their distances
    LookupKeys                        keys, tables, strings, pickles, the key file
    GPUClients                        host side of the CUDA clients
    VerifiedProofs                    theorems about VerifiedClient, -Server, -Session
    SessionProofs                     ... about GuardedSession and AttestedSession
    NitroServiceProofs                ... about NitroService
    NitroProofs                       ... about NitroNSM and NitroEvidence
    ClientsProofs                     ... about EvaluatorCache, LookupKeys, GPUClients and
                                      PrivateDecoder
    ArithmeticProofs                  ... about WordArithmetic, DigitSums, PackedHamming,
                                      PackedWire, MixedRadix, KroneckerPacking
    RescalingProofs                   ... about ExactRescaling
    TransformProofs                   ... about PrimeTransform
    MC*                               values, and machines put side by side, for TLC

The abstract specifications are `OneUseQueries`, which `VerifiedClient`
implements under a refinement mapping (`StatusOf`), and the reference
definitions that the arithmetic is compared with: plain distances on vectors, slots
as vectors, convolution in the ring, and `BFVArithmetic` itself, which
`PrivateDecoding` instantiates as `Scheme`.

### Conventions

A ticket, a nonce, a setup digest, a query vector and a distance vector are
elements of constant sets. A digest of a packet is the packet (no collisions), a
fresh random value is one that has not been drawn before. An authenticated
packet can be anything of its record type: the MAC key is shared with the
evaluator. A signature can be presented only if its owner has made it. The
private fingerprint of `_HammingSummary` is the distance vector it stands for,
so a wrong vector never matches (in the code it matches with a chance of about
2^-255). Errors are exceptions that change nothing; where they change
something (a spent ticket, a place given back) they are actions.

In the arithmetic nothing is abstracted but sizes: residues, words, shifts and
carries are numbers, words wrap at a constant base, and TLC computes with rings of
4 or 8 coefficients.

Lines beginning with `Mutant:` introduce a faulty variant of the definition
below them. No specification uses one; they exist so that each property can be
seen to fail.

### VerifiedClient

State: `phase`, `setup`, `started`, `pending`, `packet` are the attributes of
all `BFVVerifiedClient` objects over all process lives; `call[k]` is what
thread `k` holds in `finish_query` after the lock; `saved` collects everything
`protect_state` returned. `begun`, `decrypted`, `cancelled` and `returned` are
history. Every method body under `self._lock` is one action. `finish_query` is
two: `ConsumeTicket` (under the lock) and then `RejectUndecodable` or
`DecryptAndCheck` (outside of it), with anything else in between. Responses are
chosen freely from `ResponsePacket`. `Restore` takes any saved state, also
twice and beside its author. `Crash` drops an object with its pending table and
running calls.

### VerifiedServer

`Admit` takes a semaphore place, `BurnTicket` checks and grows the replay set
under the lock, `Evaluate`/`EvaluationFails` run outside it, `Release` is the
`finally` clause; `Refuse` is every error before the ticket is spent. `Restart`
is a new object made from the same setup: the replay set is only in memory.

### VerifiedSession

The client and the server with a network that may lose, repeat, delay and
reorder. There is no explicit channel: packets sent are `packet` and `responses`,
and any of them may arrive at any time, at any object, that of another session
included. Here responses come from the honest server only, which is what makes
`HonestAnswersReturn` and `QueriesSettle` hold. `SessionSpec` has crashes, clones,
restores and restarts of the server; `SteadyNext` leaves these out, and
`QueriesSettle` is about it. A query that was begun and whose answer is lost is not
settled by the code: it ends when the application asks again or cancels.

### GuardedSession

`approve` is the server's search, then the comparison with the proposal and
the signature (`ApproveStart`, `ApproveSearch`, `ApproveReturn`). The guarded
`finish_query` has two halves: `CheckReceipt` under one acquisition of the inner
lock, `PassInner`/`RefuseInner` under another. The evaluator is no actor: it may
ask the verifier anything and present any response with any receipt. That a
receipt is for a right result restates the guard under which it is signed; it is a
part of the proof's invariant and no property. What depends on it is
`OnlyRecomputedDecrypted`.

### AttestedSession

`self._gate` of a client is held by every method until it ends, private
decoding included (`GateFree`); `self._lock` of the server is held by `attest`
and `search` (`LockFree`). A deadline that has passed is the same as no session:
`LeaseExpires`, `HandshakeTimesOut` and `SessionExpires` may happen between any
two steps, also inside `begin_query` (`BeginExpires`) and during an evaluation.
The host is not trusted: it reboots the enclave (`Reboot`, a new receipt key and
an empty service), lets a stranger register first, and replays challenges,
evidence, requests, responses and receipts at will: `AttestedFinish` is offered any
response with any receipt, also the receipt of one query with the response of another.

### NitroEvidence, NitroNSM

`NitroEvidence` has what `AttestedSession` leaves to chance: time. `mono` is the
monotonic clock, `drift` the distance of the client's wall clock from it, which
jumps (`Adjust`). `accept_attestation` is cut where it reads a clock or does long work:
`AcceptStart`, `Verify`, then `Confirm` or `RefuseAge`, `Open`; `finish_query` likewise
(`FinishStart`, `FinishCheck`). Documents are records of a measurement, a nonce, a
time stamp and a chain of certificates with their ends; the host shows any
document that any NSM has signed and any it can sign itself. `Path`-building,
authority bits and expiry are those of `verify_nitro_attestation`.

`NitroNSM` has the three methods of the device as calls of threads: take the
lock, test the descriptor, leave the interpreter lock for the library, come
back. Deadlock between them would show as calls that never end.

### NitroService

Three parties, sockets between them as sequences of pieces. A caller
(`NitroRemote._call`) sends and reads with a deadline; the relay admits a
connection to one of `Places`, forwards in both directions and gives the place
back however the connection ends (`EndRelay`), also when `submit` fails; it can
die and be restarted. The service takes connections from a backlog, one at a
time, checks the state before it reads a body, works or refuses, and sends the
response in two pieces or an error frame. Every read and write may time out, every
peer may fall silent. `handle` catches the exceptions that its callees raise
(`ValueError`, `TypeError`, `OverflowError`, `OSError`); one of another kind, which would
end the service, is not modelled.

### PackedHamming, EvaluatorCache

`PackedHamming` keeps ciphertexts as vectors of slots. `ReadTile`, `MergeTile`
and `PushTile` are the loop of `encode_hamming_server_packed` with its stack,
`StartCombining` and `CombineLeft` the end of a group, `DecodeTiles` the client. The
server is told a count (`claimed`) that need not be the number of vectors. `Damage` puts
a value out of range into a response.

`EvaluatorCache` has the attributes of a `BFVClient` that searches read, and one
search per thread, cut wherever another thread could run: the comparison of
the cached evaluator, its construction, its return, the native plan, the mask
lookup, the eviction, the use. Keys and configuration change while no search
runs. A client that threads share is that of a `BFVVerifiedServer` (`shared`):
it serves one index, whose tiles have at most two different counts.

### Batching, BFVArithmetic, NoiseBounds, Evaluation, HammingCircuit

`Batching` and `BFVArithmetic` are operators: transforms and slot order, key
generation, encryption, the tensor product with its signed rounding, relinearisation by
gadget digits, rotations, modulus switching, decryption. Randomness is a
parameter. Products modulo a 30-bit modulus are computed as quotient and
remainder so that no intermediate value leaves TLC's integers. In `Evaluation` a
behaviour is any sequence of accepted operations on one result (`AddBy`, `MultiplyBy`,
`RotateBy`, `SwitchModulusBy`, `Transfer`, ...) with operands of two owners; a guard
is what `validate_ciphertext`, `_pair` and the evaluator test. `bound` adds what
each operation may contribute to the noise. `HammingCircuit` is one search,
operation by operation, from encrypting the index to decoding distances, with the noise
compared with `NoiseBounds` after every step.

### The native kernels

Each module is one algorithm on words of base `WordBase`, one action per round of
its loop. `PrimeTransform`: one pass over the values per step, in the plain, lazy
and fused form, with the bound on the values that the form allows; `DigitSums`:
one digit per step and a reduction after every 256th; `ExactRescaling`: residues of a
product, brought to the rounded quotient by certified fixed-point sums
(`Alpha`) and an exact comparison if those leave two answers; `MixedRadix`: Garner
digits, words, gadget digits; `PackedWire`: coefficients at bit offsets of words;
`KroneckerPacking`: lanes of a big integer with their carries.

### PrivateDecoder, PrivateDecoding

One native decoder shared by Python threads. A call runs Python code with the
GIL (`Call`, `RejectWire`, `Return`), gives the GIL back (`ReleaseGIL`), takes
the decoder's mutex (`Enter`), works under it (`TestOpen`, `MultiplyFirst`,
`MultiplySecond`, or `WipeFirst`, `WipeSecond`, `SetClosed`), leaves it and asks
for the GIL again (`TakeGIL`). `Fail` is every exception under the mutex: a closed
decoder, or a work buffer that cannot be allocated and locked. The key is two
spectra that are read and wiped one after the other, so that a decode beside a
wipe would be seen. Thread switches inside Python code are left out: the Python
loop touches nothing that threads share. A running call holds the capsule, so the
decoder is not destroyed under it; its reference count is not modelled.

`PrivateDecoding` is the computation of one call: spectra of a ternary key,
products modulo two primes, the lift to a signed integer, two long divisions of fixed
length, the evaluation into slots. The difference of two residues is taken in a word, as
in the code, so a residue that was not brought below the other prime would wrap.

### PaillierHamming, LookupKeys, GPUClients

`PaillierHamming` runs both schemes on real numbers of few bits, from key
generation to the decoded distance, with every key, randomness and table.
`LookupKeys` has one client, the strings and pickles that were taken of it
(`copies`) and the key file with its truncation (`BeginSave`, `FinishSave`, `Crash`).
`GPUClients` has a client of either kind whose loads throw in their middle and
keep what they assigned, the tables in memory and on the device, and the cache
of tables of the process. Reading past the end of a table is undefined: `DumpTables`
then returns garbage, or the process ends. The run has one client beside a cache that
its predecessors of the same name filled; several are a matter of the theorem.

## 3. What is checked

| Run | Instance | Properties | States |
|---|---|---|---|
| `verified_client` | 2 objects, 2 threads, 3 tickets, 2 queries, budget 2, any response | `OneDecryption`, `RightAnswers`, `CancelledNeverDecrypted`, `LineageBudget`, `ImplementsOneUse` (refinement) | 101 thousand |
| `verified_server` | 3 threads, 2 places, 2 tickets, budget 2, a foreign setup; alone, or with 1 client and 1 pending query at most | `OneEvaluation`, `SlotsAccounted`, `FullServerDrains`, `QueriesSettle` (the last two liveness) | 58 thousand |
| `verified_session` | 2 objects, 2 setups, 2 tickets, 2 queries, 1 thread on each side; crashes, clones, restores, restarts | `HonestAnswersReturn` | 558 thousand |
| `guarded_session` | 2 objects, 2 threads, 2 queries, any proposal, response, receipt | `OnlyRecomputedDecrypted`, `NoLateRejection` | 200 thousand |
| `attested_session` | mine and a stranger's registration, 2 nonces; 2 objects and 2 boots, or 2 tickets and 2 queries | `OnlyEnclaveDecrypted`, `WorkOfSession`, `ReceiptsOfSession`, `SessionsApart` | 967 thousand |
| `nitro_service` | 2 connections, 1 relay place, a backlog of 1 | `PlacesAccounted`, `ValueMeansDone`, `RelaysEnd`, `QueuedAreServed` (the last two liveness) | 420 thousand |
| `nitro_evidence` | 2 nonces, 4 chains, 2 foreign measurements, time to 6; 3 threads at the NSM | `SessionsRestOnEvidence`, `DecryptedInTime`, `PromptEvidenceIsFresh`, `NoCallOnClosedDevice` | 1.4 million |
| `hamming_search` | 16 slots and up to 17 vectors; ring of 8, t = 17, 30 and 20 bits | `LayoutIsExact`, `OperationsAreExact`, `SearchesAreExact` | 87 thousand |
| `clients` | 2 threads, 3 keys, 3 layouts, 3 counts, 2 masks; a key file and 2 copies; 3 CUDA keys, a cache of 2 | `SearchesUsePresentKeys`, `LookupKeysStayWhole`, `GPUTablesBelong` | 1.3 million |
| `native_kernels` | words of 4 to 9 bits, primes of 3 to 7 bits | `SumIsExact`, `RescalingIsExact`, `GadgetDigitsAreExact`, `WireIsExact`, `PackedProductsAreExact`, `WrongOnlyIfWrapped` | 760 thousand |
| `private_decoder` | 3 threads, responses of 2 ciphertexts; ring of 8, words of 15 bits | `LiveKeyOnly`, `AgreesWithScheme`, `TransformsAreExact`, `CallsReturn` (liveness) | 20 thousand |
| `lookup_silent_zero` | the lookup client alone | `ReturnsItsMessage` is violated, see below | |

All passing runs explore their state space completely.

Machines side by side. A run whose MC module has a variable `running` asks one
question of several machines that share nothing: `running` is chosen in `Init`
and never changes, the chosen machine makes its steps, the variables of the others keep
one value. Its properties speak of one machine each (`running = "layout" => ...`) and
name the parts that were stated in the machine's module, its type invariant
among them. In `nitro_evidence` the machine `times` has the owner's own
documents and every clock, `documents` has the host's documents and chains and no
searches, up to time 2, and `device` is the NSM. In `verified_server`, `server` is the
server alone, asked anything, and `session` has a steady client beside it. In
`attested_session`, `clones` has two objects, one of which may be a clone, one ticket and
reboots; `queries` has one object, two tickets for queries with different answers,
and one boot.

### Bounds

*Sessions.* `MaxQueries` and `MaxPending` are the policy's own limits and are
small enough to be reached (budget 2 with 3 tickets in `verified_client`: one query too
many exists; the budget of the server is proved, `EvaluationBudget`).
Two objects are enough for a clone beside its author, two threads for a
duplicate response, two queries for a response that answers the wrong one, two
setups for a response of another session (in `verified_session`, where an object of one
session is handed those of the other; `verified_client` has one setup), two boots and
two nonces for evidence that is out of date. In `verified_server` the client may have one
query pending, so that it has to wait for an answer, or to cancel, before it can begin
again. Values of one kind are interchangeable, so tickets,
objects, threads, nonces and keys are symmetry sets; runs with liveness use no
symmetry.

*Service.* Two connections and one place: one is refused or waits while the
other is in work, and the place is needed again. A message is at most a header, a
body or a beginning, and its last bytes, which is all that its receivers tell apart.

*Evidence.* The age limit is 3, a session 2, the skew 1, the handshake 2, and
the wall clock is off by -1, 0 or 2, so by as much as the skew allows and by more. Time ends at 6,
after a certificate (5), and late enough for a session that is opened at the last
moment to run out. Searches of the enclave end or expire before or after it.

*Layout.* A ring of 16 slots has every width from 1 to 8; 17 vectors are a
full and a partial group of tiles for the wide ones, and several complete groups with
a rest for the narrow ones; every claimed count is tried. Vectors are chosen
so that neighbours have different distances.

*BFV.* A ring of 8 and t = 17 is the smallest that batches; the moduli are primes
of 30 and 20 bits, digits have 10 bits, errors are -1, 0 or 1. Three
operations are a product that is relinearised or not, an operand that does not
fit and a rotation. Two owners, of which one publishes no relinearisation key,
and different Galois keys. Searches are over vectors of one and two bits, with
ordinary and with extreme randomness; the closed bound finds width 1 sufficient and
width 2 not, so both sides of the verdict are met.

*Kernels.* Words keep the proportions of the code: primes are four bits below
a word, so that 16p < 2^w as 2^60 is to 2^64. Digit sums run to 512 digits with
the largest operands and zero (smaller ones are covered by the theorem of section 4);
rescaling takes every remainder at both ends of the range of a tensor product and around
zero; Garner takes every coefficient modulo Q; the wire takes moduli whose bit
lengths meet every offset in a word, below `MaxBits` = 30, which is what TLC's integers hold
(the proof is for any `MaxBits`). Transforms take monomials, extreme and
irregular polynomials of 8 coefficients in all three forms; packed products take the largest
keys and digits, so that lanes one bit narrower are too narrow; 2017 is the largest prime that
splits the ring and leaves four of 15 bits free. The private decoder has the two largest
such primes, and a modulus that fills its 13 bits.

*Paillier.* Key lengths of 3 to 5 bits with every pair of primes, dimensions
to 7, which is more than a chunk holds: sums that pass the modulus occur.

*Clients.* Two threads with three counts and two masks make a full cache
evict what another thread is about to read, were it possible (the code's cache of
8 masks against the two counts of one index); three layouts and parameter sets
make every comparison of the caches matter. Three CUDA keys, one of them too
large, and a cache of two tables.

### Fairness and deadlock

`FullServerDrains` assumes that an admitted thread keeps running (weak fairness
of its next step): `search` has no blocking call between the semaphore
and the `finally` clause other than the short replay lock. `QueriesSettle` assumes
the same for both sides, and that the application sends a query again until
the server has taken it and fetches a response that exists (strong fairness: a full
server and a busy thread disable these steps now and then). This is an
application's duty, not the code's; without it a lost packet stays pending until
it is cancelled. The client and the server do not crash there (`SteadyNext`). `CallsReturn` assumes that
threads run and that a lock which stays free goes to a thread that waits (weak
fairness): calls are bounded, so no stronger promise of the mutex or of the GIL
is used.

`QueuedAreServed` and `RelaysEnd` carry their fairness as premises: the first assumes
that the enclave's loop runs (`EnclaveRuns`) and nothing about callers or the relay, the
second that the relay's threads run (`RelayRuns`) and nothing about callers or the
enclave. That a read ends although its peer is silent is the timeout of the socket,
which is an action like any other.

Deadlock is checked in `clients` and `nitro_service`, where some step is always
possible, and not in the others: there an application may stop asking, tickets,
nonces and time are finite in an instance, and a computation ends.

Each property is paired in `PROJECT.json` with a mutant that breaks it in the
same run: a dropped replay check, a ticket read and not consumed, a refunded
budget, a receipt not bound to the response, a renewal that keeps pending
queries, a relay place that is kept when the enclave was not reached, a rotation at a
switched modulus, lanes one bit too narrow, a word written twice where the shift is zero, an unsigned difference that wraps, a factor 1/N forgotten in the last
stage of a transform, and so on.

### Findings

`lookup_silent_zero`: `load_stringified_keys` of a Paillier-Lookup client sets the chunk
count to 0, and exporting that client stores the 0 without an error. A client that
is restored from it has all its tables and encrypts 0 for every message.
`ReturnsItsMessage` is the assertion that stands commented out at
`paillier/lookup.py:244`; the run shows the shortest way there.

Other places where code and text part, seen while modelling and kept in the models
as the code has them:

* `hamming/paillier.py:132` accepts `embed_len = key_len`. Then the sum of two
  valid plaintexts passes n and the distance is wrong without an error;
  `docs/research/paillier-security.md:107` speaks only of `embed_len > key_len`.
  `WrongOnlyIfWrapped` therefore has "the sum passed the modulus" as its exception.
* `src/experiments/bfv_nitro/service.py:71` sends the error frame also after a
  response that failed in its middle; the caller may take the beginning of that frame
  for the missing end. The client refuses such a receipt by its signature, so
  `ValueMeansDone` holds.
* `_gpu_ext/paillier_GPU_client.cu:835` stores a key before it compares its
  size with `KEY_BITS`, and a client that refused a key uses it all the same.
* `_lookup_gpu_ext/paillier_GPU_lookup_client.cu:1794` takes the number of rows over
  before it reads the rows; a refused load leaves an old table beside a new number, and
  `dump_tables` (line 1844) then reads past the end of a shorter one.
  `GPUTablesBelong` says what remains true, and `CompleteLoadsEncrypt` that
  clients whose loads all succeeded are not concerned.

## 4. What is proved

The theorems hold for every number of objects, threads, tickets, setups,
nonces, keys, connections and vectors, for all limits, every ring size from 8 to 2^15 slots
and, in the arithmetic, for every size of bytes and words and every modulus, from the
assumptions stated in the modules: limits are positive, `None`, `Nobody` and `Undecodable` are no
ordinary values, `Answer` maps setups and queries to distances, `Workers` is finite, the two
owners differ, a seed is longer than nothing, sixteen times a prime fits a word; the host holds no key of the
authority (`NitroEvidence`); vectors are binary and of the index's dimension
(`VectorAssumption`, what `_validate_vector` of `hamming/bfv.py:241` tests); a ring is a power of
two (`RingAssumption`); the coefficients on the wire fill whole bytes, and a modulus there has
at most `MaxBits` bits, 512 in the code (`PackedAssumption`); in the gadget digits, every
prime has `PrimeBits` bits (60 in the code, which the kernel requires), all primes fit the array
of words and every prime has an inverse modulo every later one (`RadixAssumption`,
`InverseAssumption`: the code computes it as a power, and TLC evaluates it on the instance); in
the packed products, degree, modulus and digit bits are positive and the coefficients
reduced (`KroneckerAssumption`); in the rescaling, words are even, primes lack at most five bits
of a word (`Ring` takes them between 2^59 and 2^60), `Q` has at most 8 primes and the second base at
most 17, `t` is below 2^60 and below `Q`, and both products are as large as the constructors
demand (`RescalingAssumption`), and the powers that the kernels take for inverses are inverses
(`CoprimeAssumption`, which TLC evaluates on the instance); in the transforms, rings have 4 to 2^15 coefficients, a
modulus is one more than a multiple of 2N and, because it is prime, has an N-th root of -1 and an inverse
of N where the kernels look for them (`TransformAssumption`, `RootsAssumption`).

* `VerifiedProofs`, the client: types, `ClientInv`, the four safety properties, and
  that the client implements `OneUseQueries`.
  `OneDecryption` is not inductive: it needs that a ticket in a pending table is
  undecided and pending in no other object (`PendingInv`), that a ticket held by
  a running call is undecided, in no pending table and in no other call
  (`CallInv`), and that a decided ticket is never both decrypted and cancelled
  (`HistoryInv`). `BudgetInv` carries the counter through saved states. The
  refinement maps a ticket to unasked, open, taken, answered or closed
  (`StatusOf`); every step is one abstract step or a stutter, because with
  `ClientInv` a ticket is in one place only.
  The server: types, the exact semaphore (`SlotsAccounted`), one evaluation per ticket
  and the budget (`EvaluationBudget`). The invariant says that two searches past
  the lock never work on one ticket (`BurntInv`) and that everything evaluated
  is in the replay set (`SeenInv`). The semaphore needs an argument about
  cardinalities: `Admit` and `Release` add and remove one worker of `Busy`.
  The session is a client and a server, with crashes,
  restarts and clones on both sides (`SessionSpec`): both
  specifications and `OneUseQueries` are implemented. `HonestAnswersReturn`
  needs that every response was computed for a query that was begun, and that all
  packets with one ticket are one packet, also across restored copies.
* `SessionProofs`, recomputation: the composition implements both parts, so their invariants
  carry over; `GuardInv` adds that a receipt is right, that a response waiting
  between the halves of `finish_query` has one, and that what is decrypted is
  right, hence never rejected late.
* `SessionProofs`, attestation: again both parts are implemented and their invariants
  carry over. `AttestedInv` adds that the session in force belongs to the
  registered owner and to the running search (`EnclaveInv`, this is where the
  server's lock is needed), that a request is for the packet begun with its
  ticket (`RequestsInv`), and that an object that waits for evidence has its own
  unused challenge, no session and no work (`ChallengeInv`, this is where the
  gate and the discarded pending queries are needed).
* `NitroProofs`, the device: for any number of threads, no call meets a closed descriptor or
  another call (`NoCallOnClosedDevice`), the library is left once (`ClosedOnce`),
  and callers get a whole seed or a document that fits (`ResultsWhole`). The
  invariant says who holds the lock and that an open descriptor stays so while it
  is held by anyone but a close.
  The evidence, for any clocks, drifts, policies and chains: a session rests on a document
  that the enclave made for the pending challenge (`SessionsRestOnEvidence`), decryption
  happens under its lease and before every certificate ends (`DecryptedInTime`), and prompt
  evidence is never refused as stale when the policy leaves room for the skew
  (`PromptEvidenceIsFresh`). The invariant follows one acceptance through the readings of
  the two clocks: what `Verify` found (`Within`), that `Confirm` charged the drift it saw
  against the remaining time (`AcceptInv`), and that the lease keeps that difference however
  the clock is adjusted later (`LeaseInv`). The rest is linear arithmetic. A chain of the
  host's is refused because its root would have to be signed by the authority, by
  descent along the chain (`HostChainRefused`).
* `NitroServiceProofs`: for any number of connections, types, the exact places of the relay
  (`PlacesAccounted`), and that a client that reports a value was served, one
  registration at most (`ValueMeansDone`). Places and connections in work add up
  (`PlacesInv`), the backlog lists the queued connections once each (`BacklogInv`), the
  serial loop has one connection in hand (`ServedInv`), and only a service that has done what
  was asked sends anything but an error frame (`DoneInv`).
* `ClientsProofs`: `SearchesUsePresentKeys` for any number of threads needs what each search may
  rely on at each of its places whatever others do (`SearchOK`), that equal identities of live
  evaluators mean equal keys (`IdentityIsKey`: identities are reused once the object is gone)
  and that the masks of a shared client are those of its index, so that no eviction takes
  a mask in use. `LookupKeysStayWhole`: clients, copies, the file and a save under way are whole
  or torn as a whole. `GPUTablesBelong`: the size of the device cache is what its entries
  add up to through touching, storing and evicting (`CacheKept`), and a client that loaded and
  was not refused has tables of its own key (`GPUClientWhole`).
  The private decoder, for any number of threads: types, `LiveKeyOnly` and `ClosedIsFinal`. Each lock is
  held exactly in its places (`LockInv`), the key is whole while the decoder is
  open and nobody is wiping (`KeyInv`), a close that is past the mutex has set the
  flag (`ShutInv`), and a call that began after a close is an error (`CallInv`).
* `ArithmeticProofs`, words: multiplication by a fixed factor is exact although both low
  products wrap (`LazyProduct`, `ProductIsExact`); Barrett reduction from the four
  partial products is the remainder of any double word (`ReduceIsRemainder`);
  the sums over gadget digits never wrap and are the dot product modulo the prime
  for every sequence of digits (`SumsNeverWrap`, `SumsAreExact`). Lemmas about
  division and monotone products carry the nonlinear steps, which the SMT solver
  does not find by itself; the room left in a batch of 256 (`Room`) is the
  inductive strengthening.
  The layout, for every ring, dimension, query and index (`LayoutIsExact`): the
  rotate-and-add circuit leaves in each lane the sum over its block, by
  doubling the set of positions whose ones are counted (`Ones`, `OnesDouble`,
  `SumOfBlocks`), so a lane of a compared tile holds a distance (`LaneDistance`). The
  carry tree needs that stack entries are adjacent, of falling powers of two and that each holds
  the distances of the tiles it stands for, with the carried one on top (`Covers`
  in `TreeInv`); then a response holds one group of tiles (`ResponsesInv`), and the
  client reads distances in index order from a slot that is the one the tile was merged
  into (`ReadSlot`, `Decoded`). A damaged response shows because a count is
  missing or a value is out of range (`DamageShows`); every rotation used has a key
  (`KeysInv`).

  The wire, for every number of bits of a modulus, coefficients and words (`WireIsExact`): a bit
  of a coefficient falls into one word or the next (`WordOfBit`), so what was written so far
  are the bits of the coefficients so far, word by word (`WireInv`), a limb that is read holds
  the bits at its place (`LoadedIs`), and different bits make different numbers
  (`NumberInjective`).

  The gadget digits, for every list of primes, word size, number of words and width of a digit
  (`RadixDigits`, which states `GadgetDigitsAreExact`). The property is inductive once the loops are described
  exactly (`RadixInv`): after k rounds of Garner the digits are those of the coefficient modulo the
  product of k primes, because the stored inverse undoes the product (`InverseUndoes`,
  `GarnerStep`); while words are composed their value is the coefficient divided by the product of the
  primes not yet multiplied in, because each round is one step of Horner's rule whose carries
  leave no word (`TimesPlusIs`), and the words are then the coefficient in base `B` (`WordOf`). A field
  of at most one prime's bits touches two words at most (`TwoWords`, `ExtractIs`), so one
  subtraction reduces it; a wider digit is reduced from its highest part down, by
  strong induction over the bits that are done (`WideIs`).

  The packed products, for every degree, modulus, width of a digit and key (`PackedProducts`,
  which states `PackedProductsAreExact`). Nonnegative lanes below the base have no carries
  (`NoCarry`), so the question is how large a lane gets. After d digits each lane of the sums is
  the exact sum of d lane products (`SumsSoFar` in `PackingInv`), a part of at most N products per
  digit, and that stays below the bias, half the base (`ShareIs`, `LaneBound`). Hence a lane
  minus the one folded onto it, plus the bias, is positive and fits (`FoldedIs`):
  unpacking gives exactly N lanes, also for the zero polynomial, and each is the
  coefficient of the product in the ring (`FoldIs`). The reference product has narrower lanes, by the longest
  coefficients of the two factors, which suffice too (`RoomForProduct`, `PolyProductIs`).
* `RescalingProofs`, for every word size, list of primes and value within the bounds of a tensor
  (`Rescaling`, which states `RescalingIsExact`). A fixed-point fraction is rounded down by less
  than one unit (`FractionIs`), so the sum of the fractions encloses the sum of the terms over the
  product within as many units as there are primes (`FractionBounds`). That is less than a word,
  so the two candidates differ by one at most, and the estimate, or one more when the
  comparison says so, is certified (`Rounding`): between the two multiples of the product that
  make it the floor, or the nearest integer when half a unit is added (`Certified`). What the
  terms stand for is congruent to the value by the Chinese remainder theorem, proved from the
  inverses alone (`AllDivide`, `SumIsCongruent`); with the certified number of
  subtractions it is the remainder by `Q` (`RemainderIs`), and the signed quotient by `Q` because
  the second base is large enough (`QuotientFits`, `CenteredRestored`). The scaled remainder is
  rounded by the same argument about the remainders of the scaled terms (`RoundFractionIs`), where the
  comparison uses a factor that must not wrap: it is below 16 t. `RescaleInv` says
  of each step which of these it has done. Decoding to a modulus that is no product of primes
  needs no bound on the number of primes, as the comparison is with big integers there
  (`DecodeIs`).
* `TransformProofs`, for every word size, ring, modulus and pair of polynomials (`Transforms`, which
  states `TransformsAreExact`). Before a pass over blocks of length 2^l, the value at place j of
  block b stands for one coefficient of the polynomial modulo X^(2^l) - r, where r is psi to
  the power 2^l (2 rev(b) + 1), the block's own odd power of psi (`Block`, `Turn`); the plain and
  lazy forms carry a power of psi beside it, the twist (`Standing`). A butterfly splits such
  a polynomial into its values at the two square roots of r (`Butterfly`, `TurnHalves`), and
  backwards joins twice them (`InverseFusedPair`, `InverseTwistedPair`), so the inductive invariant is that the
  values represent the subject, or on the way back the product times 2^l (`Represents` in
  `TransformInv`), and are below 4p, 2p or p (`Ahead`, `Behind`): the one correction that each pass
  makes restores the bound, and sums of two such values fit a word (`FusedForward`, `InverseSum`).
  With blocks of length one the values are the polynomial at the odd powers of psi (`EvaluationIs`);
  products of values are the values of the product modulo X^N + 1, because psi^N = -1 (`PolyProducts`);
  and before the last scaling the factor is N, which `scale`, `last` or `scales` remove
  (`FusedEnd`, `TwistedEnd`). That psi has an inverse where the code looks for it, psi^(p-2), follows
  from psi^(2N) = 1 and p = 1 modulo 2N (`InvertIs`). Runs that start from a mask share the bounds.

Induction over naturals is available in one form: stated about a set of numbers
rather than about a predicate (`SetInduction`), it follows from the library's facts about
finite sets. `SumOfBlocks` and the numbers of the wire use it. That a recursive
function satisfies its equation is proved from it too (`Recursion`, `NatRecursion`; two such functions
agree, `SameRecursion`), with which `MixedRadix`, `KroneckerPacking`, `ExactRescaling` and `PrimeTransform` are
reasoned about.

Only model-checked: the liveness properties (`FullServerDrains`, `QueriesSettle`,
`CallsReturn`, `RelaysEnd`, `QueuedAreServed`), which rest on fairness; and the
properties that compare with the Python scheme or with Paillier (`AgreesWithScheme`,
`OperationsAreExact`, `SearchesAreExact`, `WrongOnlyIfWrapped`): their references are folds
over sequences (the scheme's own transform, keys, noise) and powers modulo n^2, so a proof would first
need the theory of both from nothing. What `AgreesWithScheme` says of masks
(`MasksAreEncoded`) is among these, because `Batching` encodes with such folds.

## 5. What is not modelled

* Byte formats and cryptography: MessagePack records, MAC, AES-GCM, Ed25519,
  CBOR, COSE and X.509 are abstracted as said in section 2. A malformed document is
  refused like a foreign one.
* The reviewed parameter list of `bfv_assurance.py`: it names sizes (rings of thousands
  of coefficients, moduli of hundreds of bits) that are out of reach of TLC; the closed
  bounds themselves are in `NoiseBounds`.
* CUDA kernels and the allocation of device memory; the CPython bindings of the
  BFV kernels, their profile counters and vector instructions, which compute what the
  plain loops do. A second allocation that fails after the first
  (`paillier_GPU_lookup_client.cu:2644`) loses device memory and nothing else.
* Page locking and the timing of the private decoder: its freedom from secret
  branches is a property of machine code.
* `types.py`, the warning of `device.py`, `bench.py`, `src/benchmarks`, `src/attacks` and
  `src/experiments/bfv`: no state of the protocol.
* Known limits without a property: an older saved state gives back the budget used
  since (`bfv_verified.py:391`, documented), the verifier spends a ticket on a
  wrong proposal (`bfv_guarded.py:103`, documented), a session that ends during a search
  costs the query with its ticket (`bfv_attested.py:231`), 1024 attestations end a boot
  (`bfv_attested.py:197`; `MaxAttestations` in the model).
* Tables of a Paillier-Lookup client or a CUDA client that were stored for another key: a
  caller who mixes files is not modelled, and neither class compares them.
* Most of the terms of the noise bound one by one: at the sizes of `hamming_search` only the bound
  of a fresh encryption is tight, so a term forgotten elsewhere would pass unnoticed.

## 6. Plan

Done: all components of section 1 but the measurement code have modules and runs; every state
machine has its invariants proved, and of the arithmetic the words, the digit sums, the
gadget digits, the packed products, the rescaling, the transforms, the packed layout and the
packed wire.

Next: that `Batching` encodes with the transform that `TransformProofs` is about, which would bring
`MasksAreEncoded` and the decodings within reach; then noise in `BFVArithmetic`.
