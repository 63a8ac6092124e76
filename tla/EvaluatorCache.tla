---------------------------- MODULE EvaluatorCache ----------------------------
(***************************************************************************)
(* What a BFVClient keeps between searches: keys, configuration, the       *)
(* evaluator bound to one public key object and one backend, the native    *)
(* plan built from it, and the masks by count.  Searches may run on        *)
(* several threads, as in VerifiedBFVServer; keys, configuration and       *)
(* backend change only while none runs.                                    *)
(***************************************************************************)
EXTENDS Integers, Sequences, SequencesExt

CONSTANTS Threads,
          BFVKeys,        \* key pairs: [id, params, padded], padded for the rotation keys
          Configs,     \* configurations: [params, padded, bits]
          RnsParams,   \* the parameters with an RNS product modulus
          Backends,    \* "optimized", "native", "residue"
          Counts,      \* vectors in a tile
          IndexCounts, \* those of one index: of a full tile and of the last
          MaxMasks,    \* the 8 entries of the mask cache
          None

ASSUME CacheAssumption ==
  /\ MaxMasks \in Nat \ {0}
  /\ Backends \subseteq {"optimized", "native", "residue"}
  /\ IndexCounts \subseteq Counts /\ IsFiniteSet(Counts)
  /\ Cardinality(IndexCounts) <= MaxMasks
  /\ IsFiniteSet(Threads)
  /\ None \notin [obj : Nat, key : BFVKeys]
                 \cup [id : Nat, key : BFVKeys, backend : Backends]

VARIABLES config, backend,
          shared,        \* whether this is the client of a VerifiedBFVServer
          publicKey,     \* None or an object [obj, key]
          keys,          \* None or [pk, sk]
          evaluator,     \* None or [id, key, backend], key as a snapshot
          evaluatorKey,  \* _evaluator_public_key
          native,        \* None or [arith, key, padded, bits]
          masks,         \* the mask cache in its order of insertion: [count, padded]
          thread         \* a search in progress on each thread

cacheVars == <<config, backend, shared, publicKey, keys, evaluator, evaluatorKey, native,
               masks, thread>>
settings == <<config, backend, shared, publicKey, keys>>
caches == <<evaluator, evaluatorKey, native, masks>>

Idle == [pc |-> "idle", count |-> None, ev |-> None, use |-> None]
AllIdle == \A th \in Threads : thread[th] = Idle

Compiled == {"native", "residue"}

\* The rotation steps of a layout are those of every smaller one and one more.
Covers(key, c) == key.params = c.params /\ c.padded <= key.padded

CacheInit ==
  /\ config \in Configs /\ backend \in Backends /\ shared \in BOOLEAN
  /\ publicKey = None /\ keys = None
  /\ evaluator = None /\ evaluatorKey = None /\ native = None
  /\ masks = <<>>
  /\ thread = [th \in Threads |-> Idle]

----------------------------------------------------------------------------
(* Keys, configuration and backend, while no search runs *)

ConfigAllowed(c) == publicKey = None \/ c = config

LoadBFVConfig(c) ==
  /\ AllIdle /\ ConfigAllowed(c)
  /\ config' = c
  /\ native' = None /\ masks' = <<>>
  /\ UNCHANGED <<backend, shared, publicKey, keys, evaluator, evaluatorKey, thread>>

\* The identity of a new object is one that no live object has.
Fresh(ids) == CHOOSE i \in 1..(Cardinality(ids) + 1) : i \notin ids
LiveKeys ==
  {o.obj : o \in ({publicKey, evaluatorKey} \cup {p.pk : p \in {keys} \ {None}}) \ {None}}
LiveEvaluators ==
  {e.id : e \in ({evaluator} \cup {thread[th].ev : th \in Threads}) \ {None}}
    \cup {p.arith : p \in {native} \ {None}}

NewObject(key) == [obj |-> Fresh(LiveKeys), key |-> key]

\* load_stringified_keys: nothing changes unless all of it is valid.
LoadBFVKeys(key, sk) ==
  /\ AllIdle
  /\ Covers(key, config)
  /\ sk \in {None, key}
  /\ publicKey' = NewObject(key)
  /\ keys' = IF sk = None THEN None ELSE [pk |-> publicKey', sk |-> sk]
  /\ evaluator' = None /\ evaluatorKey' = None /\ native' = None
  /\ UNCHANGED <<config, backend, shared, masks, thread>>

\* VerifiedBFVClient puts its keys into the client's attributes.
AssignKeys(key) ==
  /\ AllIdle
  /\ Covers(key, config)
  /\ publicKey' = NewObject(key)
  /\ keys' = [pk |-> publicKey', sk |-> key]
  /\ UNCHANGED <<config, backend, shared, caches, thread>>

SetBackend(b) ==
  /\ AllIdle
  /\ backend' = b
  /\ UNCHANGED <<config, shared, publicKey, keys, caches, thread>>

----------------------------------------------------------------------------
(* A search on a thread *)
Goto(th, pc) == thread' = [thread EXCEPT ![th].pc = pc]

\* A client that threads share serves one index; any other is used by one
\* thread at a time, for one index after the other.
MaySearch(th, count) ==
  IF shared THEN count \in IndexCounts ELSE \A other \in Threads \ {th} : thread[other] = Idle

StartSearch(th, count) ==
  /\ thread[th].pc = "idle" /\ publicKey # None /\ MaySearch(th, count)
  /\ thread' = [thread EXCEPT ![th] = [Idle EXCEPT !.pc = "check", !.count = count]]
  /\ UNCHANGED <<settings, caches>>

\* Mutant: the backend of the cached evaluator is not compared.
CurrentMutant == evaluator # None /\ evaluatorKey = publicKey
Current ==
  /\ evaluator # None
  /\ evaluatorKey = publicKey
  /\ evaluator.backend = backend

CheckEvaluator(th) ==
  /\ thread[th].pc = "check"
  /\ Goto(th, IF Current THEN "return" ELSE "build")
  /\ UNCHANGED <<settings, caches>>

\* BFVEvaluator, and BFVRNSArithmetic for a compiled backend.
BuildEvaluator(th) ==
  /\ thread[th].pc = "build"
  /\ backend = "residue" => publicKey.key.params \in RnsParams
  /\ evaluator' = [id |-> Fresh(LiveEvaluators), key |-> publicKey.key, backend |-> backend]
  /\ Goto(th, "assign")
  /\ UNCHANGED <<settings, evaluatorKey, native, masks>>

BuildRefused(th) ==
  /\ thread[th].pc = "build"
  /\ backend = "residue" /\ publicKey.key.params \notin RnsParams
  /\ thread' = [thread EXCEPT ![th] = Idle]
  /\ UNCHANGED <<settings, caches>>

AssignKey(th) ==
  /\ thread[th].pc = "assign"
  /\ evaluatorKey' = publicKey
  /\ Goto(th, "return")
  /\ UNCHANGED <<settings, evaluator, native, masks>>

\* The evaluator is read again, perhaps one another thread has put there.
ReturnEvaluator(th) ==
  /\ thread[th].pc = "return"
  /\ thread' = [thread EXCEPT ![th].ev = evaluator,
                              ![th].pc = IF backend \in Compiled THEN "plan" ELSE "mask"]
  /\ UNCHANGED <<settings, caches>>

PlanFits(plan, ev) ==
  /\ plan # None
  /\ plan.arith = ev.id
  /\ plan.padded = config.padded
  /\ plan.bits = config.bits

\* _native: a check, an assignment, and the attribute is read again.
CheckPlan(th) ==
  /\ thread[th].pc = "plan"
  /\ Goto(th, IF PlanFits(native, thread[th].ev) THEN "planned" ELSE "newPlan")
  /\ UNCHANGED <<settings, caches>>

NewPlan(th) ==
  /\ thread[th].pc = "newPlan"
  /\ native' = [arith |-> thread[th].ev.id, key |-> thread[th].ev.key,
                padded |-> config.padded, bits |-> config.bits]
  /\ Goto(th, "planned")
  /\ UNCHANGED <<settings, evaluator, evaluatorKey, masks>>

ReturnPlan(th) ==
  /\ thread[th].pc = "planned"
  /\ thread' = [thread EXCEPT ![th].use = native, ![th].pc = "native"]
  /\ UNCHANGED <<settings, caches>>

Cached(count) == \E i \in DOMAIN masks : masks[i].count = count

\* The oldest entry makes room.
Evicted(s) == IF Len(s) >= MaxMasks THEN Tail(s) ELSE s

\* _distance_tile: the mask of the count, from the cache or a new one.
CheckMask(th) ==
  /\ thread[th].pc = "mask"
  /\ IF Cached(thread[th].count)
     THEN Goto(th, "masked") /\ UNCHANGED masks
     ELSE Goto(th, "newMask") /\ masks' = Evicted(masks)
  /\ UNCHANGED <<settings, evaluator, evaluatorKey, native>>

\* An entry that is there already keeps its place.
WithMask(s, mask) ==
  IF \E i \in DOMAIN s : s[i].count = mask.count
  THEN [i \in DOMAIN s |-> IF s[i].count = mask.count THEN mask ELSE s[i]]
  ELSE Append(s, mask)

NewMask(th) ==
  /\ thread[th].pc = "newMask"
  /\ masks' = WithMask(masks, [count |-> thread[th].count, padded |-> config.padded])
  /\ Goto(th, "masked")
  /\ UNCHANGED <<settings, evaluator, evaluatorKey, native>>

\* A mask that is gone by now would be a KeyError.
ReadMask(th) ==
  /\ thread[th].pc = "masked" /\ Cached(thread[th].count)
  /\ thread' = [thread EXCEPT ![th].pc = "tile",
                 ![th].use = CHOOSE k \in {masks[i] : i \in DOMAIN masks} :
                               k.count = thread[th].count]
  /\ UNCHANGED <<settings, caches>>

\* The tile or the native search is computed; more tiles may follow.
NextTile(th, count) ==
  /\ thread[th].pc = "tile" /\ MaySearch(th, count)
  /\ thread' = [thread EXCEPT ![th] = [Idle EXCEPT !.pc = "check", !.count = count]]
  /\ UNCHANGED <<settings, caches>>

EndSearch(th) ==
  /\ thread[th].pc \in {"tile", "native"}
  /\ thread' = [thread EXCEPT ![th] = Idle]
  /\ UNCHANGED <<settings, caches>>

Evaluator(th) ==
  CheckEvaluator(th) \/ BuildEvaluator(th) \/ BuildRefused(th) \/ AssignKey(th)
    \/ ReturnEvaluator(th)
Plan(th) == CheckPlan(th) \/ NewPlan(th) \/ ReturnPlan(th)
Mask(th) == CheckMask(th) \/ NewMask(th) \/ ReadMask(th)

CacheNext ==
  \/ \E c \in Configs : LoadBFVConfig(c)
  \/ \E k \in BFVKeys, sk \in BFVKeys \cup {None} : LoadBFVKeys(k, sk)
  \/ \E k \in BFVKeys : AssignKeys(k)
  \/ \E b \in Backends : SetBackend(b)
  \/ \E th \in Threads : \/ \E n \in Counts : StartSearch(th, n) \/ NextTile(th, n)
                         \/ Evaluator(th) \/ Plan(th) \/ Mask(th) \/ EndSearch(th)

CacheSpec == CacheInit /\ [][CacheNext]_cacheVars

----------------------------------------------------------------------------
\* The caches hold what they are for and the mask cache stays within its
\* bound, with one mask for a count.
CacheTypeOK ==
  /\ config \in Configs /\ backend \in Backends
  /\ keys # None => publicKey # None
  /\ Len(masks) <= MaxMasks
  /\ \A i, j \in DOMAIN masks : masks[i].count = masks[j].count => i = j
  /\ \A th \in Threads :
       thread[th].pc \in {"idle", "check", "build", "assign", "return", "plan", "newPlan",
                          "planned", "native", "mask", "newMask", "masked", "tile"}

\* Whatever was loaded, assigned or switched before, and whatever other
\* threads build meanwhile: a tile is computed with an evaluator of the
\* client's present key and backend and with the mask of its count and layout.
TilesUsePresentKeys ==
  \A th \in Threads : thread[th].pc = "tile" =>
    /\ thread[th].ev.key = publicKey.key
    /\ thread[th].ev.backend = backend
    /\ thread[th].use = [count |-> thread[th].count, padded |-> config.padded]

\* The same for the plan of a native search, which another thread may have
\* put in place of the one this thread built.
PlansUsePresentKeys ==
  \A th \in Threads : thread[th].pc = "native" =>
    /\ thread[th].use.key = publicKey.key
    /\ thread[th].use.padded = config.padded
    /\ thread[th].use.bits = config.bits

\* The mask a tile is about to read is there (_mask_cache[count] raises no
\* KeyError): an eviction never hits a count in use.
MaskPresent ==
  \A th \in Threads : thread[th].pc = "masked" => Cached(thread[th].count)

\* The public key a client searches and encrypts with has the parameters of
\* its configuration and the rotation keys of its layout.
KeysFitConfig == publicKey # None => Covers(publicKey.key, config)

\* The secret key decrypts what the public key beside it encrypts, also after
\* an attempt to load a pair that does not belong together.
KeysBelongTogether ==
  keys # None => keys.pk = publicKey /\ keys.sk = publicKey.key

\* Whatever was loaded, assigned or switched before, and whatever other
\* threads build meanwhile: a tile and a native search are computed with the
\* client's present key, backend and layout; a mask about to be read is there;
\* and the secret key decrypts what is computed.
SearchesUsePresentKeys ==
  /\ CacheTypeOK
  /\ TilesUsePresentKeys
  /\ PlansUsePresentKeys
  /\ MaskPresent
  /\ KeysFitConfig
  /\ KeysBelongTogether
=============================================================================
