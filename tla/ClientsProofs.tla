---------------------------- MODULE ClientsProofs ----------------------------
(***************************************************************************)
(* The client objects, for any number of threads, keys, configurations,    *)
(* copies and clients: the caches of a BFVClient, the life of a            *)
(* PaillierLookupClient with its key file, the host side of the CUDA       *)
(* clients, and the private decoder with its threads and locks.  Each part *)
(* states its inductive invariant first.                                   *)
(***************************************************************************)
EXTENDS EvaluatorCache, LookupKeys, GPUClients, PrivateDecoder, FiniteSetTheorems,
        SequenceTheorems, TLAPS

(* PaillierLookupClient and its key file *)

(* Stored tables are of the key beside them, and an exported configuration *)
(* of a generated key lacks nothing.                                       *)
StateWhole(s) ==
  /\ s.tables # Nothing =>
       s.tables.gTable \in {Nothing, s.key} /\ s.tables.noise \in {Nothing, s.key}
  /\ s.configured =>
       /\ s.chunks = Chunks
       /\ s.tables # Nothing => s.tables.gTable = s.key /\ s.tables.noise = s.key

ClientWhole(c) ==
  /\ c.gTable \in {Nothing, c.key} /\ c.noise \in {Nothing, c.key}
  /\ c.configured => c.chunks = Chunks /\ c.gTable = c.key /\ c.noise = c.key

LookupInv ==
  /\ LookupTypeOK
  /\ client # Nothing => ClientWhole(client)
  /\ \A s \in copies : StateWhole(s)
  /\ file \notin {Absent, Torn} => StateWhole(file)
  /\ saving # Nothing => StateWhole(saving)
  /\ FileIsLastSave

LEMMA GeneratedWhole ==
  ASSUME NEW k \in Keys
  PROVE  Generated(k) \in Client /\ ClientWhole(Generated(k))
  BY LookupAssumption DEF Generated, Client, ClientWhole

LEMMA WithKeysWhole ==
  ASSUME NEW k \in Keys
  PROVE  WithKeys(k) \in Client /\ ClientWhole(WithKeys(k)) /\ WithKeys(k).key = k
  BY DEF WithKeys, Client, ClientWhole

(* A configuration belongs to the key of the client that loads it.         *)
LEMMA WithConfigWhole ==
  ASSUME NEW c \in Client, NEW s \in State, StateWhole(s), c.key = s.key
  PROVE  WithConfig(c, s) \in Client /\ ClientWhole(WithConfig(c, s))
<1> DEFINE new == WithConfig(c, s)
<1>1. /\ c.key \in Keys /\ s.chunks \in {0, Chunks} /\ s.configured \in BOOLEAN
      /\ s.tables # Nothing => /\ s.tables.gTable \in Keys \cup {Nothing}
                               /\ s.tables.noise \in Keys \cup {Nothing}
  BY DEF Client, State
<1>2. /\ new.key = c.key
      /\ new.gTable = IF s.tables = Nothing THEN c.key ELSE s.tables.gTable
      /\ new.noise = IF s.tables = Nothing THEN c.key ELSE s.tables.noise
      /\ new.chunks = s.chunks /\ new.configured = s.configured
  BY DEF WithConfig, Client
<1>3. new \in Client
  BY <1>1 DEF WithConfig, Client
<1> HIDE DEF new
<1>4. ClientWhole(new)
  BY <1>2 DEF ClientWhole, StateWhole
<1>5. QED
  BY <1>3, <1>4 DEF new

LEMMA StateOfWhole ==
  ASSUME NEW c \in Client, ClientWhole(c), NEW b \in BOOLEAN
  PROVE  StateOf(c, b) \in State /\ StateWhole(StateOf(c, b))
  BY DEF StateOf, State, StateWhole, ClientWhole, Client

LEMMA RestoredWhole ==
  ASSUME NEW s \in State, StateWhole(s)
  PROVE  Restored(s) \in Client /\ ClientWhole(Restored(s))
<1>1. s.key \in Keys
  BY DEF State
<1>2. QED
  BY <1>1, WithKeysWhole, WithConfigWhole DEF Restored

(* Every step of the client and its file, together: what a step makes of   *)
(* whole states and clients is whole.                                      *)
LEMMA LookupStep == LookupInv /\ [LookupNext]_lookupVars => LookupInv'
<1> SUFFICES ASSUME LookupInv, [LookupNext]_lookupVars PROVE LookupInv'
  OBVIOUS
<1>1. /\ \A s \in copies : s \in State
      /\ file \notin {Absent, Torn} => file \in State
      /\ saving # Nothing => saving \in State
      /\ client # Nothing => client \in Client /\ ClientWhole(client)
  BY DEF LookupInv, LookupTypeOK
<1>2. ASSUME NEW c, c \in Client, ClientWhole(c), client' = c,
             UNCHANGED <<copies, file, saving, lastSaved>>,
             result' \in {"none", "loaded", "exact", "zero", "garbage", "error"}
      PROVE  LookupInv'
  BY <1>2 DEF LookupInv, LookupTypeOK, FileIsLastSave
<1>3. ASSUME NEW s \in State, StateWhole(s), copies' = copies \cup {s},
             UNCHANGED <<client, file, saving, lastSaved, result>>
      PROVE  LookupInv'
  BY <1>3 DEF LookupInv, LookupTypeOK, FileIsLastSave
<1>4. CASE UNCHANGED lookupVars
  BY <1>4 DEF lookupVars, LookupInv, LookupTypeOK, FileIsLastSave
<1>5. ASSUME NEW k \in Keys, Generate(k) PROVE LookupInv'
  <2>1. result' \in {"none", "loaded", "exact", "zero", "garbage", "error"}
    BY <1>5 DEF Generate, LookupInv, LookupTypeOK
  <2>2. QED
    BY <1>2, <1>5, <2>1, GeneratedWhole DEF Generate
<1>6. ASSUME NEW b \in BOOLEAN, Export(b) PROVE LookupInv'
  BY <1>1, <1>3, <1>6, StateOfWhole DEF Export
<1>7. ASSUME NEW b \in BOOLEAN, BeginSave(b) PROVE LookupInv'
  <2>1. StateOf(client, b) \in State /\ StateWhole(StateOf(client, b))
    BY <1>1, <1>7, StateOfWhole DEF BeginSave
  <2>2. QED
    BY <1>7, <2>1 DEF BeginSave, LookupInv, LookupTypeOK, FileIsLastSave
<1>8. ASSUME NEW b \in BOOLEAN, LoadFails(b) PROVE LookupInv'
  BY <1>8 DEF LoadFails, LookupInv, LookupTypeOK, FileIsLastSave
<1>9. ASSUME NEW s \in copies, LoadKeys(s) \/ LoadConfig(s) \/ Unpickle(s) PROVE LookupInv'
  <2>2. s \in State /\ s.key \in Keys /\ StateWhole(s)
    BY <1>1, <1>9 DEF LookupInv, State
  <2>3. result' \in {"none", "loaded", "exact", "zero", "garbage", "error"}
    BY <1>9 DEF LoadKeys, LoadConfig, Unpickle, LookupInv, LookupTypeOK
  <2>4. CASE LoadKeys(s)
    BY <1>2, <2>2, <2>3, <2>4, WithKeysWhole DEF LoadKeys
  <2>5. CASE LoadConfig(s)
    BY <1>1, <1>2, <2>2, <2>3, <2>5, WithConfigWhole DEF LoadConfig
  <2>6. CASE Unpickle(s)
    BY <1>2, <2>2, <2>3, <2>6, RestoredWhole DEF Unpickle
  <2>7. QED
    BY <1>9, <2>4, <2>5, <2>6
<1>10. CASE FinishSave
  BY <1>10 DEF FinishSave, LookupInv, LookupTypeOK, FileIsLastSave
<1>11. CASE Load
  <2>1. file \in State /\ StateWhole(file)
    BY <1>1, <1>11 DEF Load, LookupInv
  <2>2. Restored(file) \in Client /\ ClientWhole(Restored(file))
    BY <2>1, RestoredWhole
  <2>3. QED
    BY <1>2, <1>11, <2>2 DEF Load
<1>12. CASE Encrypt
  BY <1>12 DEF Encrypt, Outcome, LookupInv, LookupTypeOK, FileIsLastSave
<1>13. CASE Crash
  BY <1>13 DEF Crash, LookupInv, LookupTypeOK, FileIsLastSave
<1>14. QED
  BY <1>4, <1>5, <1>6, <1>7, <1>8, <1>9, <1>10, <1>11, <1>12, <1>13 DEF LookupNext

LEMMA LookupInvariant == LookupSpec => []LookupInv
<1>1. LookupInit => LookupInv
  BY DEF LookupInit, LookupInv, LookupTypeOK, FileIsLastSave
<1>2. QED
  BY <1>1, LookupStep, PTL DEF LookupSpec

(* No order of loading, exporting, pickling, saving and crashing gives a   *)
(* lookup client tables of another key; a configured one encrypts exactly; *)
(* and a key file that loads is the last save that ended.                  *)
THEOREM LookupKeysWhole == LookupSpec => []LookupKeysStayWhole
<1>1. ASSUME LookupInv PROVE LookupKeysStayWhole
  <2>1. client # Nothing => client \in Client /\ client.key \in Keys
    BY <1>1 DEF LookupInv, LookupTypeOK, Client
  <2>2. TablesOfOwnKey
    BY <1>1 DEF LookupInv, ClientWhole, TablesOfOwnKey
  <2>3. ConfiguredEncryptsExactly
    BY <1>1, <2>1, LookupAssumption
      DEF LookupInv, ClientWhole, ConfiguredEncryptsExactly, Outcome
  <2>4. QED
    BY <1>1, <2>2, <2>3 DEF LookupInv, LookupKeysStayWhole
<1>2. QED
  BY <1>1, LookupInvariant, PTL

-----------------------------------------------------------------------------
(* The caches of a BFVClient *)

(* Objects, evaluators, plans and masks, and the places of a search.       *)
KeyObjects == [obj : Nat, key : BFVKeys]
Evaluators == [id : Nat, key : BFVKeys, backend : Backends]
Paddings == {c.padded : c \in Configs}
Plans == [arith : Nat, key : BFVKeys, padded : Paddings, bits : {c.bits : c \in Configs}]
MaskEntries == [count : Counts, padded : Paddings]
WithEvaluator == {"plan", "newPlan", "planned", "native", "mask", "newMask", "masked", "tile"}
SearchSteps == {"idle", "check", "build", "assign", "return"} \cup WithEvaluator
Searches == [pc : SearchSteps, count : Counts \cup {None}, ev : Evaluators \cup {None},
             use : Plans \cup MaskEntries \cup {None}]

(* The types of settings, caches and threads.                              *)
CacheTypes ==
  /\ config \in Configs /\ backend \in Backends /\ shared \in BOOLEAN
  /\ publicKey \in KeyObjects \cup {None}
  /\ keys # None => publicKey # None
  /\ evaluator \in Evaluators \cup {None}
  /\ evaluatorKey \in KeyObjects \cup {None}
  /\ native \in Plans \cup {None}
  /\ masks \in Seq(MaskEntries)
  /\ thread \in [Threads -> Searches]

(* The mask cache: one mask for a count, all of the present layout, and    *)
(* for a shared client only the counts of its index.                       *)
MasksOfLayout ==
  /\ Len(masks) <= MaxMasks
  /\ \A i, j \in DOMAIN masks : masks[i].count = masks[j].count => i = j
  /\ \A i \in DOMAIN masks : masks[i].padded = config.padded
  /\ shared => \A i \in DOMAIN masks : masks[i].count \in IndexCounts

(* The evaluator and the key it is cached for go together, unless a thread *)
(* is about to assign the key.                                             *)
EvaluatorOfItsKey ==
  evaluator # None /\ evaluatorKey # None =>
    evaluator.key = evaluatorKey.key \/ \E th \in Threads : thread[th].pc = "assign"

(* Two live evaluators with one identity, and a plan and an evaluator, are *)
(* of one key.                                                             *)
Live == ({evaluator} \cup {thread[th].ev : th \in Threads}) \ {None}
IdentityIsKey ==
  /\ \A a, b \in Live : a.id = b.id => a.key = b.key
  /\ native # None => \A a \in Live : a.id = native.arith => a.key = native.key

(* A client that is not shared serves one search at a time.                *)
OneSearch ==
  ~ shared => \A th, other \in Threads :
    th = other \/ thread[th].pc = "idle" \/ thread[other].pc = "idle"

PresentEvaluator(e) == e # None /\ e.key = publicKey.key /\ e.backend = backend
PresentPlan(p) ==
  p.key = publicKey.key /\ p.padded = config.padded /\ p.bits = config.bits

(* What a search relies on at each place, whatever other threads do.       *)
SearchOK(t) ==
  /\ t.pc # "idle" => /\ publicKey # None /\ t.count \in Counts
                      /\ shared => t.count \in IndexCounts
  /\ t.pc \in {"assign", "return"} => PresentEvaluator(evaluator)
  /\ t.pc \in WithEvaluator => PresentEvaluator(t.ev)
  /\ t.pc = "planned" => PresentPlan(native)
  /\ t.pc = "native" => PresentPlan(t.use)
  /\ t.pc = "newMask" => Cached(t.count) \/ Len(masks) < MaxMasks
  /\ t.pc = "masked" => Cached(t.count)
  /\ t.pc = "tile" => t.use = [count |-> t.count, padded |-> config.padded]

CacheInv ==
  /\ CacheTypes
  /\ KeysFitConfig /\ KeysBelongTogether
  /\ MasksOfLayout
  /\ EvaluatorOfItsKey
  /\ IdentityIsKey
  /\ OneSearch
  /\ \A th \in Threads : SearchOK(thread[th])

(* A new identity is a number that no live object has.                     *)
LEMMA FreshIsNew ==
  ASSUME NEW ids, IsFiniteSet(ids)
  PROVE  Fresh(ids) \in Nat /\ Fresh(ids) \notin ids
<1> DEFINE n == Cardinality(ids)
<1>1. n \in Nat
  BY FS_CardinalityType
<1> HIDE DEF n
<1>2. IsFiniteSet(1..(n + 1)) /\ Cardinality(1..(n + 1)) = n + 1
  BY <1>1, FS_Interval
<1>3. \E i \in 1..(n + 1) : i \notin ids
  <2> SUFFICES ASSUME 1..(n + 1) \in SUBSET ids PROVE FALSE
    OBVIOUS
  <2>1. Cardinality(1..(n + 1)) <= Cardinality(ids)
    BY FS_Subset
  <2>2. QED
    BY <1>1, <1>2, <2>1 DEF n
<1>4. Fresh(ids) = CHOOSE i \in 1..(n + 1) : i \notin ids
  BY DEF Fresh, n
<1>5. QED
  BY <1>1, <1>3, <1>4

(* Finitely many objects have finitely many identities.                    *)
LEMMA FiniteFields ==
  ASSUME NEW S, IsFiniteSet(S)
  PROVE  IsFiniteSet({x.obj : x \in S}) /\ IsFiniteSet({x.id : x \in S})
         /\ IsFiniteSet({x.arith : x \in S}) /\ IsFiniteSet({x.pk : x \in S})
<1>1. ASSUME NEW f, f = [x \in S |-> x.obj] PROVE IsFiniteSet({x.obj : x \in S})
  <2>1. f \in Surjection(S, {x.obj : x \in S})
    BY <1>1 DEF Surjection
  <2>2. QED
    BY <2>1, FS_Surjection
<1>2. ASSUME NEW f, f = [x \in S |-> x.id] PROVE IsFiniteSet({x.id : x \in S})
  <2>1. f \in Surjection(S, {x.id : x \in S})
    BY <1>2 DEF Surjection
  <2>2. QED
    BY <2>1, FS_Surjection
<1>3. ASSUME NEW f, f = [x \in S |-> x.arith] PROVE IsFiniteSet({x.arith : x \in S})
  <2>1. f \in Surjection(S, {x.arith : x \in S})
    BY <1>3 DEF Surjection
  <2>2. QED
    BY <2>1, FS_Surjection
<1>4. ASSUME NEW f, f = [x \in S |-> x.pk] PROVE IsFiniteSet({x.pk : x \in S})
  <2>1. f \in Surjection(S, {x.pk : x \in S})
    BY <1>4 DEF Surjection
  <2>2. QED
    BY <2>1, FS_Surjection
<1>5. QED
  BY <1>1, <1>2, <1>3, <1>4

LEMMA NewKeyObject ==
  ASSUME NEW key \in BFVKeys
  PROVE  NewObject(key) \in KeyObjects /\ NewObject(key) # None /\ NewObject(key).key = key
<1> DEFINE pairs == {keys} \ {None}
           objects == ({publicKey, evaluatorKey} \cup {p.pk : p \in pairs}) \ {None}
<1>1. IsFiniteSet({keys}) /\ IsFiniteSet({publicKey, evaluatorKey})
  BY FS_Singleton, FS_Union, IsFiniteSet({publicKey} \cup {evaluatorKey})
<1>2. IsFiniteSet(pairs)
  BY <1>1, FS_Subset
<1>3. IsFiniteSet({p.pk : p \in pairs})
  BY <1>2, FiniteFields
<1>4. IsFiniteSet({publicKey, evaluatorKey} \cup {p.pk : p \in pairs})
  BY <1>1, <1>3, FS_Union
<1>5. IsFiniteSet(objects)
  BY <1>4, FS_Subset
<1>6. IsFiniteSet(LiveKeys)
  BY <1>5, FiniteFields DEF LiveKeys
<1>7. Fresh(LiveKeys) \in Nat
  BY <1>6, FreshIsNew
<1>8. QED
  BY <1>7, CacheAssumption DEF NewObject, KeyObjects

(* The identity of a new evaluator is of no other, nor of the plan's.      *)
LEMMA NewIdentity ==
  /\ Fresh(LiveEvaluators) \in Nat
  /\ \A a \in Live : a.id # Fresh(LiveEvaluators)
  /\ native # None => native.arith # Fresh(LiveEvaluators)
<1> DEFINE evs == {thread[th].ev : th \in Threads}
           plans == {native} \ {None}
<1>1. IsFiniteSet(evs)
  <2>1. ASSUME NEW f, f = [th \in Threads |-> thread[th].ev] PROVE IsFiniteSet(evs)
    <3>1. f \in Surjection(Threads, evs)
      BY <2>1 DEF Surjection
    <3>2. QED
      BY <3>1, FS_Surjection, CacheAssumption
  <2>2. QED
    BY <2>1
<1> HIDE DEF evs
<1>2. IsFiniteSet({evaluator} \cup evs)
  BY <1>1, FS_Singleton, FS_Union
<1>3. IsFiniteSet(({evaluator} \cup evs) \ {None})
  BY <1>2, FS_Subset
<1>4. Live = ({evaluator} \cup evs) \ {None}
  BY DEF Live, evs
<1>5. IsFiniteSet({e.id : e \in Live})
  BY <1>3, <1>4, FiniteFields
<1>6. IsFiniteSet(plans)
  BY FS_Singleton, FS_Subset
<1>7. IsFiniteSet({p.arith : p \in plans})
  BY <1>6, FiniteFields
<1>8. LiveEvaluators = {e.id : e \in Live} \cup {p.arith : p \in plans}
  BY DEF LiveEvaluators, Live
<1>9. IsFiniteSet(LiveEvaluators)
  BY <1>5, <1>7, <1>8, FS_Union
<1>10. Fresh(LiveEvaluators) \in Nat /\ Fresh(LiveEvaluators) \notin LiveEvaluators
  BY <1>9, FreshIsNew
<1>11. QED
  BY <1>8, <1>10

(* A search moves and leaves settings and caches alone.                    *)
LEMMA SearchMoves ==
  ASSUME CacheInv, NEW th \in Threads, NEW t \in Searches,
         thread' = [thread EXCEPT ![th] = t], UNCHANGED <<settings, caches>>,
         SearchOK(t),
         thread[th].pc = "assign" => t.pc = "assign",
         t.ev \in {None, evaluator, thread[th].ev},
         \/ t.pc = "idle" \/ thread[th].pc # "idle" \/ shared
         \/ \A other \in Threads \ {th} : thread[other].pc = "idle"
  PROVE  CacheInv'
<1> USE DEF CacheInv, settings, caches
<1>1. CacheTypes'
  BY DEF CacheTypes
<1>2. thread'[th] = t /\ \A other \in Threads \ {th} : thread'[other] = thread[other]
  BY DEF CacheTypes
<1>3. KeysFitConfig' /\ KeysBelongTogether' /\ MasksOfLayout'
  BY DEF KeysFitConfig, Covers, KeysBelongTogether, MasksOfLayout
<1>4. EvaluatorOfItsKey'
  BY <1>2 DEF EvaluatorOfItsKey
<1>5. Live' \subseteq Live
  BY <1>2 DEF Live
<1>6. IdentityIsKey'
  BY <1>5 DEF IdentityIsKey
<1>7. OneSearch'
  BY <1>2 DEF OneSearch
<1>8. ASSUME NEW other \in Threads PROVE SearchOK(thread[other])'
  <2>1. SearchOK(thread'[other])
    BY <1>2
  <2>2. QED
    BY <2>1 DEF SearchOK, PresentEvaluator, PresentPlan, Cached
<1>9. QED
  BY <1>1, <1>3, <1>4, <1>6, <1>7, <1>8

(* A search of one client that starts, or goes on to another tile.         *)
LEMMA SearchStarts ==
  ASSUME CacheInv, NEW th \in Threads, NEW count \in Counts,
         publicKey # None, MaySearch(th, count), thread[th].pc \in {"idle", "tile"},
         thread' = [thread EXCEPT ![th] = [Idle EXCEPT !.pc = "check", !.count = count]],
         UNCHANGED <<settings, caches>>
  PROVE  CacheInv'
<1> DEFINE t == [Idle EXCEPT !.pc = "check", !.count = count]
<1>1. t.pc = "check" /\ t.count = count /\ t.ev = None /\ t.use = None /\ t \in Searches
  BY DEF Idle, Searches, SearchSteps
<1>2. shared => count \in IndexCounts
  BY DEF MaySearch
<1>3. shared \/ \A other \in Threads \ {th} : thread[other].pc = "idle"
  BY DEF MaySearch, Idle
<1> HIDE DEF t
<1>4. SearchOK(t)
  BY <1>1, <1>2 DEF SearchOK, WithEvaluator
<1>5. QED
  BY <1>1, <1>3, <1>4, SearchMoves DEF t

LEMMA SearchEnds ==
  ASSUME CacheInv, NEW th \in Threads, thread[th].pc # "assign",
         thread' = [thread EXCEPT ![th] = Idle], UNCHANGED <<settings, caches>>
  PROVE  CacheInv'
<1>1. Idle \in Searches /\ Idle.pc = "idle" /\ Idle.ev = None
  BY DEF Idle, Searches, SearchSteps
<1>2. SearchOK(Idle)
  BY <1>1 DEF SearchOK, WithEvaluator
<1>3. QED
  BY <1>1, <1>2, SearchMoves

(* The steps of a search that only move its thread.                        *)
LEMMA SearchStep ==
  ASSUME CacheInv, NEW th \in Threads,
         \/ CheckEvaluator(th) \/ ReturnEvaluator(th) \/ BuildRefused(th)
         \/ CheckPlan(th) \/ ReturnPlan(th) \/ ReadMask(th) \/ EndSearch(th)
  PROVE  CacheInv'
<1> DEFINE old == thread[th]
<1>1. old \in Searches /\ SearchOK(old) /\ UNCHANGED <<settings, caches>>
  BY DEF CacheInv, CacheTypes, CheckEvaluator, ReturnEvaluator, BuildRefused, CheckPlan,
         ReturnPlan, ReadMask, EndSearch, Goto
<1>2. CASE BuildRefused(th) \/ EndSearch(th)
  BY <1>2, SearchEnds DEF BuildRefused, EndSearch
<1>3. CASE CheckEvaluator(th)
  <2> DEFINE t == [old EXCEPT !.pc = IF Current THEN "return" ELSE "build"]
  <2>1. /\ thread' = [thread EXCEPT ![th] = t] /\ old.pc = "check"
    BY <1>3 DEF CheckEvaluator, Goto
  <2>2. /\ t \in Searches /\ t.count = old.count /\ t.ev = old.ev
        /\ t.pc \in {"return", "build"} /\ (t.pc = "return" => Current)
    BY <1>1 DEF Searches, SearchSteps
  <2>3. Current => PresentEvaluator(evaluator)
    <3> SUFFICES ASSUME Current PROVE PresentEvaluator(evaluator)
      OBVIOUS
    <3>1. publicKey # None
      BY <1>1, <2>1 DEF SearchOK
    <3>2. evaluator # None /\ evaluatorKey = publicKey /\ evaluator.backend = backend
      BY DEF Current
    <3>3. CASE evaluator.key = evaluatorKey.key
      BY <3>2, <3>3 DEF PresentEvaluator
    <3>4. CASE \E other \in Threads : thread[other].pc = "assign"
      BY <3>4 DEF CacheInv, SearchOK
    <3>5. QED
      BY <3>1, <3>2, <3>3, <3>4 DEF CacheInv, EvaluatorOfItsKey
  <2> HIDE DEF t
  <2>4. SearchOK(t)
    BY <1>1, <2>1, <2>2, <2>3 DEF SearchOK, WithEvaluator
  <2>5. QED
    BY <1>1, <2>1, <2>2, <2>4, SearchMoves
<1>4. CASE ReturnEvaluator(th)
  <2> DEFINE t == [old EXCEPT !.ev = evaluator,
                              !.pc = IF backend \in Compiled THEN "plan" ELSE "mask"]
  <2>1. thread' = [thread EXCEPT ![th] = t] /\ old.pc = "return"
    BY <1>4 DEF ReturnEvaluator
  <2>2. evaluator \in Evaluators \cup {None}
    BY DEF CacheInv, CacheTypes
  <2>3. /\ t \in Searches /\ t.count = old.count /\ t.ev = evaluator
        /\ t.pc \in {"plan", "mask"}
    BY <1>1, <2>2 DEF Searches, SearchSteps, WithEvaluator
  <2> HIDE DEF t
  <2>4. SearchOK(t)
    BY <1>1, <2>1, <2>3 DEF SearchOK, WithEvaluator
  <2>5. QED
    BY <1>1, <2>1, <2>3, <2>4, SearchMoves
<1>5. CASE CheckPlan(th)
  <2> DEFINE t == [old EXCEPT !.pc = IF PlanFits(native, old.ev) THEN "planned" ELSE "newPlan"]
  <2>1. thread' = [thread EXCEPT ![th] = t] /\ old.pc = "plan"
    BY <1>5 DEF CheckPlan, Goto
  <2>2. /\ t \in Searches /\ t.count = old.count /\ t.ev = old.ev
        /\ t.pc \in {"planned", "newPlan"} /\ (t.pc = "planned" => PlanFits(native, old.ev))
    BY <1>1 DEF Searches, SearchSteps, WithEvaluator
  <2>3. PresentEvaluator(old.ev) /\ old.ev \in Live
    BY <1>1, <2>1 DEF SearchOK, WithEvaluator, PresentEvaluator, Live
  <2>4. PlanFits(native, old.ev) => PresentPlan(native)
    BY <2>3 DEF PlanFits, PresentPlan, PresentEvaluator, CacheInv, IdentityIsKey
  <2> HIDE DEF t
  <2>5. SearchOK(t)
    BY <1>1, <2>1, <2>2, <2>3, <2>4 DEF SearchOK, WithEvaluator
  <2>6. QED
    BY <1>1, <2>1, <2>2, <2>5, SearchMoves
<1>6. CASE ReturnPlan(th)
  <2> DEFINE t == [old EXCEPT !.use = native, !.pc = "native"]
  <2>1. thread' = [thread EXCEPT ![th] = t] /\ old.pc = "planned"
    BY <1>6 DEF ReturnPlan
  <2>2. native \in Plans \cup {None}
    BY DEF CacheInv, CacheTypes
  <2>3. /\ t \in Searches /\ t.count = old.count /\ t.ev = old.ev
        /\ t.pc = "native" /\ t.use = native
    BY <1>1, <2>2 DEF Searches, SearchSteps, WithEvaluator
  <2> HIDE DEF t
  <2>4. SearchOK(t)
    BY <1>1, <2>1, <2>3 DEF SearchOK, WithEvaluator
  <2>5. QED
    BY <1>1, <2>1, <2>3, <2>4, SearchMoves
<1>7. CASE ReadMask(th)
  <2> DEFINE mask == CHOOSE k \in {masks[i] : i \in DOMAIN masks} : k.count = old.count
             t == [old EXCEPT !.pc = "tile", !.use = mask]
  <2>0. thread' = [thread EXCEPT ![th].pc = "tile", ![th].use = mask]
    BY <1>7 DEF ReadMask
  <2>2. mask \in {masks[i] : i \in DOMAIN masks} /\ mask.count = old.count
    BY <1>7 DEF Cached, ReadMask
  <2> HIDE DEF mask
  <2>1. thread' = [thread EXCEPT ![th] = t] /\ old.pc = "masked"
    BY <1>7, <2>0 DEF ReadMask
  <2>3. mask \in MaskEntries /\ mask.padded = config.padded
    BY <2>2 DEF CacheInv, CacheTypes, MasksOfLayout
  <2>4. mask = [count |-> old.count, padded |-> config.padded]
    BY <2>2, <2>3 DEF MaskEntries
  <2>5. /\ t \in Searches /\ t.count = old.count /\ t.ev = old.ev
        /\ t.pc = "tile" /\ t.use = mask
    BY <1>1, <2>3 DEF Searches, SearchSteps, WithEvaluator
  <2> HIDE DEF t
  <2>6. SearchOK(t)
    BY <1>1, <2>1, <2>4, <2>5 DEF SearchOK, WithEvaluator
  <2>7. QED
    BY <1>1, <2>1, <2>5, <2>6, SearchMoves
<1>8. QED
  BY <1>2, <1>3, <1>4, <1>5, <1>6, <1>7

(* A cache of distinct counts of an index without one of them has room.    *)
LEMMA RoomForIndex ==
  ASSUME NEW s \in Seq(MaskEntries), NEW n \in IndexCounts,
         \A i, j \in DOMAIN s : s[i].count = s[j].count => i = j,
         \A i \in DOMAIN s : s[i].count \in IndexCounts /\ s[i].count # n
  PROVE  Len(s) < MaxMasks
<1> DEFINE f == [i \in 1..Len(s) |-> s[i].count]
           rest == IndexCounts \ {n}
<1>1. IsFiniteSet(IndexCounts) /\ Cardinality(IndexCounts) \in Nat
  BY FS_Subset, FS_CardinalityType, CacheAssumption
<1>2. IsFiniteSet(rest) /\ Cardinality(rest) = Cardinality(IndexCounts) - 1
  BY <1>1, FS_RemoveElement
<1>3. Len(s) \in Nat /\ DOMAIN s = 1..Len(s)
  OBVIOUS
<1>4. f \in Injection(1..Len(s), rest)
  BY <1>3 DEF Injection, IsInjective
<1>5. Cardinality(1..Len(s)) <= Cardinality(rest)
  BY <1>2, <1>4, FS_Injection
<1>6. Cardinality(1..Len(s)) = Len(s)
  <2>1. Cardinality(1..Len(s)) = IF 1 > Len(s) THEN 0 ELSE Len(s) - 1 + 1
    BY <1>3, FS_Interval, SMTT(30)
  <2>2. QED
    BY <1>3, <2>1
<1>7. QED
  BY <1>1, <1>2, <1>3, <1>5, <1>6, CacheAssumption

(* A search moves and puts something into a cache: what other searches     *)
(* rely on stays.                                                          *)
LEMMA CacheMoves ==
  ASSUME CacheInv, NEW th \in Threads, NEW t \in Searches,
         thread' = [thread EXCEPT ![th] = t], UNCHANGED settings,
         thread[th].pc # "idle",
         CacheTypes', MasksOfLayout', EvaluatorOfItsKey', IdentityIsKey', SearchOK(t)',
         PresentEvaluator(evaluator) => PresentEvaluator(evaluator)',
         PresentPlan(native) => PresentPlan(native)',
         shared => \A n \in IndexCounts : Cached(n) => Cached(n)'
  PROVE  CacheInv'
<1> USE DEF CacheInv, settings
<1>1. thread'[th] = t /\ \A other \in Threads \ {th} : thread'[other] = thread[other]
  BY DEF CacheTypes
<1>2. KeysFitConfig' /\ KeysBelongTogether'
  BY DEF KeysFitConfig, Covers, KeysBelongTogether
<1>3. OneSearch'
  BY <1>1 DEF OneSearch
<1>4. ASSUME NEW other \in Threads \ {th}, NEW old, old = thread[other]
      PROVE  SearchOK(old)'
  <2>1. SearchOK(old)
    BY <1>4
  <2>2. old.pc = "idle" \/ shared
    BY <1>4 DEF OneSearch
  <2>3. old.pc \in {"assign", "return"} => PresentEvaluator(evaluator)'
    BY <2>1 DEF SearchOK
  <2>4. old.pc = "planned" => PresentPlan(native)'
    BY <2>1 DEF SearchOK
  <2>5. old.pc # "idle" => old.count \in IndexCounts
    BY <2>1, <2>2 DEF SearchOK
  <2>6. old.pc = "masked" => Cached(old.count)'
    <3>1. CASE old.pc = "masked"
      <4>1. Cached(old.count) /\ shared /\ old.count \in IndexCounts
        BY <2>1, <2>2, <2>5, <3>1 DEF SearchOK
      <4>2. QED
        BY <4>1
    <3>2. QED
      BY <3>1
  <2>7. old.pc = "newMask" => Cached(old.count)' \/ Len(masks') < MaxMasks
    <3>1. CASE old.pc # "idle" /\ ~ Cached(old.count)'
      <4>1. shared' /\ old.count \in IndexCounts
        BY <2>2, <2>5, <3>1
      <4>2. /\ masks' \in Seq(MaskEntries)
            /\ \A i, j \in DOMAIN masks' : masks'[i].count = masks'[j].count => i = j
            /\ \A i \in DOMAIN masks' : masks'[i].count \in IndexCounts
        BY <4>1 DEF CacheTypes, MasksOfLayout
      <4>3. \A i \in DOMAIN masks' : masks'[i].count # old.count
        BY <3>1 DEF Cached
      <4>4. QED
        BY <4>1, <4>2, <4>3, RoomForIndex
    <3>2. QED
      BY <3>1
  <2>8. QED
    BY <2>1, <2>3, <2>4, <2>6, <2>7 DEF SearchOK, PresentEvaluator, PresentPlan
<1>5. ASSUME NEW other \in Threads PROVE SearchOK(thread[other])'
  <2>1. CASE other = th
    BY <1>1, <2>1 DEF SearchOK, PresentEvaluator, PresentPlan, Cached
  <2>2. CASE other # th
    <3>1. thread'[other] = thread[other]
      BY <1>1, <2>2
    <3>2. QED
      BY <1>4, <2>2, <3>1 DEF SearchOK, PresentEvaluator, PresentPlan, Cached
  <2>3. QED
    BY <2>1, <2>2
<1>6. QED
  BY <1>2, <1>3, <1>5

(* Putting a mask of the present layout into the cache.                    *)
LEMMA MaskPut ==
  ASSUME NEW s \in Seq(MaskEntries), NEW mask \in MaskEntries,
         \A i, j \in DOMAIN s : s[i].count = s[j].count => i = j
  PROVE  LET w == WithMask(s, mask)
         IN  /\ w \in Seq(MaskEntries)
             /\ \A i, j \in DOMAIN w : w[i].count = w[j].count => i = j
             /\ \A i \in DOMAIN w :
                  w[i] = mask \/ \E j \in DOMAIN s : w[i] = s[j]
             /\ \A j \in DOMAIN s : \E i \in DOMAIN w : w[i].count = s[j].count
             /\ \E i \in DOMAIN w : w[i].count = mask.count
             /\ \/ Len(w) = Len(s)
                \/ Len(w) = Len(s) + 1 /\ \A j \in DOMAIN s : s[j].count # mask.count
<1> DEFINE w == WithMask(s, mask)
<1>1. Len(s) \in Nat /\ DOMAIN s = 1..Len(s) /\ \A i \in DOMAIN s : s[i] \in MaskEntries
  OBVIOUS
<1>2. CASE \E i \in DOMAIN s : s[i].count = mask.count
  <2>1. w = [i \in 1..Len(s) |-> IF s[i].count = mask.count THEN mask ELSE s[i]]
    BY <1>1, <1>2 DEF WithMask
  <2>2. w \in Seq(MaskEntries) /\ Len(w) = Len(s) /\ DOMAIN w = DOMAIN s
    BY <1>1, <2>1
  <2>3. /\ \A i \in DOMAIN s : w[i].count = s[i].count
        /\ \A i \in DOMAIN s : w[i] = mask \/ w[i] = s[i]
    BY <1>1, <2>1
  <2> HIDE DEF w
  <2>4. QED
    BY <1>2, <2>2, <2>3 DEF w
<1>3. CASE ~ \E i \in DOMAIN s : s[i].count = mask.count
  <2>1. w = Append(s, mask)
    BY <1>3 DEF WithMask
  <2>2. /\ w \in Seq(MaskEntries) /\ Len(w) = Len(s) + 1
        /\ DOMAIN w = 1..(Len(s) + 1) /\ w[Len(s) + 1] = mask
        /\ \A i \in DOMAIN s : w[i] = s[i]
    BY <1>1, <2>1
  <2> HIDE DEF w
  <2>3. \A i \in DOMAIN w : (i = Len(s) + 1) \/ i \in DOMAIN s
    BY <1>1, <2>2
  <2>4. Len(s) + 1 \in DOMAIN w /\ DOMAIN s \subseteq DOMAIN w
    BY <1>1, <2>2
  <2>5. \A i, j \in DOMAIN w : w[i].count = w[j].count => i = j
    BY <1>3, <2>2, <2>3
  <2>6. QED
    BY <1>3, <2>2, <2>3, <2>4, <2>5 DEF w
<1>4. QED
  BY <1>2, <1>3

(* The oldest mask goes if the cache is full.                              *)
LEMMA MaskEvicted ==
  ASSUME NEW s \in Seq(MaskEntries), Len(s) <= MaxMasks,
         \A i, j \in DOMAIN s : s[i].count = s[j].count => i = j
  PROVE  LET e == Evicted(s)
         IN  /\ e \in Seq(MaskEntries) /\ Len(e) < MaxMasks
             /\ \A i, j \in DOMAIN e : e[i].count = e[j].count => i = j
             /\ \A i \in DOMAIN e : \E j \in DOMAIN s : e[i] = s[j]
             /\ Len(s) < MaxMasks => e = s
<1> DEFINE e == Evicted(s)
<1>1. Len(s) \in Nat /\ DOMAIN s = 1..Len(s) /\ MaxMasks \in Nat \ {0}
  BY CacheAssumption
<1>2. CASE Len(s) >= MaxMasks
  <2>1. e = Tail(s)
    BY <1>2 DEF Evicted
  <2>2. /\ e \in Seq(MaskEntries) /\ Len(e) = Len(s) - 1 /\ DOMAIN e = 1..(Len(s) - 1)
        /\ \A i \in 1..(Len(s) - 1) : e[i] = s[i + 1]
    BY <1>1, <1>2, <2>1
  <2> HIDE DEF e
  <2>3. \A i \in DOMAIN e : i + 1 \in DOMAIN s /\ e[i] = s[i + 1]
    BY <1>1, <2>2
  <2>4. \A i, j \in DOMAIN e : e[i].count = e[j].count => i = j
    BY <1>1, <2>2, <2>3
  <2>5. Len(e) < MaxMasks /\ ~ Len(s) < MaxMasks
    BY <1>1, <1>2, <2>2
  <2>6. QED
    BY <2>2, <2>3, <2>4, <2>5 DEF e
<1>3. CASE ~ Len(s) >= MaxMasks
  BY <1>1, <1>3 DEF Evicted
<1>4. QED
  BY <1>2, <1>3

(* The steps of a search that put an evaluator, its key, a plan or a mask  *)
(* into the caches.                                                        *)
LEMMA BuildStep ==
  ASSUME CacheInv, NEW th \in Threads, BuildEvaluator(th) PROVE CacheInv'
<1> DEFINE old == thread[th]
           new == [id |-> Fresh(LiveEvaluators), key |-> publicKey.key, backend |-> backend]
<1> SUFFICES ASSUME NEW t, t = [old EXCEPT !.pc = "assign"] PROVE CacheInv'
  OBVIOUS
<1>1. /\ old \in Searches /\ SearchOK(old) /\ old.pc = "build"
      /\ thread' = [thread EXCEPT ![th] = t] /\ evaluator' = new
      /\ UNCHANGED <<settings, evaluatorKey, native, masks>>
  BY DEF CacheInv, CacheTypes, BuildEvaluator, Goto
<1>2. publicKey \in KeyObjects /\ backend \in Backends
  BY <1>1 DEF CacheInv, CacheTypes, SearchOK
<1>3. new \in Evaluators /\ new # None /\ new.key = publicKey.key /\ new.backend = backend
  BY <1>2, NewIdentity, CacheAssumption DEF Evaluators, KeyObjects
<1>4. t \in Searches /\ t.pc = "assign" /\ t.count = old.count /\ t.ev = old.ev
  BY <1>1 DEF Searches, SearchSteps
<1>5. new.id = Fresh(LiveEvaluators)
  OBVIOUS
<1> HIDE DEF new
<1>6. CacheTypes'
  BY <1>1, <1>3, <1>4 DEF CacheInv, CacheTypes, settings
<1>7. thread'[th] = t /\ \A other \in Threads \ {th} : thread'[other] = thread[other]
  BY <1>1 DEF CacheInv, CacheTypes
<1>8. EvaluatorOfItsKey'
  BY <1>4, <1>7 DEF EvaluatorOfItsKey
<1>9. Live' \subseteq Live \cup {new}
  BY <1>1, <1>4, <1>7 DEF Live
<1>10. IdentityIsKey'
  BY <1>1, <1>5, <1>9, NewIdentity DEF CacheInv, IdentityIsKey
<1>11. PresentEvaluator(evaluator)'
  BY <1>1, <1>3 DEF PresentEvaluator, settings
<1>12. SearchOK(t)'
  BY <1>1, <1>4, <1>11 DEF SearchOK, WithEvaluator, PresentEvaluator, settings
<1>13. MasksOfLayout'
  BY <1>1 DEF CacheInv, MasksOfLayout, settings
<1>14. PresentPlan(native) => PresentPlan(native)'
  BY <1>1 DEF PresentPlan, settings
<1>15. \A n \in IndexCounts : Cached(n) => Cached(n)'
  BY <1>1 DEF Cached
<1>16. QED
  BY <1>1, <1>4, <1>6, <1>8, <1>10, <1>11, <1>12, <1>13, <1>14, <1>15, CacheMoves

LEMMA AssignStep ==
  ASSUME CacheInv, NEW th \in Threads, AssignKey(th) PROVE CacheInv'
<1> DEFINE old == thread[th]
<1> SUFFICES ASSUME NEW t, t = [old EXCEPT !.pc = "return"] PROVE CacheInv'
  OBVIOUS
<1>1. /\ old \in Searches /\ SearchOK(old) /\ old.pc = "assign"
      /\ thread' = [thread EXCEPT ![th] = t] /\ evaluatorKey' = publicKey
      /\ UNCHANGED <<settings, evaluator, native, masks>>
  BY DEF CacheInv, CacheTypes, AssignKey, Goto
<1>2. PresentEvaluator(evaluator)
  BY <1>1 DEF SearchOK
<1>3. t \in Searches /\ t.pc = "return" /\ t.count = old.count /\ t.ev = old.ev
  BY <1>1 DEF Searches, SearchSteps
<1>4. CacheTypes'
  BY <1>1, <1>3 DEF CacheInv, CacheTypes, settings
<1>5. thread'[th] = t /\ \A other \in Threads \ {th} : thread'[other] = thread[other]
  BY <1>1 DEF CacheInv, CacheTypes
<1>6. EvaluatorOfItsKey'
  BY <1>1, <1>2 DEF EvaluatorOfItsKey, PresentEvaluator
<1>7. Live' \subseteq Live
  BY <1>1, <1>3, <1>5 DEF Live
<1>8. IdentityIsKey'
  BY <1>1, <1>7 DEF CacheInv, IdentityIsKey
<1>9. PresentEvaluator(evaluator)'
  BY <1>1, <1>2 DEF PresentEvaluator, settings
<1>10. SearchOK(t)'
  BY <1>1, <1>3, <1>9 DEF SearchOK, WithEvaluator, PresentEvaluator, settings
<1>11. MasksOfLayout' /\ (PresentPlan(native) => PresentPlan(native)')
  BY <1>1 DEF CacheInv, MasksOfLayout, PresentPlan, settings
<1>12. \A n \in IndexCounts : Cached(n) => Cached(n)'
  BY <1>1 DEF Cached
<1>13. QED
  BY <1>1, <1>3, <1>4, <1>6, <1>8, <1>9, <1>10, <1>11, <1>12, CacheMoves

LEMMA PlanStep ==
  ASSUME CacheInv, NEW th \in Threads, NewPlan(th) PROVE CacheInv'
<1> DEFINE old == thread[th]
           new == [arith |-> old.ev.id, key |-> old.ev.key,
                   padded |-> config.padded, bits |-> config.bits]
<1> SUFFICES ASSUME NEW t, t = [old EXCEPT !.pc = "planned"] PROVE CacheInv'
  OBVIOUS
<1>1. /\ old \in Searches /\ SearchOK(old) /\ old.pc = "newPlan"
      /\ thread' = [thread EXCEPT ![th] = t] /\ native' = new
      /\ UNCHANGED <<settings, evaluator, evaluatorKey, masks>>
  BY DEF CacheInv, CacheTypes, NewPlan, Goto
<1>2. PresentEvaluator(old.ev) /\ old.ev \in Evaluators /\ old.ev \in Live
  BY <1>1 DEF SearchOK, WithEvaluator, PresentEvaluator, Searches, Live
<1>3. /\ new.arith = old.ev.id /\ new.key = old.ev.key
      /\ new.padded = config.padded /\ new.bits = config.bits
  OBVIOUS
<1>4. new \in Plans
  BY <1>2 DEF Plans, Paddings, Evaluators, CacheInv, CacheTypes
<1>5. t \in Searches /\ t.pc = "planned" /\ t.count = old.count /\ t.ev = old.ev
  BY <1>1 DEF Searches, SearchSteps, WithEvaluator
<1> HIDE DEF new
<1>6. CacheTypes'
  BY <1>1, <1>4, <1>5 DEF CacheInv, CacheTypes, settings
<1>7. thread'[th] = t /\ \A other \in Threads \ {th} : thread'[other] = thread[other]
  BY <1>1 DEF CacheInv, CacheTypes
<1>8. EvaluatorOfItsKey'
  BY <1>1, <1>7 DEF CacheInv, EvaluatorOfItsKey
<1>9. Live' \subseteq Live
  BY <1>1, <1>5, <1>7 DEF Live
<1>10. IdentityIsKey'
  BY <1>1, <1>2, <1>3, <1>9 DEF CacheInv, IdentityIsKey
<1>11. PresentPlan(native)'
  BY <1>1, <1>2, <1>3 DEF PresentPlan, PresentEvaluator, settings
<1>12. SearchOK(t)'
  BY <1>1, <1>2, <1>5, <1>11 DEF SearchOK, WithEvaluator, PresentEvaluator, settings
<1>13. MasksOfLayout' /\ (PresentEvaluator(evaluator) => PresentEvaluator(evaluator)')
  BY <1>1 DEF CacheInv, MasksOfLayout, PresentEvaluator, settings
<1>14. \A n \in IndexCounts : Cached(n) => Cached(n)'
  BY <1>1 DEF Cached
<1>15. QED
  BY <1>1, <1>5, <1>6, <1>8, <1>10, <1>11, <1>12, <1>13, <1>14, CacheMoves

(* A search moves and changes the mask cache.                              *)
LEMMA MaskMoves ==
  ASSUME CacheInv, NEW th \in Threads, NEW t \in Searches,
         thread' = [thread EXCEPT ![th] = t],
         UNCHANGED <<settings, evaluator, evaluatorKey, native>>,
         thread[th].pc \in {"mask", "newMask"}, t.pc \in {"newMask", "masked"},
         t.ev = thread[th].ev, t.count = thread[th].count,
         masks' \in Seq(MaskEntries), MasksOfLayout',
         t.pc = "newMask" => Cached(t.count)' \/ Len(masks') < MaxMasks,
         t.pc = "masked" => Cached(t.count)',
         shared => \A n \in IndexCounts : Cached(n) => Cached(n)'
  PROVE  CacheInv'
<1>1. CacheTypes'
  BY DEF CacheInv, CacheTypes, settings
<1>2. thread'[th] = t /\ \A other \in Threads \ {th} : thread'[other] = thread[other]
  BY DEF CacheInv, CacheTypes
<1>3. EvaluatorOfItsKey'
  BY <1>2 DEF CacheInv, EvaluatorOfItsKey
<1>4. Live' \subseteq Live
  BY <1>2 DEF Live
<1>5. IdentityIsKey'
  BY <1>4 DEF CacheInv, IdentityIsKey
<1>6. /\ PresentEvaluator(evaluator) => PresentEvaluator(evaluator)'
      /\ PresentPlan(native) => PresentPlan(native)'
  BY DEF PresentEvaluator, PresentPlan, settings
<1>7. SearchOK(thread[th])
  BY DEF CacheInv
<1>8. SearchOK(t)'
  BY <1>7 DEF SearchOK, WithEvaluator, PresentEvaluator, settings
<1>9. QED
  BY <1>1, <1>3, <1>5, <1>6, <1>8, CacheMoves

LEMMA CheckMaskStep ==
  ASSUME CacheInv, NEW th \in Threads, CheckMask(th) PROVE CacheInv'
<1> DEFINE old == thread[th]
<1>1. /\ old \in Searches /\ SearchOK(old) /\ old.pc = "mask"
      /\ UNCHANGED <<settings, evaluator, evaluatorKey, native>>
      /\ masks \in Seq(MaskEntries) /\ MasksOfLayout /\ OneSearch
  BY DEF CacheInv, CacheTypes, CheckMask
<1>2. CASE Cached(old.count)
  <2> SUFFICES ASSUME NEW t, t = [old EXCEPT !.pc = "masked"] PROVE CacheInv'
    OBVIOUS
  <2>1. thread' = [thread EXCEPT ![th] = t] /\ masks' = masks
    BY <1>2 DEF CheckMask, Goto
  <2>2. t \in Searches /\ t.pc = "masked" /\ t.count = old.count /\ t.ev = old.ev
    BY <1>1 DEF Searches, SearchSteps, WithEvaluator
  <2>3. MasksOfLayout' /\ \A n : Cached(n) => Cached(n)'
    BY <1>1, <2>1 DEF MasksOfLayout, Cached, settings
  <2>4. Cached(t.count)'
    BY <1>2, <2>1, <2>2 DEF Cached
  <2>5. QED
    BY <1>1, <2>1, <2>2, <2>3, <2>4, MaskMoves
<1>3. CASE ~ Cached(old.count)
  <2> SUFFICES ASSUME NEW t, t = [old EXCEPT !.pc = "newMask"] PROVE CacheInv'
    OBVIOUS
  <2>1. thread' = [thread EXCEPT ![th] = t] /\ masks' = Evicted(masks)
    BY <1>3 DEF CheckMask, Goto
  <2>2. t \in Searches /\ t.pc = "newMask" /\ t.count = old.count /\ t.ev = old.ev
    BY <1>1 DEF Searches, SearchSteps, WithEvaluator
  <2>3. /\ masks' \in Seq(MaskEntries) /\ Len(masks') < MaxMasks
        /\ \A i, j \in DOMAIN masks' : masks'[i].count = masks'[j].count => i = j
        /\ \A i \in DOMAIN masks' : \E j \in DOMAIN masks : masks'[i] = masks[j]
        /\ Len(masks) < MaxMasks => masks' = masks
    BY <1>1, <2>1, MaskEvicted DEF MasksOfLayout
  <2>4. Len(masks') \in Nat /\ MaxMasks \in Nat
    BY <2>3, CacheAssumption
  <2>5. MasksOfLayout'
    BY <1>1, <2>3, <2>4 DEF MasksOfLayout, settings
  <2>6. shared => Len(masks) < MaxMasks
    <3>1. ASSUME shared PROVE Len(masks) < MaxMasks
      <4>1. old.count \in IndexCounts
        BY <1>1, <3>1 DEF SearchOK
      <4>2. \A i \in DOMAIN masks :
              masks[i].count \in IndexCounts /\ masks[i].count # old.count
        BY <1>1, <1>3, <3>1 DEF MasksOfLayout, Cached
      <4>3. QED
        BY <1>1, <4>1, <4>2, RoomForIndex DEF MasksOfLayout
    <3>2. QED
      BY <3>1
  <2>7. shared => \A n \in IndexCounts : Cached(n) => Cached(n)'
    BY <2>3, <2>6 DEF Cached
  <2>8. QED
    BY <1>1, <2>1, <2>2, <2>3, <2>5, <2>7, MaskMoves
<1>4. QED
  BY <1>2, <1>3

LEMMA NewMaskStep ==
  ASSUME CacheInv, NEW th \in Threads, NewMask(th) PROVE CacheInv'
<1> DEFINE old == thread[th]
           mask == [count |-> old.count, padded |-> config.padded]
<1> SUFFICES ASSUME NEW t, t = [old EXCEPT !.pc = "masked"] PROVE CacheInv'
  OBVIOUS
<1>1. /\ old \in Searches /\ SearchOK(old) /\ old.pc = "newMask"
      /\ thread' = [thread EXCEPT ![th] = t] /\ masks' = WithMask(masks, mask)
      /\ UNCHANGED <<settings, evaluator, evaluatorKey, native>>
      /\ masks \in Seq(MaskEntries) /\ MasksOfLayout
  BY DEF CacheInv, CacheTypes, NewMask, Goto
<1>2. t \in Searches /\ t.pc = "masked" /\ t.count = old.count /\ t.ev = old.ev
  BY <1>1 DEF Searches, SearchSteps, WithEvaluator
<1>3. /\ mask \in MaskEntries /\ mask.count = old.count /\ mask.padded = config.padded
      /\ shared => old.count \in IndexCounts
  BY <1>1 DEF SearchOK, MaskEntries, Paddings, CacheInv, CacheTypes
<1>4. Cached(old.count) \/ Len(masks) < MaxMasks
  BY <1>1 DEF SearchOK
<1> HIDE DEF mask
<1>5. /\ masks' \in Seq(MaskEntries)
      /\ \A i, j \in DOMAIN masks' : masks'[i].count = masks'[j].count => i = j
      /\ \A i \in DOMAIN masks' :
           masks'[i] = mask \/ \E j \in DOMAIN masks : masks'[i] = masks[j]
      /\ \A j \in DOMAIN masks : \E i \in DOMAIN masks' : masks'[i].count = masks[j].count
      /\ \E i \in DOMAIN masks' : masks'[i].count = mask.count
      /\ \/ Len(masks') = Len(masks)
         \/ Len(masks') = Len(masks) + 1 /\ \A j \in DOMAIN masks : masks[j].count # mask.count
  <2>1. \A i, j \in DOMAIN masks : masks[i].count = masks[j].count => i = j
    BY <1>1 DEF MasksOfLayout
  <2>2. masks \in Seq(MaskEntries) /\ mask \in MaskEntries /\ masks' = WithMask(masks, mask)
    BY <1>1, <1>3
  <2> DEFINE w == WithMask(masks, mask)
  <2>3. /\ w \in Seq(MaskEntries)
        /\ \A i, j \in DOMAIN w : w[i].count = w[j].count => i = j
        /\ \A i \in DOMAIN w : w[i] = mask \/ \E j \in DOMAIN masks : w[i] = masks[j]
        /\ \A j \in DOMAIN masks : \E i \in DOMAIN w : w[i].count = masks[j].count
        /\ \E i \in DOMAIN w : w[i].count = mask.count
        /\ \/ Len(w) = Len(masks)
           \/ Len(w) = Len(masks) + 1 /\ \A j \in DOMAIN masks : masks[j].count # mask.count
    BY ONLY <2>1, <2>2, MaskPut, ZenonT(30)
  <2> HIDE DEF w
  <2>4. masks' = w
    BY <2>2 DEF w
  <2>5. QED
    BY ONLY <2>3, <2>4
<1>6. Len(masks') <= MaxMasks
  <2>1. Len(masks) \in Nat /\ MaxMasks \in Nat /\ Len(masks) <= MaxMasks
    BY <1>1, CacheAssumption DEF MasksOfLayout
  <2>2. QED
    BY <1>3, <1>4, <1>5, <2>1 DEF Cached
<1>7. MasksOfLayout'
  <2>1. ASSUME NEW i \in DOMAIN masks'
        PROVE  /\ masks'[i].padded = config.padded
               /\ shared => masks'[i].count \in IndexCounts
    <3>1. masks'[i] = mask \/ \E j \in DOMAIN masks : masks'[i] = masks[j]
      BY <1>5
    <3>2. QED
      BY <1>1, <1>3, <3>1 DEF MasksOfLayout
  <2>2. QED
    BY <1>1, <1>5, <1>6, <2>1 DEF MasksOfLayout, settings
<1>8. Cached(t.count)'
  BY <1>2, <1>3, <1>5 DEF Cached
<1>9. \A n \in IndexCounts : Cached(n) => Cached(n)'
  <2> SUFFICES ASSUME NEW n \in IndexCounts, Cached(n) PROVE Cached(n)'
    OBVIOUS
  <2>1. PICK j \in DOMAIN masks : masks[j].count = n
    BY DEF Cached
  <2>2. PICK i \in DOMAIN masks' : masks'[i].count = masks[j].count
    BY <1>5
  <2>3. QED
    BY <2>1, <2>2 DEF Cached
<1>10. QED
  BY <1>1, <1>2, <1>5, <1>7, <1>8, <1>9, MaskMoves

(* Keys, configuration and backend change while no search runs.            *)
LEMMA SettingsStep ==
  ASSUME CacheInv, AllIdle, UNCHANGED <<shared, thread>>, CacheTypes',
         KeysFitConfig', KeysBelongTogether', MasksOfLayout',
         evaluator' \in {None, evaluator}, evaluatorKey' \in {None, evaluatorKey},
         native' \in {None, native}
  PROVE  CacheInv'
<1>1. \A th \in Threads : thread[th].pc = "idle"
  BY DEF AllIdle, Idle
<1>2. EvaluatorOfItsKey'
  BY <1>1 DEF CacheInv, EvaluatorOfItsKey
<1>3. Live' \subseteq Live
  BY DEF Live
<1>4. IdentityIsKey'
  BY <1>3 DEF CacheInv, IdentityIsKey
<1>5. OneSearch'
  BY DEF CacheInv, OneSearch
<1>6. \A th \in Threads : SearchOK(thread[th])'
  BY <1>1 DEF SearchOK, WithEvaluator
<1>7. QED
  BY <1>2, <1>4, <1>5, <1>6 DEF CacheInv

LEMMA SettingsSteps ==
  ASSUME CacheInv,
         \/ \E c \in Configs : LoadBFVConfig(c)
         \/ \E k \in BFVKeys, sk \in BFVKeys \cup {None} : LoadBFVKeys(k, sk)
         \/ \E k \in BFVKeys : AssignKeys(k)
         \/ \E b \in Backends : SetBackend(b)
  PROVE  CacheInv'
<1> USE DEF CacheInv
<1>1. ASSUME NEW c \in Configs, LoadBFVConfig(c) PROVE CacheInv'
  <2> USE <1>1 DEF LoadBFVConfig
  <2>1. CacheTypes'
    BY DEF CacheTypes
  <2>2. KeysFitConfig' /\ KeysBelongTogether'
    BY DEF KeysFitConfig, KeysBelongTogether, ConfigAllowed, Covers
  <2>3. MasksOfLayout'
    BY CacheAssumption DEF MasksOfLayout
  <2>4. QED
    BY <2>1, <2>2, <2>3, SettingsStep
<1>2. ASSUME NEW k \in BFVKeys, NEW sk \in BFVKeys \cup {None}, LoadBFVKeys(k, sk)
      PROVE  CacheInv'
  <2> USE <1>2, NewKeyObject DEF LoadBFVKeys
  <2>1. CacheTypes'
    BY DEF CacheTypes
  <2>2. KeysFitConfig' /\ KeysBelongTogether'
    BY DEF KeysFitConfig, KeysBelongTogether, Covers
  <2>3. MasksOfLayout'
    BY DEF MasksOfLayout
  <2>4. QED
    BY <2>1, <2>2, <2>3, SettingsStep
<1>3. ASSUME NEW k \in BFVKeys, AssignKeys(k) PROVE CacheInv'
  <2> USE <1>3, NewKeyObject DEF AssignKeys, caches
  <2>1. CacheTypes'
    BY DEF CacheTypes
  <2>2. KeysFitConfig' /\ KeysBelongTogether'
    BY DEF KeysFitConfig, KeysBelongTogether, Covers
  <2>3. MasksOfLayout'
    BY DEF MasksOfLayout
  <2>4. QED
    BY <2>1, <2>2, <2>3, SettingsStep
<1>4. ASSUME NEW b \in Backends, SetBackend(b) PROVE CacheInv'
  <2> USE <1>4 DEF SetBackend, caches
  <2>1. CacheTypes'
    BY DEF CacheTypes
  <2>2. KeysFitConfig' /\ KeysBelongTogether' /\ MasksOfLayout'
    BY DEF KeysFitConfig, KeysBelongTogether, Covers, MasksOfLayout
  <2>3. QED
    BY <2>1, <2>2, SettingsStep
<1>5. QED
  BY <1>1, <1>2, <1>3, <1>4

LEMMA CacheStep == CacheInv /\ [CacheNext]_cacheVars => CacheInv'
<1> SUFFICES ASSUME CacheInv, [CacheNext]_cacheVars PROVE CacheInv'
  OBVIOUS
<1>1. CASE UNCHANGED cacheVars
  <2>1. /\ CacheTypes' /\ KeysFitConfig' /\ KeysBelongTogether' /\ MasksOfLayout'
        /\ EvaluatorOfItsKey' /\ OneSearch'
    BY <1>1 DEF cacheVars, CacheInv, CacheTypes, KeysFitConfig, Covers, KeysBelongTogether,
                MasksOfLayout, EvaluatorOfItsKey, OneSearch
  <2>2. IdentityIsKey'
    BY <1>1 DEF cacheVars, CacheInv, IdentityIsKey, Live
  <2>3. \A th \in Threads : SearchOK(thread[th])'
    BY <1>1 DEF cacheVars, CacheInv, SearchOK, PresentEvaluator, PresentPlan, Cached
  <2>4. QED
    BY <2>1, <2>2, <2>3 DEF CacheInv
<1>2. ASSUME NEW th \in Threads, NEW n \in Counts, StartSearch(th, n) PROVE CacheInv'
  BY <1>2, SearchStarts DEF StartSearch
<1>3. ASSUME NEW th \in Threads, NEW n \in Counts, NextTile(th, n) PROVE CacheInv'
  <2>1. thread[th].pc = "tile" /\ SearchOK(thread[th])
    BY <1>3 DEF NextTile, CacheInv
  <2>2. publicKey # None
    BY <2>1 DEF SearchOK
  <2>3. QED
    BY <1>3, <2>1, <2>2, SearchStarts DEF NextTile
<1>4. ASSUME NEW th \in Threads, Evaluator(th) \/ Plan(th) \/ Mask(th) \/ EndSearch(th)
      PROVE  CacheInv'
  BY <1>4, SearchStep, BuildStep, AssignStep, PlanStep, CheckMaskStep, NewMaskStep
    DEF Evaluator, Plan, Mask
<1>5. QED
  BY <1>1, <1>2, <1>3, <1>4, SettingsSteps DEF CacheNext

LEMMA CacheInvariant == CacheSpec => []CacheInv
<1>1. ASSUME CacheInit PROVE CacheInv
  <2> USE <1>1 DEF CacheInit
  <2>1. Idle \in Searches /\ Idle.pc = "idle" /\ Idle.ev = None
    BY DEF Idle, Searches, SearchSteps
  <2>2. \A th \in Threads : thread[th] = Idle
    OBVIOUS
  <2>3. CacheTypes
    BY <2>1 DEF CacheTypes
  <2>4. KeysFitConfig /\ KeysBelongTogether /\ EvaluatorOfItsKey
    BY DEF KeysFitConfig, KeysBelongTogether, EvaluatorOfItsKey
  <2>5. MasksOfLayout
    BY CacheAssumption DEF MasksOfLayout
  <2>6. Live = {}
    BY <2>1, <2>2 DEF Live
  <2>7. IdentityIsKey
    BY <2>6 DEF IdentityIsKey
  <2>8. OneSearch /\ \A th \in Threads : SearchOK(thread[th])
    BY <2>1, <2>2 DEF OneSearch, SearchOK, WithEvaluator
  <2>9. QED
    BY <2>3, <2>4, <2>5, <2>7, <2>8 DEF CacheInv
<1>2. QED
  BY <1>1, CacheStep, PTL DEF CacheSpec

(* Whatever was loaded, assigned or switched, and whatever other threads   *)
(* build meanwhile, a tile and a native search are computed with the       *)
(* client's present key, backend and layout, a mask about to be read is    *)
(* there, and the secret key decrypts what is computed.                    *)
THEOREM SearchesUseKeys == CacheSpec => []SearchesUsePresentKeys
<1>1. ASSUME CacheInv PROVE SearchesUsePresentKeys
  <2> USE <1>1 DEF CacheInv
  <2>1. CacheTypeOK
    BY DEF CacheTypes, MasksOfLayout, CacheTypeOK, Searches, SearchSteps, WithEvaluator
  <2>2. TilesUsePresentKeys
    BY DEF TilesUsePresentKeys, SearchOK, WithEvaluator, PresentEvaluator
  <2>3. PlansUsePresentKeys
    BY DEF PlansUsePresentKeys, SearchOK, PresentPlan
  <2>4. MaskPresent
    BY DEF MaskPresent, SearchOK
  <2>5. QED
    BY <2>1, <2>2, <2>3, <2>4 DEF SearchesUsePresentKeys
<1>2. QED
  BY <1>1, CacheInvariant, PTL

-----------------------------------------------------------------------------
(* The CUDA clients *)

(* What a client keeps, whatever was loaded or refused.                    *)
TablesWhole(x) ==
  /\ x.keys = x.hex \/ ~ Fits(x.keys)
  /\ x.gTable # Unset => x.gTable.key = x.hex
  /\ x.noise \in {Unset, x.hex}
  /\ x.ready => x.gTable # Unset /\ x.noise # Unset
  /\ x.device # Unset => x.ready /\ x.device = [g |-> x.gTable, noise |-> x.noise]
  /\ x.chunks \in {0, Rows(x.keyLen)}

(* What it has from its keys on, and from its configuration on, if nothing *)
(* was refused since.                                                      *)
GivenWhole(x) ==
  x.given # "none" =>
    /\ x.hex # Unset /\ x.keys = x.hex /\ Fits(x.hex)
    /\ x.given = "all" => WholeVector(x)
    /\ x.kind = "lookup" /\ x.gTable # Unset => x.gTable.rows = x.chunks

GPUClientWhole(x) ==
  /\ x \in ClientStates
  /\ x.kind = "lookup" => TablesWhole(x)
  /\ GivenWhole(x)

CacheEntries == [key : GPUKeys, len : KeyLens]

GPUInv ==
  /\ gpu \in [Clients -> ClientStates \cup {Unset}]
  /\ returned \in {"none", "done", "refused", "exact", "truncated", "whole", "partial", "garbage"}
  /\ \A c \in Clients : gpu[c] # Unset => GPUClientWhole(gpu[c])
  /\ lru \in Seq(CacheEntries)
  /\ CacheAccounted

LEMMA RowsPositive == ASSUME NEW l \in KeyLens PROVE Rows(l) \in Nat \ {0}
<1> DEFINE n == 2 * l + MessageBits - 1
<1>1. MessageBits \in Nat \ {0} /\ l \in Nat \ {0} /\ n \in Nat /\ n >= MessageBits
  BY GPUAssumption
<1> HIDE DEF n
<1>2. n \div MessageBits \in Nat \ {0}
  <2>1. n \div MessageBits \in Nat /\ n % MessageBits < MessageBits
        /\ n = MessageBits * (n \div MessageBits) + (n % MessageBits)
    BY <1>1
  <2>2. QED
    BY <1>1, <2>1
<1>3. QED
  BY <1>2 DEF Rows, n

(* The chunks of a vector have room for it.                                *)
LEMMA ChunksHoldVector ==
  ASSUME NEW b \in EmbedLens, NEW l \in KeyLens
  PROVE  ChunkNum(b, l) * l >= b
<1>1. b \in Nat \ {0} /\ l \in Nat \ {0}
  BY GPUAssumption
<1> DEFINE q == b \div l
           r == b % l
<1>2. q \in Nat /\ r \in 0..(l - 1) /\ b = l * q + r
  BY <1>1
<1>3. ChunkNum(b, l) = IF b > l THEN q + (IF r # 0 THEN 1 ELSE 0) ELSE 1
  BY DEF ChunkNum
<1> HIDE DEF q, r
<1>4. (q + 1) * l = l * q + l /\ q * l = l * q /\ 1 * l = l
  BY <1>1, <1>2
<1>5. CASE b > l
  <2>1. CASE r = 0
    <3>1. ChunkNum(b, l) = q
      BY <1>2, <1>3, <1>5, <2>1
    <3>2. QED
      BY <1>1, <1>2, <1>4, <2>1, <3>1
  <2>2. CASE r # 0
    <3>1. ChunkNum(b, l) = q + 1
      BY <1>2, <1>3, <1>5, <2>2
    <3>2. QED
      BY <1>1, <1>2, <1>4, <3>1
  <2>3. QED
    BY <2>1, <2>2
<1>6. CASE ~ b > l
  <2>1. ChunkNum(b, l) = 1
    BY <1>3, <1>6
  <2>2. QED
    BY <1>1, <1>4, <1>6, <2>1
<1>7. QED
  BY <1>5, <1>6

(* Taking the element at a position out of a sequence.                     *)
LEMMA WithoutPosition ==
  ASSUME NEW S, NEW s \in Seq(S), NEW i \in DOMAIN s
  PROVE  LET r == RemoveAt(s, i)
         IN  /\ r \in Seq(S) /\ Len(r) = Len(s) - 1
             /\ \A j \in 1..(Len(s) - 1) : r[j] = IF j < i THEN s[j] ELSE s[j + 1]
<1> DEFINE a == SubSeq(s, 1, i - 1)
           b == SubSeq(s, i + 1, Len(s))
           r == RemoveAt(s, i)
<1>1. Len(s) \in Nat /\ i \in 1..Len(s)
  OBVIOUS
<1>2. a \in Seq(S) /\ Len(a) = i - 1 /\ \A j \in 1..(i - 1) : a[j] = s[j]
  BY <1>1
<1>3. b \in Seq(S) /\ Len(b) = Len(s) - i /\ \A j \in 1..(Len(s) - i) : b[j] = s[i + j]
  BY <1>1
<1>4. r = a \o b
  BY DEF RemoveAt
<1> HIDE DEF a, b, r
<1>5. /\ r \in Seq(S) /\ Len(r) = Len(a) + Len(b)
      /\ \A j \in 1..(Len(a) + Len(b)) : r[j] = IF j <= Len(a) THEN a[j] ELSE b[j - Len(a)]
  BY ONLY <1>2, <1>3, <1>4, ConcatProperties
<1>7. ASSUME NEW j \in 1..(Len(s) - 1) PROVE r[j] = IF j < i THEN s[j] ELSE s[j + 1]
  <2>1. CASE j < i
    <3>1. j \in 1..(i - 1) /\ j <= Len(a)
      BY <1>1, <1>2, <2>1
    <3>2. j \in 1..(Len(a) + Len(b)) /\ a[j] = s[j]
      BY <1>1, <1>2, <1>3, <3>1
    <3>3. QED
      BY ONLY <1>5, <2>1, <3>1, <3>2
  <2>2. CASE ~ j < i
    <3>1. j - Len(a) \in 1..(Len(s) - i) /\ ~ j <= Len(a) /\ i + (j - Len(a)) = j + 1
      BY <1>1, <1>2, <2>2
    <3>2. r[j] = b[j - Len(a)]
      <4>1. j \in 1..(Len(a) + Len(b))
        BY <1>1, <1>2, <1>3
      <4>2. QED
        BY ONLY <1>5, <3>1, <4>1
    <3>3. QED
      BY <1>3, <2>2, <3>1, <3>2
  <2>3. QED
    BY <2>1, <2>2
<1>8. QED
  BY <1>1, <1>2, <1>3, <1>5, <1>7 DEF r

(* Moving an element to the end keeps the elements and their number.       *)
LEMMA MovedToEnd ==
  ASSUME NEW S, NEW s \in Seq(S), NEW i \in DOMAIN s, IsInjective(s)
  PROVE  LET t == Append(RemoveAt(s, i), s[i])
         IN  t \in Seq(S) /\ Len(t) = Len(s) /\ IsInjective(t) /\ ToSet(t) = ToSet(s)
<1> DEFINE r == RemoveAt(s, i)
           t == Append(r, s[i])
<1> SUFFICES ASSUME NEW n, n = Len(s)
             PROVE  t \in Seq(S) /\ Len(t) = n /\ IsInjective(t) /\ ToSet(t) = ToSet(s)
  OBVIOUS
<1>1. n \in Nat /\ DOMAIN s = 1..n /\ i \in 1..n /\ s[i] \in S
  OBVIOUS
<1>2. /\ r \in Seq(S) /\ Len(r) = n - 1
      /\ \A j \in 1..(n - 1) : r[j] = IF j < i THEN s[j] ELSE s[j + 1]
  BY WithoutPosition
<1> HIDE DEF r
<1>3. /\ t \in Seq(S) /\ Len(t) = Len(r) + 1 /\ DOMAIN t = 1..Len(t)
      /\ t[Len(r) + 1] = s[i] /\ \A j \in 1..Len(r) : t[j] = r[j]
  BY <1>1, <1>2
<1>4. Len(t) = n /\ DOMAIN t = 1..n /\ t[n] = s[i] /\ \A j \in 1..(n - 1) : t[j] = r[j]
  BY <1>1, <1>2, <1>3
<1> HIDE DEF t
<1> DEFINE from == [j \in 1..n |-> IF j = n THEN i ELSE IF j < i THEN j ELSE j + 1]
<1>5. ASSUME NEW j \in 1..n PROVE from[j] \in 1..n /\ t[j] = s[from[j]]
  <2>1. CASE j = n
    BY <1>1, <1>4, <2>1
  <2>2. CASE j # n
    <3>1. j \in 1..(n - 1) /\ j + 1 \in 1..n
      BY <1>1, <2>2
    <3>2. QED
      BY <1>1, <1>2, <1>4, <2>2, <3>1
  <2>3. QED
    BY <2>1, <2>2
<1>6. \A j, k \in 1..n : from[j] = from[k] => j = k
  BY <1>1
<1>7. ASSUME NEW k \in 1..n PROVE \E j \in 1..n : from[j] = k
  <2>1. CASE k < i
    BY <1>1, <2>1
  <2>2. CASE k = i
    <3>1. n \in 1..n /\ from[n] = k
      BY <1>1, <2>2
    <3>2. QED
      BY <3>1
  <2>3. CASE k > i
    <3>1. k - 1 \in 1..n /\ from[k - 1] = k
      BY <1>1, <2>3
    <3>2. QED
      BY <3>1
  <2>4. QED
    BY <1>1, <2>1, <2>2, <2>3
<1> HIDE DEF from
<1>8. IsInjective(t)
  BY <1>1, <1>4, <1>5, <1>6 DEF IsInjective
<1>9. ASSUME NEW x PROVE x \in ToSet(t) <=> x \in ToSet(s)
  <2>1. x \in ToSet(t) <=> \E j \in 1..n : t[j] = x
    BY <1>4 DEF ToSet
  <2>2. x \in ToSet(s) <=> \E k \in 1..n : s[k] = x
    BY <1>1 DEF ToSet
  <2>3. ASSUME NEW k \in 1..n, s[k] = x PROVE \E j \in 1..n : t[j] = x
    <3>1. PICK j \in 1..n : from[j] = k
      BY <1>7
    <3>2. t[j] = s[from[j]]
      BY <1>5
    <3>3. QED
      BY <2>3, <3>1, <3>2
  <2>4. ASSUME NEW j \in 1..n, t[j] = x PROVE \E k \in 1..n : s[k] = x
    BY <1>5, <2>4
  <2>5. QED
    BY <2>1, <2>2, <2>3, <2>4
<1>10. QED
  BY <1>3, <1>4, <1>8, <1>9

(* The list of ages after a hit, and after a new entry.                    *)
LEMMA TouchedKeeps ==
  ASSUME lru \in Seq(CacheEntries), IsInjective(lru), NEW e \in ToSet(lru)
  PROVE  LET t == Touched(e)
         IN  /\ t \in Seq(CacheEntries) /\ Len(t) = Len(lru)
             /\ IsInjective(t) /\ ToSet(t) = ToSet(lru)
<1> DEFINE i == CHOOSE i \in DOMAIN lru : lru[i] = e
<1>1. i \in DOMAIN lru /\ lru[i] = e
  BY DEF ToSet
<1>2. Touched(e) = Append(RemoveAt(lru, i), lru[i])
  BY <1>1 DEF Touched
<1> HIDE DEF i
<1>3. QED
  BY <1>1, <1>2, MovedToEnd

LEMMA StoredKeeps ==
  ASSUME NEW s \in Seq(CacheEntries), IsInjective(s), Len(s) <= CacheMax, s = lru,
         NEW e \in CacheEntries, e \notin ToSet(s)
  PROVE  LET t == Stored(e)
         IN  /\ t \in Seq(CacheEntries) /\ Len(t) <= CacheMax
             /\ IsInjective(t) /\ ToSet(t) \subseteq ToSet(s) \cup {e}
<1> DEFINE l == Append(s, e)
           t == Stored(e)
<1>1. Len(s) \in Nat /\ DOMAIN s = 1..Len(s) /\ CacheMax \in Nat \ {0}
  BY GPUAssumption
<1>2. /\ l \in Seq(CacheEntries) /\ Len(l) = Len(s) + 1 /\ DOMAIN l = 1..(Len(s) + 1)
      /\ l[Len(s) + 1] = e /\ \A j \in 1..Len(s) : l[j] = s[j]
  BY <1>1
<1>3. t = IF Len(s) < CacheMax THEN l ELSE Tail(l)
  BY DEF Stored
<1> HIDE DEF l, t
<1>4. IsInjective(l)
  <2> SUFFICES ASSUME NEW j \in DOMAIN l, NEW k \in DOMAIN l, l[j] = l[k] PROVE j = k
    BY DEF IsInjective
  <2>1. \A m \in 1..Len(s) : s[m] # e
    BY <1>1 DEF ToSet
  <2>2. (j \in 1..Len(s) \/ j = Len(s) + 1) /\ (k \in 1..Len(s) \/ k = Len(s) + 1)
    BY <1>1, <1>2
  <2>3. QED
    BY <1>1, <1>2, <2>1, <2>2 DEF IsInjective
<1>5. \A j \in DOMAIN l : l[j] \in ToSet(s) \cup {e}
  <2> SUFFICES ASSUME NEW j \in DOMAIN l PROVE l[j] \in ToSet(s) \cup {e}
    OBVIOUS
  <2>1. j \in 1..Len(s) \/ j = Len(s) + 1
    BY <1>1, <1>2
  <2>2. QED
    BY <1>1, <1>2, <2>1 DEF ToSet
<1>6. CASE Len(s) < CacheMax
  <2>1. t = l /\ Len(l) <= CacheMax
    BY <1>1, <1>2, <1>3, <1>6
  <2>2. QED
    BY <1>2, <1>4, <1>5, <2>1 DEF ToSet, t
<1>7. CASE ~ Len(s) < CacheMax
  <2>1. /\ t \in Seq(CacheEntries) /\ Len(t) = Len(s) /\ DOMAIN t = 1..Len(s)
        /\ \A j \in 1..Len(s) : t[j] = l[j + 1]
    BY <1>1, <1>2, <1>3, <1>7
  <2>2. \A j \in 1..Len(s) : j + 1 \in DOMAIN l
    BY <1>1, <1>2
  <2>3. IsInjective(t)
    <3> SUFFICES ASSUME NEW j \in 1..Len(s), NEW k \in 1..Len(s), t[j] = t[k] PROVE j = k
      BY <2>1 DEF IsInjective
    <3>1. j + 1 = k + 1
      BY <1>4, <2>1, <2>2 DEF IsInjective
    <3>2. QED
      BY <1>1, <3>1
  <2>4. ToSet(t) \subseteq ToSet(s) \cup {e}
    BY <1>5, <2>1, <2>2 DEF ToSet
  <2>5. QED
    BY <2>1, <2>3, <2>4 DEF t
<1>8. QED
  BY <1>6, <1>7

(* What get_cached_g_table gives a client: the table it has, or one of its *)
(* key and key length, from the cache or computed.                         *)
Gives(got, x) ==
  got.done => /\ got.table \in Tables /\ got.table.key = x.hex
              /\ \/ got.table = x.gTable
                 \/ x.gTable = Unset /\ got.table.rows = Rows(x.keyLen)

LEMMA CachedGives ==
  ASSUME CacheAccounted, NEW x \in ClientStates, TablesWhole(x), x.hex # Unset
  PROVE  /\ Gives(CachedTables(x), x)
         /\ Fits(x.keys) => CachedTables(x).done
<1> DEFINE e == Entry(x)
           got == CachedTables(x)
           hit == x.gTable = Unset /\ e \in DOMAIN cache
           computed == x.gTable = Unset /\ ~ hit /\ Fits(x.keys)
           table == [key |-> x.hex, rows |-> Rows(x.keyLen)]
<1>1. /\ x.hex \in GPUKeys /\ x.keys \in GPUKeys \cup {Unset} /\ x.keyLen \in KeyLens
      /\ x.gTable \in Tables \cup {Unset}
  BY DEF ClientStates
<1>2. /\ table \in Tables /\ table.key = x.hex /\ table.rows = Rows(x.keyLen)
  BY <1>1 DEF Tables
<1>3. hit => cache[e] = table
  BY DEF CacheAccounted, Entry
<1>4. computed => x.keys = x.hex
  BY DEF TablesWhole
<1>5. /\ got.done = (x.gTable # Unset \/ hit \/ computed)
      /\ got.table = IF computed THEN [key |-> x.keys, rows |-> Rows(x.keyLen)]
                     ELSE IF hit THEN cache[e] ELSE x.gTable
  BY DEF CachedTables
<1>6. got.table = IF computed \/ hit THEN table ELSE x.gTable
  BY <1>3, <1>4, <1>5
<1> HIDE DEF got, e, table
<1>7. Fits(x.keys) => got.done
  BY <1>5
<1>8. Gives(got, x)
  <2>1. CASE x.gTable # Unset
    <3>1. got.table = x.gTable /\ got.table \in Tables /\ got.table.key = x.hex
      BY <1>1, <1>6, <2>1 DEF TablesWhole
    <3>2. QED
      BY <3>1 DEF Gives
  <2>2. CASE x.gTable = Unset
    <3>1. got.done => got.table = table
      BY <1>5, <1>6, <2>2
    <3>2. QED
      BY <1>2, <2>2, <3>1 DEF Gives
  <2>3. QED
    BY <2>1, <2>2
<1>9. QED
  BY <1>7, <1>8 DEF got

(* The cache stays in step with its list.                                  *)
LEMMA CacheKept ==
  ASSUME CacheAccounted, lru \in Seq(CacheEntries),
         NEW x \in ClientStates, TablesWhole(x), x.hex # Unset,
         cache' = CachedTables(x).cache, lru' = CachedTables(x).lru
  PROVE  lru' \in Seq(CacheEntries) /\ CacheAccounted'
<1> DEFINE e == Entry(x)
           hit == x.gTable = Unset /\ e \in DOMAIN cache
           computed == x.gTable = Unset /\ ~ hit /\ Fits(x.keys)
           table == [key |-> x.keys, rows |-> Rows(x.keyLen)]
<1>1. /\ cache' = IF computed
                  THEN [f \in ToSet(Stored(e)) |-> IF f = e THEN table ELSE cache[f]]
                  ELSE cache
      /\ lru' = IF computed THEN Stored(e) ELSE IF hit THEN Touched(e) ELSE lru
  BY DEF CachedTables
<1>2. /\ DOMAIN cache = ToSet(lru) /\ IsInjective(lru) /\ Len(lru) <= CacheMax
      /\ \A f \in DOMAIN cache : cache[f] = [key |-> f.key, rows |-> Rows(f.len)]
  BY DEF CacheAccounted
<1>3. e \in CacheEntries /\ e.key = x.hex /\ e.len = x.keyLen
  BY DEF Entry, CacheEntries, ClientStates
<1> HIDE DEF e
<1>4. CASE computed
  <2>1. x.keys = x.hex
    BY <1>4 DEF TablesWhole
  <2>2. table = [key |-> e.key, rows |-> Rows(e.len)]
    BY <1>3, <2>1
  <2> HIDE DEF table
  <2>3. e \notin ToSet(lru)
    BY <1>2, <1>4
  <2>4. /\ lru' \in Seq(CacheEntries) /\ Len(lru') <= CacheMax
        /\ IsInjective(lru') /\ ToSet(lru') \subseteq ToSet(lru) \cup {e}
    BY <1>1, <1>2, <1>3, <1>4, <2>3, StoredKeeps
  <2>5. cache' = [f \in ToSet(lru') |-> IF f = e THEN table ELSE cache[f]]
    BY <1>1, <1>4
  <2>6. \A f \in DOMAIN cache' : cache'[f] = [key |-> f.key, rows |-> Rows(f.len)]
    BY <1>2, <2>2, <2>4, <2>5
  <2>7. DOMAIN cache' = ToSet(lru')
    BY <2>5
  <2>8. QED
    BY <2>4, <2>6, <2>7 DEF CacheAccounted
<1>5. CASE hit
  <2>1. cache' = cache /\ lru' = Touched(e) /\ e \in ToSet(lru)
    BY <1>1, <1>2, <1>5
  <2>2. /\ lru' \in Seq(CacheEntries) /\ Len(lru') = Len(lru)
        /\ IsInjective(lru') /\ ToSet(lru') = ToSet(lru)
    BY <1>2, <2>1, TouchedKeeps
  <2>3. QED
    BY <1>2, <2>1, <2>2 DEF CacheAccounted
<1>6. CASE ~ computed /\ ~ hit
  BY <1>1, <1>6 DEF CacheAccounted
<1>7. QED
  BY <1>4, <1>5, <1>6

(* A record with the fields of a client, all of their types, is one.       *)
FieldsTyped(r) ==
  /\ r.kind \in Kinds /\ r.keys \in GPUKeys \cup {Unset} /\ r.hex \in GPUKeys \cup {Unset}
  /\ r.embed \in EmbedLens /\ r.keyLen \in KeyLens /\ r.chunkLen \in KeyLens
  /\ r.chunkNum \in {ChunkNum(b, l) : b \in EmbedLens, l \in KeyLens}
  /\ r.chunks \in {0} \cup {Rows(l) : l \in KeyLens} /\ r.gTable \in Tables \cup {Unset}
  /\ r.noise \in GPUKeys \cup {Unset} /\ r.ready \in BOOLEAN
  /\ r.device \in [g : Tables, noise : GPUKeys] \cup {Unset}
  /\ r.given \in {"none", "keys", "all"}

LEMMA ClientByFields ==
  ASSUME NEW x \in ClientStates, NEW r,
         DOMAIN r = DOMAIN x, r = [f \in DOMAIN r |-> r[f]], FieldsTyped(r)
  PROVE  r \in ClientStates
  BY DEF ClientStates, FieldsTyped

LEMMA FieldsOfClient == ASSUME NEW x \in ClientStates PROVE FieldsTyped(x)
  BY DEF ClientStates, FieldsTyped

LEMMA FullFields ==
  ASSUME NEW t \in ClientStates, NEW noise \in GPUKeys \cup {Unset}
  PROVE  LET f == [t EXCEPT !.noise = noise, !.ready = TRUE]
         IN  /\ f \in ClientStates /\ f.chunks = t.chunks
             /\ f.kind = t.kind /\ f.keys = t.keys /\ f.hex = t.hex
             /\ f.embed = t.embed /\ f.keyLen = t.keyLen /\ f.chunkLen = t.chunkLen
             /\ f.chunkNum = t.chunkNum /\ f.gTable = t.gTable
             /\ f.noise = noise /\ f.ready
             /\ f.device = t.device /\ f.given = t.given
<1> DEFINE f == [t EXCEPT !.noise = noise, !.ready = TRUE]
<1>1. DOMAIN f = DOMAIN t /\ f = [a \in DOMAIN f |-> f[a]]
  OBVIOUS
<1>2. /\ f.chunks = t.chunks /\ f.kind = t.kind /\ f.keys = t.keys /\ f.hex = t.hex
      /\ f.embed = t.embed /\ f.keyLen = t.keyLen /\ f.chunkLen = t.chunkLen
      /\ f.chunkNum = t.chunkNum /\ f.gTable = t.gTable /\ f.noise = noise
      /\ f.ready /\ f.device = t.device /\ f.given = t.given
  BY DEF ClientStates
<1>3. FieldsTyped(f)
  BY FieldsOfClient DEF ClientStates, FieldsTyped
<1> HIDE DEF f
<1>4. f \in ClientStates
  BY <1>1, <1>3, ClientByFields
<1>5. QED
  BY <1>2, <1>4 DEF f

(* A client after ensure_tables_ready_.                                    *)
LEMMA EnsuredWhole ==
  ASSUME NEW x, GPUClientWhole(x), x.kind = "lookup", x.hex # Unset, NEW got, Gives(got, x),
         got.done \in BOOLEAN, Fits(x.keys) => got.done
  PROVE  LET e == Ensured(x, got)
         IN  /\ e.x \in ClientStates /\ TablesWhole(e.x) /\ GivenWhole(e.x)
             /\ e.x.kind = "lookup" /\ e.x.hex = x.hex
             /\ e.x.given = x.given
             /\ e.done \in BOOLEAN
             /\ e.done => e.x.ready
             /\ Fits(x.keys) => e.done
<1> DEFINE chunked == IF x.chunks = 0 THEN [x EXCEPT !.chunks = Rows(x.keyLen)] ELSE x
           tabled == [chunked EXCEPT !.gTable = got.table]
           full == [tabled EXCEPT !.noise = IF @ = Unset THEN x.keys ELSE @, !.ready = TRUE]
<1>1. x \in ClientStates /\ TablesWhole(x) /\ GivenWhole(x)
  BY DEF GPUClientWhole
<1>2. /\ x.keyLen \in KeyLens /\ Rows(x.keyLen) \in Nat \ {0} /\ Unset \notin Tables
      /\ x.hex \in GPUKeys /\ x.keys \in GPUKeys \cup {Unset} /\ x.ready \in BOOLEAN
  <2>1. x.keyLen \in KeyLens /\ x.hex \in GPUKeys
        /\ x.keys \in GPUKeys \cup {Unset} /\ x.ready \in BOOLEAN
    BY <1>1 DEF ClientStates
  <2>2. Unset \notin Tables
    BY RowsPositive, GPUAssumption DEF Tables
  <2>3. QED
    BY <2>1, <2>2, RowsPositive
<1>3. /\ chunked \in ClientStates
      /\ chunked.chunks = IF x.chunks = 0 THEN Rows(x.keyLen) ELSE x.chunks
      /\ chunked.kind = x.kind /\ chunked.keys = x.keys /\ chunked.hex = x.hex
      /\ chunked.embed = x.embed /\ chunked.keyLen = x.keyLen /\ chunked.chunkLen = x.chunkLen
      /\ chunked.chunkNum = x.chunkNum /\ chunked.gTable = x.gTable /\ chunked.noise = x.noise
      /\ chunked.ready = x.ready /\ chunked.device = x.device /\ chunked.given = x.given
  BY <1>1, <1>2 DEF ClientStates
<1> HIDE DEF chunked
<1>4. x.gTable # Unset /\ x.given # "none" => chunked.chunks = x.chunks
  <2>1. x.gTable \in Tables => x.gTable.rows # 0
    BY RowsPositive DEF Tables
  <2>2. x.gTable \in Tables \cup {Unset}
    BY <1>1 DEF ClientStates
  <2>3. QED
    BY <1>1, <1>3, <2>1, <2>2 DEF GivenWhole
<1>5. TablesWhole(chunked) /\ GivenWhole(chunked)
  BY <1>1, <1>3, <1>4 DEF TablesWhole, GivenWhole, WholeVector
<1>6. CASE x.ready
  <2>1. Ensured(x, got) = [done |-> TRUE, x |-> x]
    BY <1>6 DEF Ensured
  <2>2. QED
    BY <1>1, <1>6, <2>1
<1>7. CASE ~ x.ready /\ ~ got.done
  <2>1. Ensured(x, got) = [done |-> FALSE, x |-> chunked]
    BY <1>7 DEF Ensured, chunked
  <2>2. QED
    BY <1>3, <1>5, <1>7, <2>1
<1>8. CASE ~ x.ready /\ got.done
  <2>1. /\ got.table \in Tables /\ got.table.key = x.hex /\ x.device = Unset
        /\ \/ got.table = x.gTable
           \/ x.gTable = Unset /\ got.table.rows = Rows(x.keyLen)
    BY <1>1, <1>8 DEF Gives, TablesWhole
  <2>2. /\ tabled \in ClientStates /\ tabled.chunks = chunked.chunks
        /\ tabled.kind = x.kind /\ tabled.keys = x.keys /\ tabled.hex = x.hex
        /\ tabled.embed = x.embed /\ tabled.keyLen = x.keyLen /\ tabled.chunkLen = x.chunkLen
        /\ tabled.chunkNum = x.chunkNum /\ tabled.gTable = got.table /\ tabled.noise = x.noise
        /\ tabled.ready = x.ready /\ tabled.device = x.device /\ tabled.given = x.given
    BY <1>3, <2>1 DEF ClientStates
  <2> HIDE DEF tabled
  <2>3. x.given # "none" => got.table.rows = chunked.chunks
    BY <1>1, <1>2, <1>3, <1>4, <2>1 DEF TablesWhole, GivenWhole
  <2>4. TablesWhole(tabled) /\ GivenWhole(tabled)
    BY <1>1, <1>3, <1>5, <1>8, <2>1, <2>2, <2>3 DEF TablesWhole, GivenWhole, WholeVector
  <2>5. CASE x.noise = Unset /\ ~ Fits(x.keys)
    <3>1. Ensured(x, got) = [done |-> FALSE, x |-> tabled]
      BY <1>8, <2>5 DEF Ensured, tabled, chunked
    <3>2. QED
      BY <2>2, <2>4, <2>5, <3>1
  <2>6. CASE ~ (x.noise = Unset /\ ~ Fits(x.keys))
    <3>1. Ensured(x, got) = [done |-> TRUE, x |-> full]
      BY <1>8, <2>6 DEF Ensured, tabled, chunked
    <3>2. x.noise = Unset => x.keys = x.hex
      BY <1>1, <2>6 DEF TablesWhole
    <3> DEFINE noise == IF x.noise = Unset THEN x.hex ELSE x.noise
    <3>3. tabled.noise = x.noise /\ noise \in GPUKeys \cup {Unset}
      BY <1>2, <2>2 DEF ClientStates
    <3>4. full = [tabled EXCEPT !.noise = noise, !.ready = TRUE]
      BY <3>2, <3>3
    <3>5. TablesWhole(x) => noise = x.hex
      BY DEF TablesWhole
    <3> HIDE DEF full, noise
    <3>6. /\ full \in ClientStates /\ full.chunks = chunked.chunks
          /\ full.kind = x.kind /\ full.keys = x.keys /\ full.hex = x.hex
          /\ full.embed = x.embed /\ full.keyLen = x.keyLen /\ full.chunkLen = x.chunkLen
          /\ full.chunkNum = x.chunkNum /\ full.gTable = got.table
          /\ full.noise = noise /\ full.ready
          /\ full.device = x.device /\ full.given = x.given
      <4>1. tabled \in ClientStates /\ noise \in GPUKeys \cup {Unset}
        BY <2>2, <3>3
      <4>2. /\ full \in ClientStates /\ full.chunks = tabled.chunks
            /\ full.kind = tabled.kind /\ full.keys = tabled.keys /\ full.hex = tabled.hex
            /\ full.embed = tabled.embed /\ full.keyLen = tabled.keyLen
            /\ full.chunkLen = tabled.chunkLen
            /\ full.chunkNum = tabled.chunkNum /\ full.gTable = tabled.gTable
            /\ full.noise = noise /\ full.ready
            /\ full.device = tabled.device /\ full.given = tabled.given
        BY ONLY <4>1, <3>4, FullFields, ZenonT(30)
      <4>3. QED
        BY ONLY <2>2, <4>2
    <3>7. full.noise = x.hex /\ x.hex # Unset
      BY <1>1, <3>5, <3>6
    <3>8. TablesWhole(full) /\ GivenWhole(full)
      BY <1>2, <2>1, <2>2, <2>3, <2>4, <3>6, <3>7 DEF TablesWhole, GivenWhole, WholeVector
    <3>9. QED
      BY <3>1, <3>6, <3>8
  <2>7. QED
    BY <2>5, <2>6
<1>9. QED
  BY <1>2, <1>6, <1>7, <1>8

LEMMA ConstructedWhole ==
  ASSUME NEW kind \in Kinds, NEW k \in GPUKeys \cup {Unset}, NEW len \in KeyLens,
         NEW embed \in EmbedLens, k # Unset => Fits(k)
  PROVE  GPUClientWhole(Constructed(kind, k, len, embed))
<1> DEFINE x == Constructed(kind, k, len, embed)
           tabled == kind = "lookup" /\ k # Unset
<1>1. /\ x.kind = kind /\ x.keys = k /\ x.hex = k /\ x.embed = embed /\ x.keyLen = len
      /\ x.chunkLen = len /\ x.chunkNum = ChunkNum(embed, len)
      /\ x.chunks = (IF tabled THEN Rows(len) ELSE 0)
      /\ x.gTable = (IF tabled THEN [key |-> k, rows |-> Rows(len)] ELSE Unset)
      /\ x.noise = (IF tabled THEN k ELSE Unset) /\ (x.ready <=> tabled)
      /\ x.device = Unset /\ x.given = (IF k = Unset THEN "none" ELSE "all")
  BY DEF Constructed
<1>2. Unset \notin Tables /\ Unset \notin GPUKeys
  BY RowsPositive, GPUAssumption DEF Tables
<1>3. tabled => [key |-> k, rows |-> Rows(len)] \in Tables
  BY DEF Tables
<1>4. x \in ClientStates
  <2>1. \A c, g, n, d : /\ c \in {0} \cup {Rows(l) : l \in KeyLens}
                        /\ g \in Tables \cup {Unset} /\ n \in GPUKeys \cup {Unset}
                        /\ d \in {"none", "keys", "all"}
          => [kind |-> kind, keys |-> k, hex |-> k, embed |-> embed, keyLen |-> len,
              chunkLen |-> len, chunkNum |-> ChunkNum(embed, len), chunks |-> c,
              gTable |-> g, noise |-> n, ready |-> tabled, device |-> Unset, given |-> d]
             \in ClientStates
    BY DEF ClientStates
  <2>2. QED
    BY <1>3, <2>1 DEF Constructed
<1> HIDE DEF x
<1>5. kind = "lookup" => TablesWhole(x)
  BY <1>1, <1>2, <1>3 DEF TablesWhole
<1>6. WholeVector(x)
  BY <1>1, ChunksHoldVector DEF WholeVector
<1>7. GivenWhole(x)
  BY <1>1, <1>2, <1>6 DEF GivenWhole
<1>8. QED
  BY <1>1, <1>4, <1>5, <1>7 DEF GPUClientWhole, x

LEMMA KeysWhole ==
  ASSUME NEW x, GPUClientWhole(x), NEW k \in GPUKeys
  PROVE  /\ Fits(k) => GPUClientWhole(WithGPUKeys(x, k))
         /\ ~ Fits(k) => GPUClientWhole(WithRefusedKeys(x, k))
<1>1. x \in ClientStates /\ Unset \notin GPUKeys
  BY GPUAssumption DEF GPUClientWhole
<1>2. ASSUME Fits(k) PROVE GPUClientWhole(WithGPUKeys(x, k))
  <2> DEFINE r == WithGPUKeys(x, k)
  <2>1. DOMAIN r = DOMAIN x /\ r = [f \in DOMAIN r |-> r[f]]
    BY DEF WithGPUKeys
  <2>2. /\ r.kind = x.kind /\ r.keys = k /\ r.hex = k /\ r.embed = x.embed
        /\ r.keyLen = x.keyLen /\ r.chunkLen = x.chunkLen /\ r.chunkNum = x.chunkNum
        /\ r.chunks = x.chunks /\ r.gTable = Unset /\ r.noise = Unset /\ ~ r.ready
        /\ r.device = Unset /\ r.given = "keys"
    BY <1>1 DEF ClientStates, WithGPUKeys
  <2>3. FieldsTyped(r)
    BY <1>1, FieldsOfClient DEF ClientStates, WithGPUKeys, FieldsTyped
  <2> HIDE DEF r
  <2>4. r \in ClientStates
    BY <1>1, <2>1, <2>3, ClientByFields
  <2>5. x.kind = "lookup" => TablesWhole(r)
    BY <2>2 DEF GPUClientWhole, TablesWhole
  <2>6. GivenWhole(r)
    BY <1>1, <1>2, <2>2 DEF GivenWhole
  <2>7. QED
    BY <2>2, <2>4, <2>5, <2>6 DEF GPUClientWhole, r
<1>3. ASSUME ~ Fits(k) PROVE GPUClientWhole(WithRefusedKeys(x, k))
  <2>1. CASE x.hex = Unset
    BY <2>1 DEF WithRefusedKeys
  <2>2. CASE x.hex # Unset /\ x.kind = "lookup"
    <3> DEFINE r == [x EXCEPT !.keys = k, !.given = "none"]
    <3>1. DOMAIN r = DOMAIN x /\ r = [f \in DOMAIN r |-> r[f]]
      OBVIOUS
    <3>2. /\ r.kind = x.kind /\ r.keys = k /\ r.hex = x.hex /\ r.keyLen = x.keyLen
          /\ r.chunks = x.chunks /\ r.gTable = x.gTable /\ r.noise = x.noise
          /\ (r.ready <=> x.ready) /\ r.device = x.device /\ r.given = "none"
      BY <1>1 DEF ClientStates
    <3>3. FieldsTyped(r)
      BY <1>1, FieldsOfClient DEF ClientStates, FieldsTyped
    <3>4. WithRefusedKeys(x, k) = r
      BY <2>2 DEF WithRefusedKeys
    <3> HIDE DEF r
    <3>5. r \in ClientStates
      BY <1>1, <3>1, <3>3, ClientByFields
    <3>6. TablesWhole(r)
      BY <1>3, <2>2, <3>2 DEF GPUClientWhole, TablesWhole
    <3>7. QED
      BY <3>2, <3>4, <3>5, <3>6 DEF GPUClientWhole, GivenWhole
  <2>3. CASE x.hex # Unset /\ x.kind # "lookup"
    <3> DEFINE r == [x EXCEPT !.hex = k, !.given = "none"]
    <3>1. DOMAIN r = DOMAIN x /\ r = [f \in DOMAIN r |-> r[f]]
      OBVIOUS
    <3>2. r.kind = x.kind /\ r.given = "none"
      BY <1>1 DEF ClientStates
    <3>3. FieldsTyped(r)
      BY <1>1, FieldsOfClient DEF ClientStates, FieldsTyped
    <3>4. WithRefusedKeys(x, k) = r
      BY <2>3 DEF WithRefusedKeys
    <3> HIDE DEF r
    <3>5. r \in ClientStates
      BY <1>1, <3>1, <3>3, ClientByFields
    <3>6. QED
      BY <2>3, <3>2, <3>4, <3>5 DEF GPUClientWhole, GivenWhole
  <2>4. QED
    BY <2>1, <2>2, <2>3
<1>4. QED
  BY <1>2, <1>3

(* The client that LoadGPUConfig leaves.                                   *)
Configured(x, s, rows) ==
  LET chunked == [Sized(x, s) EXCEPT !.chunks = s.chunks, !.device = Unset]
  IN  IF s.keyLen > MaxKeyLen THEN [x EXCEPT !.embed = s.embed, !.given = "none"]
      ELSE IF x.kind = "lookup" /\ rows # 0 /\ rows < s.chunks
      THEN [chunked EXCEPT !.given = "none"]
      ELSE [(IF x.kind = "plain" THEN Sized(x, s) ELSE WithTables(chunked, s, rows))
              EXCEPT !.given = IF @ = "keys" THEN "all" ELSE @]

LEMMA ConfiguredWhole ==
  ASSUME NEW x, GPUClientWhole(x), NEW s \in GPUConfigs, NEW rows,
         x.kind = "lookup" => x.hex # Unset
  PROVE  GPUClientWhole(Configured(x, s, rows))
<1> DEFINE r == Configured(x, s, rows)
           sized == Sized(x, s)
           chunked == [sized EXCEPT !.chunks = s.chunks, !.device = Unset]
           after == IF x.given = "keys" THEN "all" ELSE x.given
<1>1. /\ x \in ClientStates /\ Unset \notin GPUKeys /\ Unset \notin Tables
      /\ GivenWhole(x) /\ (x.kind = "lookup" => TablesWhole(x))
  BY RowsPositive, GPUAssumption DEF GPUClientWhole, Tables
<1>2. /\ s.embed \in EmbedLens /\ s.keyLen \in KeyLens
      /\ s.chunks \in {0, Rows(s.keyLen)} /\ Rows(s.keyLen) \in Nat \ {0}
  BY RowsPositive DEF GPUConfigs
<1>3. ChunkNum(s.embed, s.keyLen) * s.keyLen >= s.embed
  BY <1>2, ChunksHoldVector
<1>4. DOMAIN sized = DOMAIN x /\ sized = [f \in DOMAIN sized |-> sized[f]]
  BY DEF Sized
<1>5. /\ sized.kind = x.kind /\ sized.keys = x.keys /\ sized.hex = x.hex
      /\ sized.embed = s.embed /\ sized.keyLen = s.keyLen /\ sized.chunkLen = s.keyLen
      /\ sized.chunkNum = ChunkNum(s.embed, s.keyLen) /\ sized.chunks = x.chunks
      /\ sized.gTable = x.gTable /\ sized.noise = x.noise /\ (sized.ready <=> x.ready)
      /\ sized.device = x.device /\ sized.given = x.given
  BY <1>1 DEF ClientStates, Sized
<1>6. FieldsTyped(sized)
  BY <1>1, <1>2, FieldsOfClient DEF ClientStates, FieldsTyped, Sized
<1> HIDE DEF sized
<1>7. sized \in ClientStates
  BY <1>1, <1>4, <1>6, ClientByFields
<1>8. DOMAIN chunked = DOMAIN sized /\ chunked = [f \in DOMAIN chunked |-> chunked[f]]
  OBVIOUS
<1>9. /\ chunked.kind = x.kind /\ chunked.keys = x.keys /\ chunked.hex = x.hex
      /\ chunked.embed = s.embed /\ chunked.keyLen = s.keyLen /\ chunked.chunkLen = s.keyLen
      /\ chunked.chunkNum = ChunkNum(s.embed, s.keyLen) /\ chunked.chunks = s.chunks
      /\ chunked.gTable = x.gTable /\ chunked.noise = x.noise /\ (chunked.ready <=> x.ready)
      /\ chunked.device = Unset /\ chunked.given = x.given
  BY <1>5, <1>7 DEF ClientStates
<1>10. FieldsTyped(chunked)
  BY <1>2, <1>7, FieldsOfClient DEF ClientStates, FieldsTyped
<1> HIDE DEF chunked
<1>11. chunked \in ClientStates
  BY <1>7, <1>8, <1>10, ClientByFields
<1>12. CASE s.keyLen > MaxKeyLen
  <2> DEFINE w == [x EXCEPT !.embed = s.embed, !.given = "none"]
  <2>1. DOMAIN w = DOMAIN x /\ w = [f \in DOMAIN w |-> w[f]]
    OBVIOUS
  <2>2. /\ w.kind = x.kind /\ w.keys = x.keys /\ w.hex = x.hex /\ w.keyLen = x.keyLen
        /\ w.chunks = x.chunks /\ w.gTable = x.gTable /\ w.noise = x.noise
        /\ (w.ready <=> x.ready) /\ w.device = x.device /\ w.given = "none"
    BY <1>1 DEF ClientStates
  <2>3. FieldsTyped(w)
    BY <1>1, <1>2, FieldsOfClient DEF ClientStates, FieldsTyped
  <2>4. r = w
    BY <1>12 DEF Configured
  <2> HIDE DEF w, r
  <2>5. w \in ClientStates
    BY <1>1, <2>1, <2>3, ClientByFields
  <2>6. x.kind = "lookup" => TablesWhole(w)
    BY <1>1, <2>2 DEF TablesWhole
  <2>7. QED
    BY <2>2, <2>4, <2>5, <2>6 DEF GPUClientWhole, GivenWhole, r
<1>13. CASE ~ s.keyLen > MaxKeyLen /\ x.kind = "lookup" /\ rows # 0 /\ rows < s.chunks
  <2> DEFINE w == [chunked EXCEPT !.given = "none"]
  <2>1. /\ w \in ClientStates
        /\ w.kind = x.kind /\ w.keys = x.keys /\ w.hex = x.hex /\ w.keyLen = s.keyLen
        /\ w.chunks = s.chunks /\ w.gTable = x.gTable /\ w.noise = x.noise
        /\ (w.ready <=> x.ready) /\ w.device = Unset /\ w.given = "none"
    BY <1>9, <1>11 DEF ClientStates
  <2>2. r = w
    BY <1>13 DEF Configured, chunked, sized
  <2> HIDE DEF w, r
  <2>3. TablesWhole(w)
    BY <1>1, <1>2, <1>13, <2>1 DEF TablesWhole
  <2>4. QED
    BY <2>1, <2>2, <2>3 DEF GPUClientWhole, GivenWhole, r
<1>14. CASE ~ s.keyLen > MaxKeyLen /\ x.kind = "plain"
  <2> DEFINE w == [sized EXCEPT !.given = IF @ = "keys" THEN "all" ELSE @]
  <2>1. after \in {"none", "keys", "all"} /\ w = [sized EXCEPT !.given = after]
    BY <1>1, <1>5 DEF ClientStates
  <2>2. r = w
    BY <1>14 DEF Configured, sized
  <2> HIDE DEF w, r, after
  <2>3. /\ w \in ClientStates /\ w.kind = "plain" /\ w.keys = x.keys /\ w.hex = x.hex
        /\ w.embed = s.embed /\ w.chunkLen = s.keyLen
        /\ w.chunkNum = ChunkNum(s.embed, s.keyLen) /\ w.given = after
    BY <1>5, <1>7, <1>14, <2>1 DEF ClientStates
  <2>4. after # "none" => x.given # "none"
    BY DEF after
  <2>5. WholeVector(w)
    BY <1>3, <2>3 DEF WholeVector
  <2>6. GivenWhole(w)
    BY <1>1, <2>3, <2>4, <2>5 DEF GivenWhole
  <2>7. QED
    BY <2>2, <2>3, <2>6 DEF GPUClientWhole, r
<1>15. CASE /\ ~ s.keyLen > MaxKeyLen /\ x.kind # "plain"
            /\ ~ (x.kind = "lookup" /\ rows # 0 /\ rows < s.chunks)
  <2> DEFINE table == IF rows = 0 \/ s.chunks = 0 THEN Unset
                      ELSE [key |-> x.hex, rows |-> s.chunks]
             noise == IF rows = 0 THEN Unset ELSE x.hex
             ready == rows # 0 /\ s.chunks # 0
             t == WithTables(chunked, s, rows)
             w == [t EXCEPT !.given = IF @ = "keys" THEN "all" ELSE @]
  <2>1. /\ x.kind = "lookup" /\ x.hex \in GPUKeys
        /\ table \in Tables \cup {Unset} /\ noise \in GPUKeys \cup {Unset}
        /\ rows # 0 /\ s.chunks # 0 => table \in Tables /\ noise \in GPUKeys
        /\ table # Unset => table.key = x.hex /\ table.rows = s.chunks
        /\ noise \in {Unset, x.hex}
    BY <1>1, <1>2, <1>15, GPUAssumption DEF ClientStates, Tables, GPUClientWhole
  <2>2. r = w
    BY <1>15 DEF Configured, chunked, sized
  <2>3. t = [chunked EXCEPT !.gTable = table, !.noise = noise, !.ready = ready]
    BY <1>9 DEF WithTables
  <2>4. ready \in BOOLEAN
    OBVIOUS
  <2> HIDE DEF table, noise, ready, t, w, r
  <2>5. DOMAIN t = DOMAIN chunked /\ t = [f \in DOMAIN t |-> t[f]]
    BY ONLY <2>3
  <2>6. /\ t.kind = x.kind /\ t.keys = x.keys /\ t.hex = x.hex
        /\ t.embed = s.embed /\ t.keyLen = s.keyLen /\ t.chunkLen = s.keyLen
        /\ t.chunkNum = ChunkNum(s.embed, s.keyLen) /\ t.chunks = s.chunks
        /\ t.gTable = table /\ t.noise = noise /\ t.ready = ready
        /\ t.device = Unset /\ t.given = x.given
    BY <1>9, <1>11, <2>3 DEF ClientStates
  <2>7. FieldsTyped(t)
    BY <1>9, <1>10, <2>1, <2>4, <2>6 DEF FieldsTyped
  <2>8. t \in ClientStates
    BY <1>11, <2>5, <2>7, ClientByFields
  <2>9. after \in {"none", "keys", "all"} /\ w = [t EXCEPT !.given = after]
    BY <1>1, <2>6 DEF ClientStates, w
  <2>10. after # "none" => x.given # "none"
    OBVIOUS
  <2> HIDE DEF after
  <2>11. /\ w \in ClientStates /\ w.kind = "lookup" /\ w.keys = x.keys /\ w.hex = x.hex
         /\ w.embed = s.embed /\ w.keyLen = s.keyLen /\ w.chunkLen = s.keyLen
         /\ w.chunkNum = ChunkNum(s.embed, s.keyLen) /\ w.chunks = s.chunks
         /\ w.gTable = table /\ w.noise = noise /\ w.ready = ready
         /\ w.device = Unset /\ w.given = after
    BY <2>1, <2>6, <2>8, <2>9 DEF ClientStates
  <2>12. TablesWhole(w)
    BY <1>1, <1>2, <2>1, <2>11 DEF TablesWhole, ready
  <2>13. WholeVector(w)
    BY <1>3, <2>11 DEF WholeVector
  <2>14. GivenWhole(w)
    BY <1>1, <2>1, <2>10, <2>11, <2>13 DEF GivenWhole
  <2>15. QED
    BY <2>2, <2>11, <2>12, <2>14 DEF GPUClientWhole, r
<1>16. QED
  BY <1>12, <1>13, <1>14, <1>15

LEMMA UploadedWhole ==
  ASSUME NEW x \in ClientStates, x.kind = "lookup", TablesWhole(x), GivenWhole(x), x.ready
  PROVE  LET u == Uploaded(x)
         IN  /\ GPUClientWhole(u) /\ u.device = [g |-> u.gTable, noise |-> u.noise]
             /\ u.kind = "lookup" /\ u.hex = x.hex /\ u.given = x.given
<1>1. CASE x.device # Unset
  BY <1>1 DEF Uploaded, GPUClientWhole, TablesWhole
<1>2. CASE x.device = Unset
  <2> DEFINE d == [g |-> x.gTable, noise |-> x.noise]
             u == [x EXCEPT !.device = d]
  <2>1. x.gTable \in Tables /\ x.noise \in GPUKeys
    BY DEF TablesWhole, ClientStates
  <2>2. d \in [g : Tables, noise : GPUKeys]
    BY <2>1
  <2>3. Uploaded(x) = u
    BY <1>2 DEF Uploaded
  <2> HIDE DEF d
  <2>4. /\ u \in ClientStates
        /\ u.kind = x.kind /\ u.keys = x.keys /\ u.hex = x.hex /\ u.embed = x.embed
        /\ u.keyLen = x.keyLen /\ u.chunkLen = x.chunkLen /\ u.chunkNum = x.chunkNum
        /\ u.chunks = x.chunks /\ u.gTable = x.gTable /\ u.noise = x.noise
        /\ (u.ready <=> x.ready) /\ u.device = d /\ u.given = x.given
    BY <2>2 DEF ClientStates
  <2> HIDE DEF u
  <2>5. TablesWhole(u)
    BY <2>4 DEF TablesWhole, d
  <2>6. GivenWhole(u)
    BY <2>4 DEF GivenWhole, WholeVector
  <2>7. QED
    BY <2>3, <2>4, <2>5, <2>6 DEF GPUClientWhole, d
<1>3. QED
  BY <1>1, <1>2

(* A client of a complete load encrypts exactly.                           *)
LEMMA UploadedExact ==
  ASSUME NEW x, GPUClientWhole(x), x.kind = "lookup", x.hex # Unset, x.ready, x.given = "all",
         x.device = [g |-> x.gTable, noise |-> x.noise]
  PROVE  CallOutcome(x) = "exact"
<1>1. TablesWhole(x) /\ GivenWhole(x)
  BY DEF GPUClientWhole
<1>2. /\ x.gTable # Unset /\ x.gTable.key = x.hex /\ x.noise = x.hex
      /\ x.gTable.rows = x.chunks /\ WholeVector(x)
  BY <1>1 DEF TablesWhole, GivenWhole
<1>3. x.device.g = x.gTable /\ x.device.noise = x.noise
  OBVIOUS
<1>4. QED
  BY <1>2, <1>3 DEF CallOutcome

(* One client changes, and perhaps the cache.                              *)
LEMMA GPUMoves ==
  ASSUME GPUInv, NEW c \in Clients, NEW x, GPUClientWhole(x),
         gpu' = [gpu EXCEPT ![c] = x],
         lru' \in Seq(CacheEntries), CacheAccounted',
         returned' \in {"none", "done", "refused", "exact", "truncated", "whole", "partial",
                       "garbage"}
  PROVE  GPUInv'
<1>1. x \in ClientStates
  BY DEF GPUClientWhole
<1>2. gpu' \in [Clients -> ClientStates \cup {Unset}]
  BY <1>1 DEF GPUInv
<1>3. ASSUME NEW d \in Clients, gpu'[d] # Unset PROVE GPUClientWhole(gpu'[d])
  BY <1>3 DEF GPUInv
<1>4. (\A d \in Clients : gpu[d] # Unset => GPUClientWhole(gpu[d]))'
  BY <1>3 DEF GPUClientWhole, GivenWhole, TablesWhole
<1>5. QED
  BY <1>2, <1>4 DEF GPUInv

(* A lookup client encrypts or dumps its tables: what happens to it and to *)
(* the cache.                                                              *)
LEMMA EnsuredStep ==
  ASSUME GPUInv, NEW c \in Clients,
         gpu[c] # Unset, gpu[c].kind = "lookup", gpu[c].hex # Unset
  PROVE  LET x == gpu[c]
             got == CachedTables(x)
             e == Ensured(x, got)
         IN  /\ GPUClientWhole(e.x) /\ e.done \in BOOLEAN
             /\ e.x.hex = x.hex /\ e.x.kind = "lookup" /\ e.x.given = x.given
             /\ e.done => /\ GPUClientWhole(Uploaded(e.x))
                          /\ x.given = "all" =>
                               /\ CallOutcome(Uploaded(e.x)) = "exact"
                               /\ DumpOutcome(e.x) = "whole"
             /\ x.given # "none" => e.done
             /\ cache' = (IF x.ready THEN cache ELSE got.cache)
                /\ lru' = (IF x.ready THEN lru ELSE got.lru)
                  => lru' \in Seq(CacheEntries) /\ CacheAccounted'
<1> DEFINE x == gpu[c]
           got == CachedTables(x)
           e == Ensured(x, got)
<1>1. /\ GPUClientWhole(x) /\ x \in ClientStates /\ TablesWhole(x) /\ GivenWhole(x)
      /\ CacheAccounted /\ lru \in Seq(CacheEntries)
  BY DEF GPUInv, GPUClientWhole
<1>2. Gives(got, x) /\ (Fits(x.keys) => got.done)
  BY <1>1, CachedGives
<1>3. got.done \in BOOLEAN
  BY DEF CachedTables
<1>4. ASSUME cache' = (IF x.ready THEN cache ELSE got.cache),
             lru' = (IF x.ready THEN lru ELSE got.lru)
      PROVE  lru' \in Seq(CacheEntries) /\ CacheAccounted'
  <2>1. CASE x.ready
    BY <1>1, <1>4, <2>1 DEF CacheAccounted
  <2>2. CASE ~ x.ready
    BY <1>1, <1>4, <2>2, CacheKept
  <2>3. QED
    BY <2>1, <2>2
<1> HIDE DEF got
<1>5. /\ e.x \in ClientStates /\ TablesWhole(e.x) /\ GivenWhole(e.x)
      /\ e.x.kind = "lookup" /\ e.x.hex = x.hex /\ e.x.given = x.given
      /\ e.done \in BOOLEAN /\ (e.done => e.x.ready) /\ (Fits(x.keys) => e.done)
  BY <1>1, <1>2, <1>3, EnsuredWhole
<1> HIDE DEF e
<1>6. GPUClientWhole(e.x)
  BY <1>5 DEF GPUClientWhole
<1>7. ASSUME e.done
      PROVE  /\ GPUClientWhole(Uploaded(e.x))
             /\ x.given = "all" =>
                  CallOutcome(Uploaded(e.x)) = "exact" /\ DumpOutcome(e.x) = "whole"
  <2> DEFINE u == Uploaded(e.x)
  <2>1. /\ GPUClientWhole(u) /\ u.device = [g |-> u.gTable, noise |-> u.noise]
        /\ u.kind = "lookup" /\ u.hex = x.hex /\ u.given = x.given
    BY <1>5, <1>7, UploadedWhole
  <2> HIDE DEF u
  <2>2. u.ready
    <3>1. CASE e.x.device # Unset
      BY <1>5, <1>7, <3>1 DEF u, Uploaded
    <3>2. CASE e.x.device = Unset
      BY <1>5, <1>7, <3>2 DEF u, Uploaded, ClientStates
    <3>3. QED
      BY <3>1, <3>2
  <2>3. x.given = "all" => CallOutcome(u) = "exact"
    BY <2>1, <2>2, UploadedExact
  <2>4. x.given = "all" => DumpOutcome(e.x) = "whole"
    BY <1>5, <1>7 DEF GivenWhole, TablesWhole, DumpOutcome
  <2>5. QED
    BY <2>1, <2>3, <2>4 DEF u
<1>8. x.given # "none" => Fits(x.keys)
  BY <1>1 DEF GivenWhole
<1>9. QED
  BY <1>4, <1>5, <1>6, <1>7, <1>8 DEF e, got

LEMMA GPUStep == GPUInv /\ [GPUNext]_gpuVars => GPUInv'
<1> SUFFICES ASSUME GPUInv, [GPUNext]_gpuVars PROVE GPUInv'
  OBVIOUS
<1>1. CASE UNCHANGED gpuVars
  BY <1>1 DEF gpuVars, GPUInv, CacheAccounted, GPUClientWhole, GivenWhole, TablesWhole
<1>2. ASSUME UNCHANGED <<cache, lru>> PROVE lru' \in Seq(CacheEntries) /\ CacheAccounted'
  BY <1>2 DEF GPUInv, CacheAccounted
<1>3. \A c \in Clients : gpu[c] # Unset => gpu[c] \in ClientStates /\ GPUClientWhole(gpu[c])
  BY DEF GPUInv
<1>4. ASSUME NEW c \in Clients, NEW kind \in Kinds, NEW k \in GPUKeys \cup {Unset},
             NEW len \in KeyLens, NEW embed \in EmbedLens, Construct(c, kind, k, len, embed)
      PROVE  GPUInv'
  BY <1>2, <1>4, ConstructedWhole, GPUMoves DEF Construct
<1>5. ASSUME NEW c \in Clients, NEW k \in GPUKeys, LoadGPUKeys(c, k) PROVE GPUInv'
  <2> DEFINE x == gpu[c]
             r == IF Fits(k) THEN WithGPUKeys(x, k) ELSE WithRefusedKeys(x, k)
  <2>1. gpu' = [gpu EXCEPT ![c] = r]
    BY <1>5 DEF LoadGPUKeys
  <2>2. GPUClientWhole(r)
    BY <1>3, <1>5, KeysWhole DEF LoadGPUKeys
  <2> HIDE DEF r
  <2>3. QED
    BY <1>2, <1>5, <2>1, <2>2, GPUMoves DEF LoadGPUKeys
<1>6. ASSUME NEW c \in Clients, NEW s \in GPUConfigs, NEW rows, LoadGPUConfig(c, s, rows)
      PROVE  GPUInv'
  <2> DEFINE r == Configured(gpu[c], s, rows)
  <2>1. gpu' = [gpu EXCEPT ![c] = r]
    BY <1>6 DEF LoadGPUConfig, Configured
  <2>2. GPUClientWhole(r)
    BY <1>3, <1>6, ConfiguredWhole DEF LoadGPUConfig
  <2>3. returned' \in {"refused", "done"} /\ UNCHANGED <<cache, lru>>
    BY <1>6 DEF LoadGPUConfig
  <2> HIDE DEF r
  <2>4. QED
    BY <1>2, <2>1, <2>2, <2>3, GPUMoves
<1>7. ASSUME NEW c \in Clients, DumpTables(c) PROVE GPUInv'
  <2> DEFINE e == Ensured(gpu[c], CachedTables(gpu[c]))
  <2>1. GPUClientWhole(e.x)
    BY <1>7, EnsuredStep DEF DumpTables
  <2>2. \/ /\ gpu' = [gpu EXCEPT ![c] = e.x]
           /\ lru' \in Seq(CacheEntries) /\ CacheAccounted'
           /\ returned' \in {"refused", "whole", "partial", "garbage"}
        \/ /\ gpu' = [d \in Clients |-> Unset] /\ returned' = "none"
           /\ cache' = [f \in {} |-> Unset] /\ lru' = <<>>
    BY <1>7, EnsuredStep DEF DumpTables, DumpOutcome
  <2> HIDE DEF e
  <2>3. CASE /\ gpu' = [gpu EXCEPT ![c] = e.x]
             /\ lru' \in Seq(CacheEntries) /\ CacheAccounted'
             /\ returned' \in {"refused", "whole", "partial", "garbage"}
    BY <2>1, <2>3, GPUMoves
  <2>4. CASE /\ gpu' = [d \in Clients |-> Unset] /\ returned' = "none"
             /\ cache' = [f \in {} |-> Unset] /\ lru' = <<>>
    BY <2>4, GPUAssumption DEF GPUInv, CacheAccounted, ToSet, IsInjective
  <2>5. QED
    BY <2>2, <2>3, <2>4
<1>8. ASSUME NEW c \in Clients, NEW fails \in {"upload", "later", "never"},
             EncryptOnGPU(c, fails)
      PROVE  GPUInv'
  <2> DEFINE e == Ensured(gpu[c], CachedTables(gpu[c]))
             r == IF e.done /\ fails # "upload" THEN Uploaded(e.x) ELSE e.x
  <2>1. /\ GPUClientWhole(e.x) /\ (e.done => GPUClientWhole(Uploaded(e.x)))
        /\ lru' \in Seq(CacheEntries) /\ CacheAccounted'
    BY <1>8, EnsuredStep DEF EncryptOnGPU
  <2>2. /\ gpu' = [gpu EXCEPT ![c] = r]
        /\ returned' = IF e.done /\ fails = "never" THEN CallOutcome(Uploaded(e.x)) ELSE "refused"
    BY <1>8 DEF EncryptOnGPU
  <2>3. returned' \in {"refused", "exact", "truncated", "garbage"}
    BY <2>2 DEF CallOutcome
  <2> HIDE DEF e
  <2>4. GPUClientWhole(r)
    BY <2>1
  <2> HIDE DEF r
  <2>5. QED
    BY <2>1, <2>2, <2>3, <2>4, GPUMoves
<1>9. ASSUME NEW c \in Clients, NEW fails \in {"later", "never"}, EncryptPlain(c, fails)
      PROVE  GPUInv'
  <2>1. returned' \in {"refused", "exact", "truncated", "garbage"}
    BY <1>9 DEF EncryptPlain
  <2>2. QED
    BY <1>2, <1>9, <2>1 DEF EncryptPlain, GPUInv, GPUClientWhole, GivenWhole, TablesWhole
<1>10. QED
  BY <1>1, <1>4, <1>5, <1>6, <1>7, <1>8, <1>9 DEF GPUNext

LEMMA GPUInvariant == GPUSpec => []GPUInv
<1>1. GPUInit => GPUInv
  BY GPUAssumption DEF GPUInit, GPUInv, CacheAccounted, ToSet, IsInjective
<1>2. QED
  BY <1>1, GPUStep, PTL DEF GPUSpec

(* Tables in memory, on the device and in the cache that clients share are *)
(* of the key in whose name ciphertexts leave, also after loads that were  *)
(* refused half way; and complete loads encrypt exactly and dump whole     *)
(* tables.                                                                 *)
THEOREM GPUTables == GPUSpec => []GPUTablesBelong
<1>1. ASSUME GPUInv PROVE GPUTablesBelong
  <2>1. GPUTypeOK /\ CacheAccounted
    BY <1>1 DEF GPUInv, GPUTypeOK
  <2>2. TablesOfInstalledKey
    BY <1>1 DEF GPUInv, GPUClientWhole, TablesWhole, TablesOfInstalledKey
  <2>3. ASSUME NEW c \in Clients, gpu[c] # Unset, gpu[c].given = "all"
        PROVE  LET x == gpu[c]
                   e == Ensured(x, CachedTables(x))
               IN  /\ WholeVector(x) /\ Fits(x.hex)
                   /\ x.kind = "lookup" =>
                        e.done /\ CallOutcome(Uploaded(e.x)) = "exact"
                          /\ DumpOutcome(e.x) = "whole"
    <3>1. GivenWhole(gpu[c])
      BY <1>1, <2>3 DEF GPUInv, GPUClientWhole
    <3>2. WholeVector(gpu[c]) /\ Fits(gpu[c].hex) /\ gpu[c].hex # Unset
      BY <2>3, <3>1 DEF GivenWhole
    <3>3. QED
      BY <1>1, <2>3, <3>2, EnsuredStep
  <2>4. CompleteLoadsEncrypt
    BY <2>3 DEF CompleteLoadsEncrypt
  <2>5. QED
    BY <2>1, <2>2, <2>4 DEF GPUTablesBelong
<1>2. QED
  BY <1>1, GPUInvariant, PTL

-----------------------------------------------------------------------------

(* The private decoder, for any number of threads and calls and responses  *)
(* of any length.                                                          *)

(* Every variable of the decoder keeps its type.                           *)
THEOREM DecoderTypeCorrect == DecoderSpec => []DecoderTypeOK
<1> USE DecoderAssumption
<1>1. DecoderInit => DecoderTypeOK
  <2> SUFFICES ASSUME DecoderInit PROVE DecoderTypeOK
    OBVIOUS
  <2>1. 1 \in 1..Groups /\ 0 \in 0..MaxCalls
    OBVIOUS
  <2> QED BY <2>1 DEF DecoderInit, DecoderTypeOK, InPython, Outside, Locked
<1>2. DecoderTypeOK /\ [DecoderNext]_decoderVars => DecoderTypeOK'
  <2> SUFFICES ASSUME DecoderTypeOK, [DecoderNext]_decoderVars PROVE DecoderTypeOK'
    OBVIOUS
  <2> USE DEF DecoderTypeOK, InPython, Outside, Locked, sharedVars, historyVars
  <2>1. CASE UNCHANGED decoderVars
    BY <2>1 DEF decoderVars, threadVars
  <2>2. ASSUME NEW t \in DecoderThreads, NEW j \in {"decode", "close"}, Call(t, j)
        PROVE DecoderTypeOK'
    BY <2>2 DEF Call
  <2>3. ASSUME NEW t \in DecoderThreads, Step(t) PROVE DecoderTypeOK'
    <3>1. CASE RejectWire(t) BY <3>1 DEF RejectWire
    <3>2. CASE ReleaseGIL(t) BY <3>2 DEF ReleaseGIL
    <3>3. CASE Enter(t) BY <3>3 DEF Enter
    <3>4. CASE TestOpen(t) BY <3>4 DEF TestOpen
    <3>5. CASE Fail(t) BY <3>5 DEF Fail
    <3>6. CASE MultiplyFirst(t) BY <3>6 DEF MultiplyFirst
    <3>7. CASE MultiplySecond(t) BY <3>7 DEF MultiplySecond
    <3>8. CASE WipeFirst(t) BY <3>8 DEF WipeFirst
    <3>9. CASE WipeSecond(t) BY <3>9 DEF WipeSecond
    <3>10. CASE SetClosed(t) BY <3>10 DEF SetClosed
    <3>11. CASE TakeGIL(t) BY <3>11 DEF TakeGIL, MoreGroups
    <3>12. CASE Return(t)
      <4>1. [sound |-> sound[t], late |-> late[t]] \in [sound : BOOLEAN, late : BOOLEAN]
        OBVIOUS
      <4> QED BY <3>12, <4>1 DEF Return
    <3> QED BY <2>3, <3>1, <3>2, <3>3, <3>4, <3>5, <3>6, <3>7, <3>8, <3>9, <3>10, <3>11,
               <3>12 DEF Step
  <2> QED BY <2>1, <2>2, <2>3 DEF DecoderNext
<1> QED BY <1>1, <1>2, PTL DEF DecoderSpec

-----------------------------------------------------------------------------

(* Each lock is held exactly in its places.                                *)
LEMMA LockStep ==
  ASSUME DecoderTypeOK, LockInv, [DecoderNext]_decoderVars
  PROVE  LockInv'
<1> USE DecoderAssumption DEF DecoderTypeOK, LockInv, InPython, Locked, sharedVars
<1>1. CASE UNCHANGED decoderVars
  BY <1>1 DEF decoderVars, threadVars
<1>2. ASSUME NEW t \in DecoderThreads, NEW j \in {"decode", "close"}, Call(t, j)
      PROVE LockInv'
  BY <1>2 DEF Call
<1>3. ASSUME NEW t \in DecoderThreads, Step(t) PROVE LockInv'
  <2>1. CASE RejectWire(t) BY <2>1 DEF RejectWire
  <2>2. CASE ReleaseGIL(t) BY <2>2 DEF ReleaseGIL
  <2>3. CASE Enter(t) BY <2>3 DEF Enter, MayEnter
  <2>4. CASE TestOpen(t) BY <2>4 DEF TestOpen
  <2>5. CASE Fail(t) BY <2>5 DEF Fail
  <2>6. CASE MultiplyFirst(t) BY <2>6 DEF MultiplyFirst
  <2>7. CASE MultiplySecond(t) BY <2>7 DEF MultiplySecond
  <2>8. CASE WipeFirst(t) BY <2>8 DEF WipeFirst
  <2>9. CASE WipeSecond(t) BY <2>9 DEF WipeSecond
  <2>10. CASE SetClosed(t) BY <2>10 DEF SetClosed
  <2>11. CASE TakeGIL(t) BY <2>11 DEF TakeGIL
  <2>12. CASE Return(t) BY <2>12 DEF Return
  <2> QED BY <1>3, <2>1, <2>2, <2>3, <2>4, <2>5, <2>6, <2>7, <2>8, <2>9, <2>10, <2>11,
             <2>12 DEF Step
<1> QED BY <1>1, <1>2, <1>3 DEF DecoderNext

(* The key is whole while the decoder is open and nobody wipes it.         *)
LEMMA KeyStep ==
  ASSUME DecoderTypeOK, LockInv, KeyInv, [DecoderNext]_decoderVars
  PROVE  KeyInv'
<1> USE DecoderAssumption DEF DecoderTypeOK, LockInv, KeyInv, Locked, sharedVars
<1>1. CASE UNCHANGED decoderVars
  BY <1>1 DEF decoderVars, threadVars
<1>2. ASSUME NEW t \in DecoderThreads, NEW j \in {"decode", "close"}, Call(t, j)
      PROVE KeyInv'
  BY <1>2 DEF Call
<1>3. ASSUME NEW t \in DecoderThreads, Step(t) PROVE KeyInv'
  <2>1. CASE RejectWire(t) BY <2>1 DEF RejectWire
  <2>2. CASE ReleaseGIL(t) BY <2>2 DEF ReleaseGIL
  <2>3. CASE Enter(t) BY <2>3 DEF Enter
  <2>4. CASE TestOpen(t) BY <2>4 DEF TestOpen
  <2>5. CASE Fail(t) BY <2>5 DEF Fail
  <2>6. CASE MultiplyFirst(t) BY <2>6 DEF MultiplyFirst
  <2>7. CASE MultiplySecond(t) BY <2>7 DEF MultiplySecond
  <2>8. CASE WipeFirst(t) BY <2>8 DEF WipeFirst
  <2>9. CASE WipeSecond(t) BY <2>9 DEF WipeSecond
  <2>10. CASE SetClosed(t) BY <2>10 DEF SetClosed
  <2>11. CASE TakeGIL(t) BY <2>11 DEF TakeGIL
  <2>12. CASE Return(t) BY <2>12 DEF Return
  <2> QED BY <1>3, <2>1, <2>2, <2>3, <2>4, <2>5, <2>6, <2>7, <2>8, <2>9, <2>10, <2>11,
             <2>12 DEF Step
<1> QED BY <1>1, <1>2, <1>3 DEF DecoderNext

(* A close that is past the mutex has closed the decoder.                  *)
LEMMA ShutStep ==
  ASSUME DecoderTypeOK, LockInv, ShutInv, [DecoderNext]_decoderVars
  PROVE  ShutInv'
<1> USE DecoderAssumption DEF DecoderTypeOK, LockInv, ShutInv, sharedVars, historyVars
<1>1. CASE UNCHANGED decoderVars
  BY <1>1 DEF decoderVars, threadVars
<1>2. ASSUME NEW t \in DecoderThreads, NEW j \in {"decode", "close"}, Call(t, j)
      PROVE ShutInv'
  BY <1>2 DEF Call
<1>3. ASSUME NEW t \in DecoderThreads, Step(t) PROVE ShutInv'
  <2>1. CASE RejectWire(t) BY <2>1 DEF RejectWire
  <2>2. CASE ReleaseGIL(t) BY <2>2 DEF ReleaseGIL
  <2>3. CASE Enter(t) BY <2>3 DEF Enter
  <2>4. CASE TestOpen(t) BY <2>4 DEF TestOpen
  <2>5. CASE Fail(t) BY <2>5 DEF Fail
  <2>6. CASE MultiplyFirst(t) BY <2>6 DEF MultiplyFirst
  <2>7. CASE MultiplySecond(t) BY <2>7 DEF MultiplySecond
  <2>8. CASE WipeFirst(t) BY <2>8 DEF WipeFirst
  <2>9. CASE WipeSecond(t) BY <2>9 DEF WipeSecond
  <2>10. CASE SetClosed(t) BY <2>10 DEF SetClosed
  <2>11. CASE TakeGIL(t) BY <2>11 DEF TakeGIL
  <2>12. CASE Return(t) BY <2>12 DEF Return
  <2> QED BY <1>3, <2>1, <2>2, <2>3, <2>4, <2>5, <2>6, <2>7, <2>8, <2>9, <2>10, <2>11,
             <2>12 DEF Step
<1> QED BY <1>1, <1>2, <1>3 DEF DecoderNext

(* What a call has read was the key, and a late call is an error.          *)
LEMMA CallStep ==
  ASSUME DecoderTypeOK, LockInv, KeyInv, ShutInv, CallInv, [DecoderNext]_decoderVars
  PROVE  CallInv'
<1> USE DecoderAssumption DEF DecoderTypeOK, CallInv, sharedVars, historyVars
<1>1. CASE UNCHANGED decoderVars
  BY <1>1 DEF decoderVars, threadVars
<1>2. ASSUME NEW t \in DecoderThreads, NEW j \in {"decode", "close"}, Call(t, j)
      PROVE CallInv'
  BY <1>2 DEF Call, ShutInv
<1>3. ASSUME NEW t \in DecoderThreads, Step(t) PROVE CallInv'
  (* Nobody wipes while t multiplies: t holds the mutex. *)
  <2>0. at[t] \in {"first", "second"} => spectra[1] = "key" /\ spectra[2] = "key" /\ ~closed
    BY DEF LockInv, KeyInv, Locked
  <2>1. CASE RejectWire(t) BY <2>1 DEF RejectWire
  <2>2. CASE ReleaseGIL(t) BY <2>2 DEF ReleaseGIL
  <2>3. CASE Enter(t) BY <2>3 DEF Enter
  <2>4. CASE TestOpen(t) BY <2>4 DEF TestOpen
  <2>5. CASE Fail(t) BY <2>5 DEF Fail
  <2>6. CASE MultiplyFirst(t) BY <2>0, <2>6 DEF MultiplyFirst
  <2>7. CASE MultiplySecond(t) BY <2>0, <2>7 DEF MultiplySecond
  <2>8. CASE WipeFirst(t) BY <2>8 DEF WipeFirst
  <2>9. CASE WipeSecond(t) BY <2>9 DEF WipeSecond
  <2>10. CASE SetClosed(t) BY <2>10 DEF SetClosed, LockInv
  <2>11. CASE TakeGIL(t) BY <2>11 DEF TakeGIL, MoreGroups
  <2>12. CASE Return(t) BY <2>12 DEF Return
  <2> QED BY <1>3, <2>1, <2>2, <2>3, <2>4, <2>5, <2>6, <2>7, <2>8, <2>9, <2>10, <2>11,
             <2>12 DEF Step
<1> QED BY <1>1, <1>2, <1>3 DEF DecoderNext

(* Only Return adds results, and it adds those of a sound call in time.    *)
LEMMA ResultStep ==
  ASSUME DecoderTypeOK, CallInv, LiveKeyOnly, ClosedIsFinal, [DecoderNext]_decoderVars
  PROVE  LiveKeyOnly' /\ ClosedIsFinal'
<1> USE DEF LiveKeyOnly, ClosedIsFinal, historyVars
<1>1. CASE UNCHANGED decoderVars
  BY <1>1 DEF decoderVars
<1>2. ASSUME NEW t \in DecoderThreads, NEW j \in {"decode", "close"}, Call(t, j)
      PROVE UNCHANGED results
  BY <1>2 DEF Call
<1>3. ASSUME NEW t \in DecoderThreads, Step(t), ~Return(t) PROVE UNCHANGED results
  BY <1>3 DEF Step, RejectWire, ReleaseGIL, Enter, TestOpen, Fail, MultiplyFirst,
              MultiplySecond, WipeFirst, WipeSecond, SetClosed, TakeGIL
<1>4. ASSUME NEW t \in DecoderThreads, Return(t) PROVE LiveKeyOnly' /\ ClosedIsFinal'
  <2>1. job[t] = "decode" /\ ~error[t] => sound[t] /\ ~late[t]
    BY <1>4 DEF Return, CallInv
  <2>2. ASSUME NEW r \in results' PROVE r.sound /\ ~r.late
    BY <1>4, <2>1, <2>2 DEF Return
  <2> QED BY <2>2
<1> QED BY <1>1, <1>2, <1>3, <1>4 DEF DecoderNext

(* The inductive invariant of the decoder.                                 *)
THEOREM DecoderInvariant == DecoderSpec => []DecoderInv
<1>1. DecoderInit => DecoderInv
  BY DecoderAssumption DEF DecoderInit, DecoderInv, LockInv, KeyInv, ShutInv, CallInv,
     LiveKeyOnly, ClosedIsFinal, InPython, Locked
<1>2. DecoderTypeOK /\ DecoderInv /\ [DecoderNext]_decoderVars => DecoderInv'
  BY LockStep, KeyStep, ShutStep, CallStep, ResultStep DEF DecoderInv
<1> QED BY <1>1, <1>2, DecoderTypeCorrect, PTL DEF DecoderSpec

(* No distances come from a wiped key ...                                  *)
THEOREM OnlyTheLiveKeyDecodes == DecoderSpec => []LiveKeyOnly
<1>1. DecoderInv => LiveKeyOnly
  BY DEF DecoderInv
<1> QED BY <1>1, DecoderInvariant, PTL

(* ... and none from a call that began after a close had returned.         *)
THEOREM ClosedStaysClosed == DecoderSpec => []ClosedIsFinal
<1>1. DecoderInv => ClosedIsFinal
  BY DEF DecoderInv
<1> QED BY <1>1, DecoderInvariant, PTL
=============================================================================
