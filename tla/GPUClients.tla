------------------------------ MODULE GPUClients ------------------------------
(***************************************************************************)
(* The host side of the two CUDA clients (paillier/_gpu_ext,               *)
(* paillier/_lookup_gpu_ext): keys, configuration, tables in memory and on *)
(* the device, and the cache of tables that all lookup clients of a        *)
(* process share.  A method holds the GIL until it ends, so it is one      *)
(* action.  A load that is refused throws in its middle and keeps what it  *)
(* has assigned; a CUDA call may fail.                                     *)
(*                                                                         *)
(* A table is known by its key and its number of rows.  Lengths are in     *)
(* bits of a vector (a chunk holds each of them twice).  LookupKeys has    *)
(* the Python client, PaillierHamming the arithmetic.                      *)
(***************************************************************************)
EXTENDS Integers, Sequences, SequencesExt, FiniteSets

CONSTANTS Clients,
          GPUKeys,
          Oversized,    \* keys with a larger n_squared than the build has room for
          Unset,
          KeyLens,      \* key_len of constructors and configurations
          MaxKeyLen,    \* KEY_BITS
          EmbedLens,
          MessageBits,  \* PAILLIER_MSG_BITS
          CacheMax,     \* G_TABLE_CACHE_MAX
          Kinds         \* which of the two clients

ASSUME GPUAssumption ==
  /\ Oversized \subseteq GPUKeys /\ Unset \notin GPUKeys \cup [key : GPUKeys, rows : Nat]
  /\ KeyLens \subseteq Nat \ {0} /\ EmbedLens \subseteq Nat \ {0}
  /\ \E l \in KeyLens : l <= MaxKeyLen
  /\ MessageBits \in Nat \ {0} /\ CacheMax \in Nat \ {0}
  /\ Kinds \subseteq {"plain", "lookup"}

VARIABLES gpu,   \* by name, Unset before it is constructed
          cache,    \* g_table_cache
          lru,      \* g_table_lru
          returned    \* how the last method ended
gpuVars == <<gpu, cache, lru, returned>>

Fits(k) == k \notin Oversized

(* message_chunks for a key length.                                        *)
Rows(len) == (2 * len + MessageBits - 1) \div MessageBits

ChunkNum(embed, len) ==
  IF embed > len THEN (embed \div len) + (IF embed % len # 0 THEN 1 ELSE 0) ELSE 1

GPUInit ==
  /\ gpu = [c \in Clients |-> Unset]
  /\ cache = [e \in {} |-> Unset] /\ lru = <<>>
  /\ returned = "none"

(* given is a history: how far the client has come since the last load     *)
(* that was refused, "none", "keys" or "all" with a configuration.         *)
Constructed(kind, k, len, embed) ==
  LET tabled == kind = "lookup" /\ k # Unset
  IN  [kind |-> kind, keys |-> k, hex |-> k, embed |-> embed, keyLen |-> len, chunkLen |-> len,
       chunkNum |-> ChunkNum(embed, len), chunks |-> IF tabled THEN Rows(len) ELSE 0,
       gTable |-> IF tabled THEN [key |-> k, rows |-> Rows(len)] ELSE Unset,
       noise |-> IF tabled THEN k ELSE Unset, ready |-> tabled, device |-> Unset,
       given |-> IF k = Unset THEN "none" ELSE "all"]

(* With skip_key_gen the key is Unset; a longer key_len is refused.        *)
Construct(c, kind, k, len, embed) ==
  /\ len <= MaxKeyLen /\ (k # Unset => Fits(k))
  /\ gpu' = [gpu EXCEPT ![c] = Constructed(kind, k, len, embed)]
  /\ returned' = "done"
  /\ UNCHANGED <<cache, lru>>

-----------------------------------------------------------------------------

(* load_stringified_keys                                                   *)

(* Mutant: the tables on the device stay.                                  *)
WithKeysMutant(x, k) ==
  [x EXCEPT !.keys = k, !.hex = k, !.gTable = Unset, !.noise = Unset, !.ready = FALSE,
            !.given = "keys"]

WithGPUKeys(x, k) ==
  [x EXCEPT !.keys = k, !.hex = k, !.gTable = Unset, !.noise = Unset, !.ready = FALSE,
            !.device = Unset, !.given = "keys"]

(* The lookup client has replaced keys_ when it looks at their size, but   *)
(* not the strings it works with; the plain client has replaced the        *)
(* strings.  A client without keys stays without.                          *)
WithRefusedKeys(x, k) ==
  IF x.hex = Unset THEN x
  ELSE IF x.kind = "lookup" THEN [x EXCEPT !.keys = k, !.given = "none"]
  ELSE [x EXCEPT !.hex = k, !.given = "none"]

LoadGPUKeys(c, k) ==
  /\ gpu[c] # Unset
  /\ gpu' = [gpu EXCEPT ![c] = IF Fits(k) THEN WithGPUKeys(@, k) ELSE WithRefusedKeys(@, k)]
  /\ returned' = IF Fits(k) THEN "done" ELSE "refused"
  /\ UNCHANGED <<cache, lru>>

-----------------------------------------------------------------------------

(* load_config, of a configuration s = [embed, keyLen, chunks] with the    *)
(* given number of rows of a table of the same key, or without tables (0). *)

Sized(x, s) ==
  [x EXCEPT !.embed = s.embed, !.keyLen = s.keyLen, !.chunkLen = s.keyLen,
            !.chunkNum = ChunkNum(s.embed, s.keyLen)]

(* Of a table, message_chunks rows are read; none leave it empty, and it   *)
(* is computed when it is needed.                                          *)
WithTables(x, s, rows) ==
  [x EXCEPT !.gTable = IF rows = 0 \/ s.chunks = 0 THEN Unset
                       ELSE [key |-> x.hex, rows |-> s.chunks],
            !.noise = IF rows = 0 THEN Unset ELSE x.hex,
            !.ready = rows # 0 /\ s.chunks # 0]

(* A configuration for a longer key is refused after embed_len_ has been   *)
(* set, a table with missing rows after everything but the tables.         *)
LoadGPUConfig(c, s, rows) ==
  LET x == gpu[c]
      chunked == [Sized(x, s) EXCEPT !.chunks = s.chunks, !.device = Unset]
      tooLong == s.keyLen > MaxKeyLen
      missing == x.kind = "lookup" /\ rows # 0 /\ rows < s.chunks
  IN  /\ x # Unset /\ (x.kind = "lookup" => x.hex # Unset)
      /\ gpu' = [gpu EXCEPT ![c] =
           IF tooLong THEN [x EXCEPT !.embed = s.embed, !.given = "none"]
           ELSE IF missing THEN [chunked EXCEPT !.given = "none"]
           ELSE [(IF x.kind = "plain" THEN Sized(x, s) ELSE WithTables(chunked, s, rows))
                   EXCEPT !.given = IF @ = "keys" THEN "all" ELSE @]]
      /\ returned' = IF tooLong \/ missing THEN "refused" ELSE "done"
      /\ UNCHANGED <<cache, lru>>

-----------------------------------------------------------------------------

(* get_cached_g_table, with what it leaves in the cache and its list.      *)

Entry(x) == [key |-> x.hex, len |-> x.keyLen]

(* A hit makes the entry the youngest.                                     *)
Touched(e) ==
  LET i == CHOOSE i \in DOMAIN lru : lru[i] = e
  IN  Append(RemoveAt(lru, i), e)

(* The oldest entry is given up when there are too many.                   *)
Stored(e) == IF Len(lru) < CacheMax THEN Append(lru, e) ELSE Tail(Append(lru, e))

(* A value of an oversized key does not fit a table: the computation       *)
(* throws.                                                                 *)
CachedTables(x) ==
  LET e == Entry(x)
      hit == x.gTable = Unset /\ e \in DOMAIN cache
      computed == x.gTable = Unset /\ ~ hit /\ Fits(x.keys)
      table == IF computed THEN [key |-> x.keys, rows |-> Rows(x.keyLen)]
               ELSE IF hit THEN cache[e] ELSE x.gTable
  IN  [done |-> x.gTable # Unset \/ hit \/ computed,
       table |-> table,
       cache |-> IF computed
                 THEN [f \in ToSet(Stored(e)) |-> IF f = e THEN table ELSE cache[f]]
                 ELSE cache,
       lru |-> IF computed THEN Stored(e) ELSE IF hit THEN Touched(e) ELSE lru]

(* ensure_tables_ready_: the client, and whether it got so far.            *)
Ensured(x, got) ==
  LET chunked == IF x.chunks = 0 THEN [x EXCEPT !.chunks = Rows(x.keyLen)] ELSE x
      tabled == [chunked EXCEPT !.gTable = got.table]
  IN  CASE x.ready -> [done |-> TRUE, x |-> x]
        [] ~ x.ready /\ ~ got.done -> [done |-> FALSE, x |-> chunked]
        [] ~ x.ready /\ got.done /\ x.noise = Unset /\ ~ Fits(x.keys) ->
             [done |-> FALSE, x |-> tabled]
        [] OTHER -> [done |-> TRUE,
                     x |-> [tabled EXCEPT !.noise = IF @ = Unset THEN x.keys ELSE @,
                                          !.ready = TRUE]]

(* The rows that dump_tables reads.  A load that was refused for missing   *)
(* rows has left message_chunks_ with the old table: of a longer table     *)
(* some rows are left out, and beyond a shorter one, which has no such     *)
(* rows, the vector is read past its end.                                  *)
DumpOutcome(x) ==
  IF x.gTable.rows = x.chunks THEN "whole"
  ELSE IF x.gTable.rows > x.chunks THEN "partial" ELSE "undefined"

(* dump_tables.  Reading past the table gives any numbers, or the process  *)
(* ends, with all its clients and their cache.                             *)
DumpTables(c) ==
  LET x == gpu[c]
      got == CachedTables(x)
      e == Ensured(x, got)
  IN  /\ x # Unset /\ x.kind = "lookup" /\ x.hex # Unset
      /\ \/ /\ gpu' = [gpu EXCEPT ![c] = e.x]
            /\ cache' = (IF x.ready THEN cache ELSE got.cache)
            /\ lru' = (IF x.ready THEN lru ELSE got.lru)
            /\ returned' = IF ~ e.done THEN "refused"
                           ELSE IF DumpOutcome(e.x) = "undefined" THEN "garbage"
                           ELSE DumpOutcome(e.x)
         \/ /\ e.done /\ DumpOutcome(e.x) = "undefined"
            /\ gpu' = [d \in Clients |-> Unset]
            /\ cache' = [f \in {} |-> Unset] /\ lru' = <<>>
            /\ returned' = "none"

(* Bits that the chunks of a vector have no room for are dropped.          *)
WholeVector(x) == x.chunkNum * x.chunkLen >= x.embed

(* What encrypt gives once the tables are on the device.                   *)
CallOutcome(x) ==
  IF x.gTable.rows # x.chunks THEN "refused"
  ELSE IF x.device.g.key # x.hex \/ x.device.noise # x.hex THEN "garbage"
  ELSE IF WholeVector(x) THEN "exact" ELSE "truncated"

Uploaded(x) ==
  IF x.device # Unset THEN x ELSE [x EXCEPT !.device = [g |-> x.gTable, noise |-> x.noise]]

(* encrypt of the lookup client (encrypt_cts takes the same steps for      *)
(* integers).  A call to the device may fail while the tables are copied   *)
(* there, later, or not at all.                                            *)
EncryptOnGPU(c, fails) ==
  LET x == gpu[c]
      got == CachedTables(x)
      e == Ensured(x, got)
      up == Uploaded(e.x)
  IN  /\ x # Unset /\ x.kind = "lookup" /\ x.hex # Unset
      /\ fails = "upload" => e.done /\ e.x.device = Unset
      /\ gpu' = [gpu EXCEPT ![c] = IF e.done /\ fails # "upload" THEN up ELSE e.x]
      /\ cache' = (IF x.ready THEN cache ELSE got.cache)
      /\ lru' = (IF x.ready THEN lru ELSE got.lru)
      /\ returned' = IF e.done /\ fails = "never" THEN CallOutcome(up) ELSE "refused"

(* encrypt of the plain client: of an oversized n_squared only the low     *)
(* words reach the device.                                                 *)
EncryptPlain(c, fails) ==
  LET x == gpu[c]
  IN  /\ x # Unset /\ x.kind = "plain" /\ x.hex # Unset
      /\ returned' = IF fails # "never" THEN "refused" ELSE IF ~ Fits(x.hex) THEN "garbage"
                   ELSE IF WholeVector(x) THEN "exact" ELSE "truncated"
      /\ UNCHANGED <<gpu, cache, lru>>

(* Configurations as stringify_config gives them: without message_chunks   *)
(* (0) if the keys were loaded.                                            *)
GPUConfigs ==
  {s \in [embed : EmbedLens, keyLen : KeyLens, chunks : {0} \cup {Rows(l) : l \in KeyLens}] :
     s.chunks \in {0, Rows(s.keyLen)}}

GPUNext ==
  \E c \in Clients :
    \/ \E kind \in Kinds, k \in GPUKeys \cup {Unset}, len \in KeyLens, embed \in EmbedLens :
         Construct(c, kind, k, len, embed)
    \/ \E k \in GPUKeys : LoadGPUKeys(c, k)
    \/ \E s \in GPUConfigs, rows \in {0, 1} \cup {Rows(l) : l \in KeyLens} :
         LoadGPUConfig(c, s, rows)
    \/ DumpTables(c)
    \/ \E fails \in {"upload", "later", "never"} : EncryptOnGPU(c, fails)
    \/ \E fails \in {"later", "never"} : EncryptPlain(c, fails)

GPUSpec == GPUInit /\ [][GPUNext]_gpuVars

-----------------------------------------------------------------------------

Tables == [key : GPUKeys, rows : {Rows(l) : l \in KeyLens}]

ClientStates ==
  [kind : Kinds, keys : GPUKeys \cup {Unset}, hex : GPUKeys \cup {Unset}, embed : EmbedLens,
   keyLen : KeyLens, chunkLen : KeyLens,
   chunkNum : {ChunkNum(b, l) : b \in EmbedLens, l \in KeyLens},
   chunks : {0} \cup {Rows(l) : l \in KeyLens}, gTable : Tables \cup {Unset},
   noise : GPUKeys \cup {Unset}, ready : BOOLEAN,
   device : [g : Tables, noise : GPUKeys] \cup {Unset}, given : {"none", "keys", "all"}]

(* Type correctness of the clients and of the last result.                 *)
GPUTypeOK ==
  /\ gpu \in [Clients -> ClientStates \cup {Unset}]
  /\ returned \in {"none", "done", "refused", "exact", "truncated", "whole", "partial", "garbage"}

(* The cache in step with the list of its ages: the same entries, none     *)
(* twice and no more than the limit, each a table of its key with the rows *)
(* of its key length.  An entry that only one of them has leaves the other *)
(* with a dangling iterator.                                               *)
CacheAccounted ==
  /\ DOMAIN cache = ToSet(lru) /\ IsInjective(lru) /\ Len(lru) <= CacheMax
  /\ \A e \in DOMAIN cache : cache[e] = [key |-> e.key, rows |-> Rows(e.len)]

(* Tables, in memory and on the device, are of the key in whose name       *)
(* ciphertexts leave, and the device has those of the host: also when keys *)
(* or a configuration were refused half way, and with tables that other    *)
(* clients of the process computed.                                        *)
TablesOfInstalledKey ==
  \A c \in Clients : gpu[c] # Unset /\ gpu[c].kind = "lookup" =>
    LET x == gpu[c]
    IN  /\ x.gTable # Unset => x.gTable.key = x.hex
        /\ x.noise \in {Unset, x.hex}
        /\ x.ready => x.gTable # Unset /\ x.noise # Unset
        /\ x.device # Unset => x.ready /\ x.device = [g |-> x.gTable, noise |-> x.noise]

(* A client that was given its keys and then its configuration, and has    *)
(* refused nothing since, encrypts whole vectors exactly and dumps whole   *)
(* tables, with or without stored tables, as long as the device does not   *)
(* fail.                                                                   *)
CompleteLoadsEncrypt ==
  \A c \in Clients : gpu[c] # Unset /\ gpu[c].given = "all" =>
    LET x == gpu[c]
        e == Ensured(x, CachedTables(x))
    IN  /\ WholeVector(x) /\ Fits(x.hex)
        /\ x.kind = "lookup" =>
             e.done /\ CallOutcome(Uploaded(e.x)) = "exact" /\ DumpOutcome(e.x) = "whole"

(* Tables in memory, on the device and in the shared cache are of the key  *)
(* in whose name ciphertexts leave, also after loads that were refused     *)
(* half way, and complete loads encrypt exactly and dump whole tables.     *)
GPUTablesBelong ==
  /\ GPUTypeOK
  /\ CacheAccounted
  /\ TablesOfInstalledKey
  /\ CompleteLoadsEncrypt
==============================================================================
