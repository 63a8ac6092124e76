------------------------------ MODULE LookupKeys ------------------------------
(***************************************************************************)
(* The life of a PaillierLookupClient: its keys, the tables and the chunk  *)
(* count that encryption needs, the copies an application takes of them    *)
(* (strings, pickles), and the key file of keys.py.  The CPU client is     *)
(* modelled; a key stands for pk and sk, a table for the key it belongs    *)
(* to, and PaillierHamming has the arithmetic.                             *)
(***************************************************************************)
EXTENDS Integers, FiniteSets

CONSTANTS Keys,      \* key pairs
          Chunks,    \* message_chunks of a generated key
          MaxCopies, \* bound on the copies an application keeps
          Nothing,      \* no client, no table, no entry in a file
          Absent, Torn   \* the file before a save and in the middle of one

ASSUME LookupAssumption == /\ Chunks \in Nat \ {0}
                           /\ MaxCopies \in Nat
                           /\ {Nothing, Absent, Torn} \cap Keys = {}

VARIABLES client,    \* the client in memory, or Nothing
          copies,    \* exported states
          file,      \* Absent, Torn or the state that was saved
          saving,    \* the state being written, or Nothing
          lastSaved, \* the state of the last save that ended, or Nothing
          result     \* what the last encrypt or load ended with

lookupVars == <<client, copies, file, saving, lastSaved, result>>

\* configured is a history: the chunk count goes back to a generated key.
Client == [key: Keys, gTable: Keys \cup {Nothing}, noise: Keys \cup {Nothing},
           chunks: {0, Chunks}, configured: BOOLEAN]

\* pk, sk and stringify_config, with the tables or without.
State == [key: Keys, chunks: {0, Chunks}, configured: BOOLEAN,
          tables: {Nothing} \cup [gTable: Keys \cup {Nothing}, noise: Keys \cup {Nothing}]]

LookupInit ==
  /\ client = Nothing
  /\ copies = {}
  /\ file = Absent
  /\ saving = Nothing
  /\ lastSaved = Nothing
  /\ result = "none"

\* PaillierLookup.key_gen.
Generated(k) == [key |-> k, gTable |-> k, noise |-> k, chunks |-> Chunks, configured |-> TRUE]

\* load_stringified_keys: empty tables and no chunks.
WithKeys(k) ==
  [key |-> k, gTable |-> Nothing, noise |-> Nothing, chunks |-> 0, configured |-> FALSE]

\* load_config: stored tables are taken as they are, others are computed for
\* the client's own key; the chunk count comes from the configuration.  The
\* dictionary of dump_tables is never empty, even if both tables in it are.
WithConfig(c, s) ==
  [c EXCEPT !.gTable = IF s.tables = Nothing THEN c.key ELSE s.tables.gTable,
            !.noise = IF s.tables = Nothing THEN c.key ELSE s.tables.noise,
            !.chunks = s.chunks, !.configured = s.configured]

StateOf(c, withTables) ==
  [key |-> c.key, chunks |-> c.chunks, configured |-> c.configured,
   tables |-> IF withTables THEN [gTable |-> c.gTable, noise |-> c.noise] ELSE Nothing]

\* __setstate__ and keys.load: an empty client, the keys, the configuration.
Restored(s) == WithConfig(WithKeys(s.key), s)

Generate(k) ==
  /\ saving = Nothing
  /\ client' = Generated(k)
  /\ UNCHANGED <<copies, file, saving, lastSaved, result>>

\* stringify_pk, stringify_sk, stringify_config, dump_tables; __getstate__.
Export(withTables) ==
  /\ saving = Nothing /\ client # Nothing
  /\ Cardinality(copies) < MaxCopies
  /\ copies' = copies \cup {StateOf(client, withTables)}
  /\ UNCHANGED <<client, file, saving, lastSaved, result>>

\* Mutant: loading keys keeps the tables that are there.
LoadKeysMutant(s) ==
  /\ saving = Nothing
  /\ client' = IF client = Nothing THEN WithKeys(s.key) ELSE [client EXCEPT !.key = s.key]
  /\ UNCHANGED <<copies, file, saving, lastSaved, result>>

LoadKeys(s) ==
  /\ saving = Nothing
  /\ client' = WithKeys(s.key)
  /\ UNCHANGED <<copies, file, saving, lastSaved, result>>

\* The application loads a configuration that was exported with the same key.
LoadConfig(s) ==
  /\ saving = Nothing /\ client # Nothing /\ client.key = s.key
  /\ client' = WithConfig(client, s)
  /\ UNCHANGED <<copies, file, saving, lastSaved, result>>

Unpickle(s) ==
  /\ saving = Nothing
  /\ client' = Restored(s)
  /\ UNCHANGED <<copies, file, saving, lastSaved, result>>

\* What encrypt does with a message other than zero: a missing table raises,
\* tables of another key and missing chunks go unnoticed.
Outcome(c) ==
  IF c.chunks # 0 /\ c.gTable = Nothing THEN "error"
  ELSE IF c.noise = Nothing THEN "error"
  ELSE IF c.chunks = 0 THEN "zero"
  ELSE IF c.gTable = c.key /\ c.noise = c.key THEN "exact" ELSE "garbage"

Encrypt ==
  /\ saving = Nothing
  /\ result' = IF client = Nothing THEN "error" ELSE Outcome(client)
  /\ UNCHANGED <<client, copies, file, saving, lastSaved>>

\* keys.save: the state is read, then the file is truncated.
BeginSave(withTables) ==
  /\ saving = Nothing /\ client # Nothing
  /\ saving' = StateOf(client, withTables)
  /\ file' = Torn
  /\ UNCHANGED <<client, copies, lastSaved, result>>

FinishSave ==
  /\ saving # Nothing
  /\ file' = saving
  /\ lastSaved' = saving
  /\ saving' = Nothing
  /\ UNCHANGED <<client, copies, result>>

\* The process ends, or the write fails, at any point.
Crash ==
  /\ client' = Nothing
  /\ saving' = Nothing
  /\ UNCHANGED <<copies, file, lastSaved, result>>

\* keys.load: a missing file, half a JSON object or, on request, a missing GPU
\* extension raises.
Load ==
  /\ saving = Nothing /\ file \notin {Absent, Torn}
  /\ client' = Restored(file)
  /\ result' = "loaded"
  /\ UNCHANGED <<copies, file, saving, lastSaved>>

LoadFails(gpuMissing) ==
  /\ saving = Nothing /\ (file \in {Absent, Torn} \/ gpuMissing)
  /\ result' = "error"
  /\ UNCHANGED <<client, copies, file, saving, lastSaved>>

LookupNext ==
  \/ \E k \in Keys : Generate(k)
  \/ \E b \in BOOLEAN : Export(b) \/ BeginSave(b) \/ LoadFails(b)
  \/ \E s \in copies : LoadKeys(s) \/ LoadConfig(s) \/ Unpickle(s)
  \/ FinishSave \/ Load \/ Encrypt \/ Crash

LookupSpec == LookupInit /\ [][LookupNext]_lookupVars

----------------------------------------------------------------------------
LookupTypeOK ==
  /\ client \in Client \cup {Nothing}
  /\ copies \subseteq State
  /\ file \in State \cup {Absent, Torn}
  /\ saving \in State \cup {Nothing}
  /\ lastSaved \in State \cup {Nothing}
  /\ result \in {"none", "loaded", "exact", "zero", "garbage", "error"}

\* A client never encrypts with the tables of another key, whatever was loaded
\* over whatever, in whatever order, with or without stored tables.
TablesOfOwnKey ==
  client # Nothing => /\ client.gTable \in {Nothing, client.key}
                   /\ client.noise \in {Nothing, client.key}

\* A client whose configuration goes back to a generated key encrypts every
\* message exactly: no route of strings, pickles or the key file loses a table
\* or a chunk.
ConfiguredEncryptsExactly ==
  (client # Nothing /\ client.configured) => Outcome(client) = "exact"

\* A key file that loads is exactly the last save that ended: a crash between
\* the truncation and the end of the write leaves nothing that mixes an old
\* configuration with new keys.
FileIsLastSave ==
  file \notin {Absent, Torn} => file = lastSaved

\* No order of loading, exporting, saving and crashing gives a lookup client
\* tables of another key, a configured one encrypts exactly, and the key file
\* is the last save or does not load.
LookupKeysStayWhole ==
  /\ LookupTypeOK
  /\ TablesOfOwnKey
  /\ ConfiguredEncryptsExactly
  /\ FileIsLastSave

\* The commented assertion of PaillierLookup.encrypt, g_m == pow(g, plaintext):
\* an encryption that returns encrypts its message.
ReturnsItsMessage == result \notin {"zero", "garbage"}
=============================================================================
