------------------------------ MODULE MCClients ------------------------------
(***************************************************************************)
(* Three machines of client objects, one of them in each behaviour: the    *)
(* caches of a BFVClient, the life of a PaillierLookupClient with its key  *)
(* file, and the host side of the CUDA clients.  The variables of the      *)
(* others keep an initial value.                                           *)
(***************************************************************************)
EXTENDS EvaluatorCache, LookupKeys, GPUClients

CONSTANTS t1, t2, k1, k2, g1, g2, g3

VARIABLE running   \* the machine of this behaviour

Machines == {"caches", "lookup", "gpu"}

(* Two keys of the same parameters, one with a wider layout, and one of    *)
(* others.                                                                 *)
MCBFVKeys == {[id |-> 1, params |-> "prime", padded |-> 4],
              [id |-> 2, params |-> "prime", padded |-> 8],
              [id |-> 3, params |-> "rns", padded |-> 4]}
MCConfigs == {[params |-> "prime", padded |-> 4, bits |-> 50],
              [params |-> "prime", padded |-> 8, bits |-> 50],
              [params |-> "rns", padded |-> 4, bits |-> 60]}

MCSymmetry == Permutations(Threads) \cup Permutations(Keys) \cup Permutations({g1, g2})

-----------------------------------------------------------------------------

Init ==
  /\ running \in Machines
  /\ CacheInit
  /\ running # "caches" =>
       config.padded = 8 /\ backend = "native" /\ ~ shared
  /\ LookupInit
  /\ GPUInit

Others(machine) ==
  /\ running = machine
  /\ UNCHANGED running
  /\ machine # "caches" => UNCHANGED cacheVars
  /\ machine # "lookup" => UNCHANGED lookupVars
  /\ machine # "gpu" => UNCHANGED gpuVars

Next ==
  \/ Others("caches") /\ CacheNext
  \/ Others("lookup") /\ LookupNext
  \/ Others("gpu") /\ GPUNext

Spec == Init /\ [][Next]_<<running, cacheVars, lookupVars, gpuVars>>
=============================================================================
