--------------------------- MODULE PrivateDecoder ---------------------------
(***************************************************************************)
(* One native private decoder (bfv/private.py and, below it, the C++       *)
(* objects of private_decoder.h and private_bindings.cpp) used by several  *)
(* Python threads: decode_packed decodes one ciphertext after the other,   *)
(* close wipes the key.  Two locks: the interpreter's GIL, and the mutex   *)
(* of the decoder, taken and left with the GIL released.                   *)
(***************************************************************************)
EXTENDS Naturals, FiniteSets

CONSTANTS
  DecoderThreads,
  Groups,    \* ciphertexts of one response
  MaxCalls,  \* calls that a thread makes
  Nobody

ASSUME DecoderAssumption ==
  /\ Nobody \notin DecoderThreads
  /\ Groups \in Nat \ {0}
  /\ MaxCalls \in Nat \ {0}

VARIABLES
  gil,      \* the thread that runs Python code, or Nobody
  mutex,    \* the holder of mutex_, or Nobody
  closed,   \* closed_
  spectra,  \* spectra[i]: the transform of the secret modulo prime i, or zeros
  at,       \* at[t]: where thread t is
  job,      \* job[t]: "decode" or "close"
  group,    \* group[t]: the ciphertext that decode_packed is at
  error,    \* error[t]: an exception is on its way up
  calls,    \* calls[t]: calls begun by t
  \* history, read by no action:
  sound,    \* sound[t]: all of the key that the call of t has read was the key
  late,     \* late[t]: a close had returned before the call of t began
  shut,     \* a close has returned
  results   \* [sound, late] of every decode_packed that returned distances

sharedVars == <<gil, mutex, closed, spectra>>

threadVars == <<at, job, group, error, calls>>

historyVars == <<sound, late, shut, results>>

decoderVars == <<sharedVars, threadVars, historyVars>>

(* Places in Python code, with the GIL; ...                                *)
InPython == {"loop", "end"}

(* ... outside both locks; ...                                             *)
Outside == {"idle", "wait", "back"}

(* ... and under the mutex.                                                *)
Locked == {"test", "first", "second", "wipe1", "wipe2", "shut"}

DecoderTypeOK ==
  /\ gil \in DecoderThreads \cup {Nobody}
  /\ mutex \in DecoderThreads \cup {Nobody}
  /\ closed \in BOOLEAN
  /\ spectra \in [1..2 -> {"key", "zero"}]
  /\ at \in [DecoderThreads -> InPython \cup Outside \cup Locked]
  /\ job \in [DecoderThreads -> {"decode", "close"}]
  /\ group \in [DecoderThreads -> 1..Groups]
  /\ error \in [DecoderThreads -> BOOLEAN]
  /\ calls \in [DecoderThreads -> 0..MaxCalls]
  /\ sound \in [DecoderThreads -> BOOLEAN]
  /\ late \in [DecoderThreads -> BOOLEAN]
  /\ shut \in BOOLEAN
  /\ results \subseteq [sound : BOOLEAN, late : BOOLEAN]

(* create_decoder: both spectra are imported before anyone has the handle. *)
DecoderInit ==
  /\ gil = Nobody
  /\ mutex = Nobody
  /\ closed = FALSE
  /\ spectra = [i \in 1..2 |-> "key"]
  /\ at = [t \in DecoderThreads |-> "idle"]
  /\ job = [t \in DecoderThreads |-> "decode"]
  /\ group = [t \in DecoderThreads |-> 1]
  /\ error = [t \in DecoderThreads |-> FALSE]
  /\ calls = [t \in DecoderThreads |-> 0]
  /\ sound = [t \in DecoderThreads |-> TRUE]
  /\ late = [t \in DecoderThreads |-> FALSE]
  /\ shut = FALSE
  /\ results = {}

(* A thread that runs Python calls decode_packed or close.                 *)
Call(t, j) ==
  /\ at[t] = "idle"
  /\ gil = Nobody
  /\ calls[t] < MaxCalls
  /\ gil' = t
  /\ at' = [at EXCEPT ![t] = "loop"]
  /\ job' = [job EXCEPT ![t] = j]
  /\ group' = [group EXCEPT ![t] = 1]
  /\ error' = [error EXCEPT ![t] = FALSE]
  /\ calls' = [calls EXCEPT ![t] = @ + 1]
  /\ sound' = [sound EXCEPT ![t] = TRUE]
  /\ late' = [late EXCEPT ![t] = shut]
  /\ UNCHANGED <<mutex, closed, spectra, shut, results>>

(* decode_slots in Python and read_component in C++: a ciphertext that is  *)
(* not the exact terminal response is an error.                            *)
RejectWire(t) ==
  /\ at[t] = "loop"
  /\ job[t] = "decode"
  /\ at' = [at EXCEPT ![t] = "end"]
  /\ error' = [error EXCEPT ![t] = TRUE]
  /\ UNCHANGED <<sharedVars, job, group, calls, historyVars>>

(* WithoutGIL: the GIL is given back before the mutex is asked for.        *)
ReleaseGIL(t) ==
  /\ at[t] = "loop"
  /\ gil' = Nobody
  /\ at' = [at EXCEPT ![t] = "wait"]
  /\ UNCHANGED <<mutex, closed, spectra, job, group, error, calls, historyVars>>

(* Mutant: close wipes without taking the mutex.                           *)
MayEnterToClose(t) == mutex = Nobody \/ job[t] = "close"

MayEnter(t) == mutex = Nobody

(* lock_guard of decode and of close.                                      *)
Enter(t) ==
  /\ at[t] = "wait"
  /\ MayEnter(t)
  /\ mutex' = t
  /\ at' = [at EXCEPT ![t] = IF job[t] = "decode" THEN "test" ELSE "wipe1"]
  /\ UNCHANGED <<gil, closed, spectra, job, group, error, calls, historyVars>>

(* Mutant: an exception leaves the mutex locked.                           *)
FailLocked(t) ==
  /\ at[t] = "test"
  /\ at' = [at EXCEPT ![t] = "back"]
  /\ error' = [error EXCEPT ![t] = TRUE]
  /\ UNCHANGED <<sharedVars, job, group, calls, historyVars>>

(* decode goes on when the decoder is open.                                *)
TestOpen(t) ==
  /\ at[t] = "test"
  /\ ~closed
  /\ at' = [at EXCEPT ![t] = "first"]
  /\ UNCHANGED <<sharedVars, job, group, error, calls, historyVars>>

(* It throws when it is closed, and whenever its locked work buffer cannot *)
(* be had; lock_guard leaves the mutex.                                    *)
Fail(t) ==
  /\ at[t] = "test"
  /\ mutex' = Nobody
  /\ at' = [at EXCEPT ![t] = "back"]
  /\ error' = [error EXCEPT ![t] = TRUE]
  /\ UNCHANGED <<gil, closed, spectra, job, group, calls, historyVars>>

(* The products with the secret, modulo one prime and then the other.      *)
MultiplyFirst(t) ==
  /\ at[t] = "first"
  /\ sound' = [sound EXCEPT ![t] = @ /\ spectra[1] = "key"]
  /\ at' = [at EXCEPT ![t] = "second"]
  /\ UNCHANGED <<sharedVars, job, group, error, calls, late, shut, results>>

MultiplySecond(t) ==
  /\ at[t] = "second"
  /\ sound' = [sound EXCEPT ![t] = @ /\ spectra[2] = "key"]
  /\ mutex' = Nobody
  /\ at' = [at EXCEPT ![t] = "back"]
  /\ UNCHANGED <<gil, closed, spectra, job, group, error, calls, late, shut, results>>

(* close: the spectra are overwritten from the front, then the flag is set.*)
WipeFirst(t) ==
  /\ at[t] = "wipe1"
  /\ spectra' = [spectra EXCEPT ![1] = "zero"]
  /\ at' = [at EXCEPT ![t] = "wipe2"]
  /\ UNCHANGED <<gil, mutex, closed, job, group, error, calls, historyVars>>

WipeSecond(t) ==
  /\ at[t] = "wipe2"
  /\ spectra' = [spectra EXCEPT ![2] = "zero"]
  /\ at' = [at EXCEPT ![t] = "shut"]
  /\ UNCHANGED <<gil, mutex, closed, job, group, error, calls, historyVars>>

SetClosed(t) ==
  /\ at[t] = "shut"
  /\ closed' = TRUE
  /\ mutex' = Nobody
  /\ at' = [at EXCEPT ![t] = "back"]
  /\ UNCHANGED <<gil, spectra, job, group, error, calls, historyVars>>

(* The loop of decode_packed.                                              *)
MoreGroups(t) == job[t] = "decode" /\ ~error[t] /\ group[t] < Groups

(* The end of WithoutGIL: back in Python, for the next ciphertext or to    *)
(* the end of the call.                                                    *)
TakeGIL(t) ==
  /\ at[t] = "back"
  /\ gil = Nobody
  /\ gil' = t
  /\ IF MoreGroups(t)
     THEN /\ group' = [group EXCEPT ![t] = @ + 1]
          /\ at' = [at EXCEPT ![t] = "loop"]
     ELSE /\ at' = [at EXCEPT ![t] = "end"]
          /\ UNCHANGED group
  /\ UNCHANGED <<mutex, closed, spectra, job, error, calls, historyVars>>

(* The call returns; decode_packed returns the distances of all groups, or *)
(* raises when one of them is out of range.                                *)
Return(t) ==
  /\ at[t] = "end"
  /\ gil' = Nobody
  /\ at' = [at EXCEPT ![t] = "idle"]
  /\ shut' = (shut \/ job[t] = "close")
  /\ results' \in
       IF job[t] = "decode" /\ ~error[t]
       THEN {results, results \cup {[sound |-> sound[t], late |-> late[t]]}}
       ELSE {results}
  /\ UNCHANGED <<mutex, closed, spectra, job, group, error, calls, sound, late>>

Step(t) ==
  \/ RejectWire(t) \/ ReleaseGIL(t) \/ Enter(t)
  \/ TestOpen(t) \/ Fail(t) \/ MultiplyFirst(t) \/ MultiplySecond(t)
  \/ WipeFirst(t) \/ WipeSecond(t) \/ SetClosed(t)
  \/ TakeGIL(t) \/ Return(t)

DecoderNext == \E t \in DecoderThreads : Step(t) \/ \E j \in {"decode", "close"} : Call(t, j)

DecoderSpec == DecoderInit /\ [][DecoderNext]_decoderVars

(* DecoderThreads run, and the two locks are given to a thread that waits once    *)
(* they stay free.                                                         *)
FairDecoderSpec == DecoderSpec /\ \A t \in DecoderThreads : WF_decoderVars(Step(t))

-----------------------------------------------------------------------------

(* Distances are never computed with a key that is wiped, in whole or in   *)
(* part, by a close that runs at the same time or before ("Wipe native key *)
(* buffers; wait for an active decode").                                   *)
LiveKeyOnly == \A r \in results : r.sound

(* Once a close has returned, no later call returns distances ("reject     *)
(* future ones").                                                          *)
ClosedIsFinal == \A r \in results : ~r.late

(* Neither lock is ever waited for in vain: every call returns, whichever  *)
(* way the others end ("Waiting for an in-flight decoder must not hold the *)
(* GIL it needs to return").                                               *)
CallsReturn == \A t \in DecoderThreads : at[t] # "idle" ~> at[t] = "idle"

(* Why these hold: each lock is held exactly in its places; ...            *)
LockInv == \A t \in DecoderThreads :
  /\ at[t] \in Locked <=> mutex = t
  /\ at[t] \in InPython <=> gil = t
  /\ at[t] \in {"test", "first", "second"} => job[t] = "decode"
  /\ at[t] \in {"wipe1", "wipe2", "shut"} => job[t] = "close"

(* ... the key is whole as long as the decoder is open and nobody wipes    *)
(* it; ...                                                                 *)
KeyInv ==
  /\ ~closed /\ (\A t \in DecoderThreads : at[t] \notin {"wipe2", "shut"}) =>
       spectra = [i \in 1..2 |-> "key"]
  /\ \A t \in DecoderThreads : at[t] \in {"first", "second"} => ~closed

(* ... a close that is past the mutex has closed the decoder; ...          *)
ShutInv ==
  /\ shut => closed
  /\ \A t \in DecoderThreads : job[t] = "close" /\ at[t] \in {"back", "end"} => closed

(* ... and a call that comes late is an error from its first ciphertext on.*)
CallInv == \A t \in DecoderThreads :
  /\ sound[t]
  /\ at[t] # "idle" /\ late[t] =>
       /\ closed
       /\ job[t] = "decode" /\ at[t] \in {"back", "end"} => error[t]

(* The inductive invariant of the proofs.                                  *)
DecoderInv == LockInv /\ KeyInv /\ ShutInv /\ CallInv /\ LiveKeyOnly /\ ClosedIsFinal
=============================================================================
