------------------------------ MODULE NitroNSM ------------------------------
(***************************************************************************)
(* NitroNSM (hamming/bfv_nitro.py): one NSM device in libnsm.so, used by   *)
(* the threads of the enclave.  ctypes releases the GIL around a library   *)
(* call, so only self._lock keeps the calls apart; the number of a closed  *)
(* descriptor may name another file of the process.                        *)
(***************************************************************************)
EXTENDS Naturals

CONSTANTS
  Threads,
  Nobody,      \* self._lock is free
  MaxDocument, \* MAX_NITRO_DOCUMENT_BYTES
  SeedLength   \* 32

ASSUME NSMAssumption ==
  /\ Nobody \notin Threads
  /\ MaxDocument \in Nat \ {0}
  /\ SeedLength \in Nat \ {0}

VARIABLES
  fd,       \* self._fd >= 0
  device,   \* the library has the descriptor open
  exits,    \* nsm_lib_exit calls begun
  lock,     \* the holder of self._lock
  thread    \* thread[t]: what t does: its operation and the point it is at

nsmVars == <<fd, device, exits, lock, thread>>

Operations == {"random_seed", "attest", "close"}

Free == [op |-> "none", at |-> "free"]

At(op, at) == [op |-> op, at |-> at]

(* The device writes up to one byte more than was asked for.               *)
Lengths == 0 .. (IF MaxDocument >= SeedLength THEN MaxDocument ELSE SeedLength) + 1

NSMTypeOK ==
  /\ fd \in BOOLEAN
  /\ device \in BOOLEAN
  /\ exits \in Nat
  /\ lock \in Threads \cup {Nobody}
  /\ thread \in [Threads ->
       {Free} \cup
       [op : Operations, at : {"waiting", "locked", "calling", "failed", "closed"}] \cup
       [op : Operations, at : {"returned"}, length : Lengths]]

(* The device is there, or __init__ raises and there is no object.         *)
NSMInit ==
  /\ fd = TRUE
  /\ device = TRUE
  /\ exits = 0
  /\ lock = Nobody
  /\ thread = [t \in Threads |-> Free]

(* A thread calls one of the three methods.                                *)
Begin(t, op) ==
  /\ thread[t].at \in {"free", "returned", "failed", "closed"}
  /\ thread' = [thread EXCEPT ![t] = At(op, "waiting")]
  /\ UNCHANGED <<fd, device, exits, lock>>

(* Mutant: a method starts without the lock.                               *)
AcquireMutant(t) == thread[t].at = "waiting"

MayAcquire(t) == thread[t].at = "waiting" /\ lock = Nobody

(* with self._lock                                                         *)
Acquire(t) ==
  /\ MayAcquire(t)
  /\ lock' = t
  /\ thread' = [thread EXCEPT ![t].at = "locked"]
  /\ UNCHANGED <<fd, device, exits>>

(* self._fd >= 0                                                           *)
FdValid(t) == fd

(* The library is entered with a descriptor, and leaves Python's control.  *)
Call(t) ==
  /\ thread[t].at = "locked"
  /\ FdValid(t)
  /\ thread' = [thread EXCEPT ![t].at = "calling"]
  /\ exits' = IF thread[t].op = "close" THEN exits + 1 ELSE exits
  /\ UNCHANGED <<fd, device, lock>>

(* Without one nothing is called: close is done, the others raise.         *)
Closed(t) ==
  /\ thread[t].at = "locked"
  /\ ~ FdValid(t)
  /\ thread' = [thread EXCEPT ![t].at = IF thread[t].op = "close" THEN "closed" ELSE "failed"]
  /\ lock' = Nobody
  /\ UNCHANGED <<fd, device, exits>>

(* The length that the device reports is believed only if it can be right. *)
LengthOK(op, length) ==
  IF op = "attest" THEN 0 < length /\ length <= MaxDocument ELSE length = SeedLength

(* random_seed or attest comes back, with status 0 and a length ...        *)
Return(t, length) ==
  /\ thread[t].at = "calling"
  /\ thread[t].op # "close"
  /\ thread' = [thread EXCEPT ![t] =
       IF LengthOK(thread[t].op, length)
       THEN [op |-> thread[t].op, at |-> "returned", length |-> length]
       ELSE At(thread[t].op, "failed")]
  /\ lock' = Nobody
  /\ UNCHANGED <<fd, device, exits>>

(* ... or with an error.                                                   *)
CallFails(t) ==
  /\ thread[t].at = "calling"
  /\ thread[t].op # "close"
  /\ thread' = [thread EXCEPT ![t].at = "failed"]
  /\ lock' = Nobody
  /\ UNCHANGED <<fd, device, exits>>

(* nsm_lib_exit closes the descriptor some time during the call ...        *)
Exit(t) ==
  /\ thread[t] = At("close", "calling")
  /\ device
  /\ device' = FALSE
  /\ UNCHANGED <<fd, exits, lock, thread>>

(* ... and after it the number is forgotten, still under the lock.         *)
Forget(t) ==
  /\ thread[t] = At("close", "calling")
  /\ ~ device
  /\ fd' = FALSE
  /\ lock' = Nobody
  /\ thread' = [thread EXCEPT ![t].at = "closed"]
  /\ UNCHANGED <<device, exits>>

(* What a thread does once it has the lock.                                *)
Proceed(t) ==
  \/ Call(t) \/ Closed(t) \/ CallFails(t) \/ Exit(t) \/ Forget(t)
  \/ \E length \in Lengths : Return(t, length)

NSMNext == \E t \in Threads :
  \/ \E op \in Operations : Begin(t, op)
  \/ Acquire(t)
  \/ Proceed(t)

NSMSpec == NSMInit /\ [][NSMNext]_nsmVars

-----------------------------------------------------------------------------

InCall(t) == thread[t].at = "calling"

(* No call is ever in the library with a descriptor that is being closed   *)
(* or has been closed, so none reaches another file of the process         *)
(* ("excluding concurrent NSM calls").                                     *)
NoCallOnClosedDevice == \A t \in Threads : InCall(t) /\ thread[t].op # "close" =>
  device /\ \A u \in Threads \ {t} : ~ InCall(u)

(* The descriptor is closed at most once, by whichever threads close it    *)
(* ("Close the device once").                                              *)
ClosedOnce == exits <= 1 /\ (~ device => exits = 1)

(* A caller gets exactly what the device wrote: a whole seed, or a         *)
(* document that fits its buffer.                                          *)
ResultsWhole == \A t \in Threads : thread[t].at = "returned" =>
  IF thread[t].op = "attest"
  THEN thread[t].length \in 1 .. MaxDocument
  ELSE thread[t].op = "random_seed" /\ thread[t].length = SeedLength
=============================================================================
