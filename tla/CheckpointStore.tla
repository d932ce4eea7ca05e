--------------------------- MODULE CheckpointStore ---------------------------
(***************************************************************************)
(* The checkpoint manager over its file store, down to the system calls of *)
(* writeFile: a checkpoint is written to a temporary file in the same      *)
(* directory, synced, closed and renamed over the file of its key.  Every  *)
(* call holds the manager's mutex throughout, so the calls that are one    *)
(* system call are one step.  Each system call may fail; the process may   *)
(* die, or the machine lose power, between any two.                        *)
(*                                                                         *)
(* The file system (external) shows every change at once, and writes the   *)
(* entry of a key back to the disk some time later.  The data of a file is *)
(* on the disk for certain only after Sync: an entry that reaches the disk *)
(* before its data names a torn file after a loss of power.                *)
(***************************************************************************)
EXTENDS Integers, FiniteSets

CONSTANTS
  Workers,     \* goroutines that call the manager
  Keys,        \* checkpoint keys (sandbox IDs)
  Values,      \* contents of checkpoints
  TempNames,   \* names of temporary files
  MaxFaults,   \* bound on failing system calls
  MaxCrashes,  \* bound on deaths of the process and losses of power
  None,        \* no file, no key, no value
  Torn         \* contents that are not those of any checkpoint

\* A key begins with a letter or a digit (ValidateKey), a temporary file with
\* tmpPrefix.
ASSUME NamesAssumption ==
  /\ Keys \cap TempNames = {} /\ None \notin Keys \cup TempNames \cup Workers
  /\ None \notin Values /\ Torn \notin Values /\ None # Torn
ASSUME BoundsAssumption == MaxFaults \in Nat /\ MaxCrashes \in Nat
ASSUME TempNamesAssumption == IsFiniteSet(TempNames)

VARIABLES
  file,     \* the file of each key, None if it does not exist
  synced,   \* is its data on the disk
  disk,     \* what a loss of power leaves in the file of each key
  data,     \* the temporary files, None if one does not exist
  flushed,  \* is its data on the disk
  mutex,    \* holder of checkPointImpl.mutex between two steps
  pc,       \* per worker: the next system call
  key,      \* per worker: checkpointKey
  value,    \* per worker: the blob to write
  temp,     \* per worker: tmpPath
  outcome,  \* per worker: how its last call ended
  got,      \* per worker: what GetCheckpoint read
  listed,   \* per worker: what ListCheckpoints returned
  faults,   \* number of failures so far
  crashes   \* number of deaths and losses of power so far

fileVars == <<file, synced>>
tempVars == <<data, flushed>>
answers == <<got, listed>>
vars == <<fileVars, disk, tempVars, mutex, pc, key, value, temp, outcome,
          answers, faults, crashes>>

WritePCs == {"write", "sync", "close", "rename", "cleanUp"}
PCs == {"idle", "tempFile", "read", "delete", "list"} \cup WritePCs

Init ==
  /\ file = [k \in Keys |-> None]
  /\ synced = [k \in Keys |-> TRUE]
  /\ disk = [k \in Keys |-> None]
  /\ data = [t \in TempNames |-> None]
  /\ flushed = [t \in TempNames |-> FALSE]
  /\ mutex = None
  /\ pc = [w \in Workers |-> "idle"]
  /\ key = [w \in Workers |-> None]
  /\ value = [w \in Workers |-> None]
  /\ temp = [w \in Workers |-> None]
  /\ outcome = [w \in Workers |-> "none"]
  /\ got = [w \in Workers |-> None]
  /\ listed = [w \in Workers |-> {}]
  /\ faults = 0 /\ crashes = 0

Fault == faults < MaxFaults /\ faults' = faults + 1
NoFault == faults' = faults

Goto(w, l) ==
  /\ pc' = [pc EXCEPT ![w] = l]
  /\ UNCHANGED <<mutex, key, value, temp, outcome>>

\* The deferred Unlock and the return.
Return(w, res) ==
  /\ mutex' = None
  /\ pc' = [pc EXCEPT ![w] = "idle"]
  /\ key' = [key EXCEPT ![w] = None]
  /\ value' = [value EXCEPT ![w] = None]
  /\ temp' = [temp EXCEPT ![w] = None]
  /\ outcome' = [outcome EXCEPT ![w] = res]

-----------------------------------------------------------------------------
(* The calls.                                                              *)

Call(w, l, k, v) ==
  /\ pc[w] = "idle"
  /\ pc' = [pc EXCEPT ![w] = l]
  /\ key' = [key EXCEPT ![w] = k]
  /\ value' = [value EXCEPT ![w] = v]
  /\ outcome' = [outcome EXCEPT ![w] = "none"]
  /\ UNCHANGED <<fileVars, disk, tempVars, mutex, temp, answers, faults, crashes>>

CreateCheckpoint(w, k, v) == Call(w, "tempFile", k, v)
GetCheckpoint(w, k) == Call(w, "read", k, None)
RemoveCheckpoint(w, k) == Call(w, "delete", k, None)
ListCheckpoints(w) == Call(w, "list", None, None)

\* The mutex, ensureDirectory and TempFile.
TempFile(w) ==
  /\ pc[w] = "tempFile" /\ mutex = None
  /\ \/ \E t \in TempNames :
          /\ data[t] = None
          /\ data' = [data EXCEPT ![t] = Torn]
          /\ flushed' = [flushed EXCEPT ![t] = FALSE]
          /\ temp' = [temp EXCEPT ![w] = t]
          /\ mutex' = w
          /\ pc' = [pc EXCEPT ![w] = "write"]
          /\ NoFault
          /\ UNCHANGED <<key, value, outcome>>
     \/ Fault /\ Return(w, "failed") /\ UNCHANGED tempVars
  /\ UNCHANGED <<fileVars, disk, answers, crashes>>

\* Slip: the file is not synced.
WriteUnsynced(w) ==
  /\ pc[w] = "write"
  /\ data' = [data EXCEPT ![temp[w]] = value[w]] /\ NoFault /\ Goto(w, "close")
  /\ UNCHANGED <<fileVars, disk, flushed, answers, crashes>>

Write(w) ==
  /\ pc[w] = "write"
  /\ \/ data' = [data EXCEPT ![temp[w]] = value[w]] /\ NoFault /\ Goto(w, "sync")
     \/ Fault /\ Goto(w, "cleanUp") /\ UNCHANGED data
  /\ UNCHANGED <<fileVars, disk, flushed, answers, crashes>>

Sync(w) ==
  /\ pc[w] = "sync"
  /\ \/ flushed' = [flushed EXCEPT ![temp[w]] = TRUE] /\ NoFault /\ Goto(w, "close")
     \/ Fault /\ Goto(w, "cleanUp") /\ UNCHANGED flushed
  /\ UNCHANGED <<fileVars, disk, data, answers, crashes>>

Close(w) ==
  /\ pc[w] = "close"
  /\ \/ NoFault /\ Goto(w, "rename")
     \/ Fault /\ Goto(w, "cleanUp")
  /\ UNCHANGED <<fileVars, disk, tempVars, answers, crashes>>

\* The file of the key is replaced, or stays as it is.
Rename(w) ==
  /\ pc[w] = "rename"
  /\ \/ /\ file' = [file EXCEPT ![key[w]] = data[temp[w]]]
        /\ synced' = [synced EXCEPT ![key[w]] = flushed[temp[w]]]
        /\ data' = [data EXCEPT ![temp[w]] = None]
        /\ NoFault /\ Return(w, "ok")
     \/ Fault /\ Goto(w, "cleanUp") /\ UNCHANGED <<fileVars, data>>
  /\ UNCHANGED <<disk, flushed, answers, crashes>>

\* The deferred clean-up of writeFile; the error of removePath is reported,
\* and the file left behind.
CleanUp(w) ==
  /\ pc[w] = "cleanUp"
  /\ \/ data' = [data EXCEPT ![temp[w]] = None] /\ NoFault
     \/ Fault /\ UNCHANGED data
  /\ Return(w, "failed")
  /\ UNCHANGED <<fileVars, disk, flushed, answers, crashes>>

\* A missing file is ErrCheckpointNotFound (None); one that does not parse or
\* does not match its checksum is an error of its own (Torn).
Read(w) ==
  /\ pc[w] = "read" /\ mutex = None
  /\ \/ got' = [got EXCEPT ![w] = file[key[w]]] /\ NoFault /\ Return(w, "ok")
     \/ Fault /\ Return(w, "failed") /\ UNCHANGED got
  /\ UNCHANGED <<fileVars, disk, tempVars, listed, crashes>>

\* Slip: the removal is tried until there was a file to remove.
DeleteRetries(w) ==
  /\ pc[w] = "delete" /\ mutex = None
  /\ IF file[key[w]] = None THEN UNCHANGED <<file, mutex, pc, key, value, temp, outcome, faults>>
     ELSE file' = [file EXCEPT ![key[w]] = None] /\ NoFault /\ Return(w, "ok")
  /\ UNCHANGED <<synced, disk, tempVars, answers, crashes>>

Delete(w) ==
  /\ pc[w] = "delete" /\ mutex = None
  /\ \/ file' = [file EXCEPT ![key[w]] = None] /\ NoFault /\ Return(w, "ok")
     \/ Fault /\ Return(w, "failed") /\ UNCHANGED file
  /\ UNCHANGED <<synced, disk, tempVars, answers, crashes>>

ReadDir == {k \in Keys : file[k] # None} \cup {t \in TempNames : data[t] # None}

\* Slip: every file is taken for a checkpoint.
ListAll(w) ==
  /\ pc[w] = "list" /\ mutex = None
  /\ listed' = [listed EXCEPT ![w] = ReadDir] /\ NoFault /\ Return(w, "ok")
  /\ UNCHANGED <<fileVars, disk, tempVars, got, crashes>>

List(w) ==
  /\ pc[w] = "list" /\ mutex = None
  /\ \/ listed' = [listed EXCEPT ![w] = ReadDir \ TempNames] /\ NoFault /\ Return(w, "ok")
     \/ Fault /\ Return(w, "failed") /\ UNCHANGED listed
  /\ UNCHANGED <<fileVars, disk, tempVars, got, crashes>>

-----------------------------------------------------------------------------
(* The file system, and what ends the process.                             *)

WriteBack(k) ==
  /\ disk[k] # file[k]
  /\ \E d \in IF synced[k] \/ file[k] = None THEN {file[k]} ELSE {file[k], Torn} :
       disk' = [disk EXCEPT ![k] = d]
  /\ UNCHANGED <<fileVars, tempVars, mutex, pc, key, value, temp, outcome,
                 answers, faults, crashes>>

\* The calls in progress, and with them the mutex, are gone.
Stopped ==
  /\ crashes < MaxCrashes /\ crashes' = crashes + 1
  /\ mutex' = None
  /\ pc' = [w \in Workers |-> "idle"]
  /\ key' = [w \in Workers |-> None]
  /\ value' = [w \in Workers |-> None]
  /\ temp' = [w \in Workers |-> None]
  /\ outcome' = [w \in Workers |-> "none"]
  /\ got' = [w \in Workers |-> None]
  /\ listed' = [w \in Workers |-> {}]

\* NewFileStore creates the directory if need be, and looks at no file.
Crash ==
  /\ Stopped
  /\ UNCHANGED <<fileVars, disk, tempVars, faults>>

\* Each temporary file may be gone or damaged.
PowerLoss ==
  /\ Stopped
  /\ file' = disk
  /\ synced' = [k \in Keys |-> TRUE]
  /\ \E gone \in SUBSET TempNames :
       data' = [t \in TempNames |-> IF t \in gone \/ data[t] = None THEN None ELSE Torn]
  /\ UNCHANGED <<disk, flushed, faults>>

Step(w) ==
  \/ TempFile(w) \/ Write(w) \/ Sync(w) \/ Close(w) \/ Rename(w) \/ CleanUp(w)
  \/ Read(w) \/ Delete(w) \/ List(w)

Next ==
  \/ \E w \in Workers :
       \/ \E k \in Keys, v \in Values : CreateCheckpoint(w, k, v)
       \/ \E k \in Keys : GetCheckpoint(w, k) \/ RemoveCheckpoint(w, k)
       \/ ListCheckpoints(w)
       \/ Step(w)
  \/ \E k \in Keys : WriteBack(k)
  \/ Crash
  \/ PowerLoss

Spec == Init /\ [][Next]_vars

\* System calls return, and a goroutine blocked on a sync.Mutex gets it when
\* it is unlocked often enough.
LiveSpec == Spec /\ \A w \in Workers : SF_vars(Step(w))

-----------------------------------------------------------------------------
(* Correctness.                                                            *)

\* Every variable has its type; the mutex is held between two steps by the
\* one worker inside writeFile, which has a temporary file that exists.
TypeOK ==
  /\ file \in [Keys -> Values \cup {None, Torn}]
  /\ synced \in [Keys -> BOOLEAN]
  /\ disk \in [Keys -> Values \cup {None, Torn}]
  /\ data \in [TempNames -> Values \cup {None, Torn}]
  /\ flushed \in [TempNames -> BOOLEAN]
  /\ mutex \in Workers \cup {None}
  /\ pc \in [Workers -> PCs]
  /\ key \in [Workers -> Keys \cup {None}]
  /\ value \in [Workers -> Values \cup {None}]
  /\ temp \in [Workers -> TempNames \cup {None}]
  /\ outcome \in [Workers -> {"none", "ok", "failed"}]
  /\ got \in [Workers -> Values \cup {None, Torn}]
  /\ listed \in [Workers -> SUBSET (Keys \cup TempNames)]
  /\ faults \in 0..MaxFaults /\ crashes \in 0..MaxCrashes
  /\ \A w \in Workers : pc[w] \in WritePCs <=> mutex = w
  /\ \A w \in Workers : pc[w] \in WritePCs => temp[w] \in TempNames /\ data[temp[w]] # None

\* writeFile replaces a checkpoint as a whole: neither a failing call, nor
\* the death of the process, nor a loss of power leaves a file under a key
\* that is not the complete data of some CreateCheckpoint.
NeverTorn == \A k \in Keys : file[k] # Torn /\ disk[k] # Torn

\* Every call of the manager returns.
EveryCallReturns == \A w \in Workers : []<>(pc[w] = "idle")

op == [w \in Workers |->
         IF pc[w] = "idle" THEN "none"
         ELSE IF pc[w] = "read" THEN "get"
         ELSE IF pc[w] = "delete" THEN "remove"
         ELSE IF pc[w] = "list" THEN "list"
         ELSE "put"]

Abstract == INSTANCE AtomicStore WITH stored <- file, durable <- disk

\* The manager and the file store implement the atomic store: concurrent
\* calls, each of several system calls any of which may fail, take effect in
\* one step or not at all, in spite of deaths of the process.
ImplementsAtomicStore == Abstract!Spec
=============================================================================
