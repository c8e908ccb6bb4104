------------------------------ MODULE KeyStore -------------------------------
(***************************************************************************)
(* ValidatorKeyManager of validator_keys.rs with its two files: the key    *)
(* file and the rotation history.  A write may fail, and a failing write   *)
(* or a crash in one may leave a torn file.  Keys are their addresses; the *)
(* ciphers, schemes and passwords are left out, a wrong password being a   *)
(* call that changes nothing.                                              *)
(***************************************************************************)
EXTENDS Integers, Sequences

CONSTANTS
  Addresses,
  NoKeys,         \* no key file, no keys in memory, the all-zero old address
  Torn,           \* a file that was not written to its end
  MaxHistory      \* bound on the rotations of the history

ASSUME KeyStoreAssumption ==
  /\ NoKeys \notin Addresses /\ Torn \notin Addresses /\ NoKeys # Torn /\ MaxHistory \in Nat

VARIABLES
  keyFile,        \* validator_keys.enc
  historyFile,    \* rotation_history.json; no file is an empty history
  running,        \* whether the process runs
  currentKeys,    \* current_keys
  history,        \* rotation_history
  rotating,       \* the new keys of a rotation whose key file is written
  saved           \* all addresses whose key file was ever complete

keyStoreVars == <<keyFile, historyFile, running, currentKeys, history, rotating, saved>>

KeyStoreInit ==
  /\ keyFile = NoKeys /\ historyFile = << >>
  /\ running = FALSE /\ currentKeys = NoKeys /\ history = << >> /\ rotating = NoKeys
  /\ saved = {}

-----------------------------------------------------------------------------
(* ValidatorKeyManager::new: an unreadable history is an empty one.         *)
Start ==
  /\ ~running
  /\ running' = TRUE
  /\ history' = IF historyFile = Torn THEN << >> ELSE historyFile
  /\ currentKeys' = NoKeys /\ rotating' = NoKeys
  /\ UNCHANGED <<keyFile, historyFile, saved>>

Ready == running /\ rotating = NoKeys

LoadKeys ==
  /\ Ready /\ keyFile \in Addresses
  /\ currentKeys' = keyFile
  /\ UNCHANGED <<keyFile, historyFile, running, history, rotating, saved>>

Written(address) == keyFile' = address /\ saved' = saved \cup {address}
NotWritten == keyFile' \in {keyFile, Torn} /\ UNCHANGED saved

SaveKeys(address) ==
  /\ Ready
  /\ Written(address) \/ NotWritten
  /\ UNCHANGED <<historyFile, running, currentKeys, history, rotating>>

(* Mutant: the history knows of the rotation before the key file is written.*)
RotateRecordsFirst(address) ==
  /\ Ready /\ Len(history) < MaxHistory
  /\ history' = Append(history, [old |-> currentKeys, new |-> address])
  /\ \/ Written(address) /\ rotating' = address
     \/ NotWritten /\ UNCHANGED rotating
  /\ UNCHANGED <<historyFile, running, currentKeys>>

(* rotate_keys: new keys go to the key file; the history in memory knows of *)
(* them only if that succeeds.                                              *)
RotateKeys(address) ==
  /\ Ready /\ Len(history) < MaxHistory
  /\ \/ /\ Written(address)
        /\ rotating' = address
        /\ history' = Append(history, [old |-> currentKeys, new |-> address])
     \/ NotWritten /\ UNCHANGED <<rotating, history>>
  /\ UNCHANGED <<historyFile, running, currentKeys>>

(* The history is written; if that fails the call fails, and the old keys   *)
(* stay the current ones in memory although the key file has the new ones.  *)
SaveRotationHistory ==
  /\ running /\ rotating # NoKeys
  /\ \/ historyFile' = history /\ currentKeys' = rotating
     \/ historyFile' \in {historyFile, Torn} /\ UNCHANGED currentKeys
  /\ rotating' = NoKeys
  /\ UNCHANGED <<keyFile, running, history, saved>>

Crash ==
  /\ running
  /\ running' = FALSE /\ currentKeys' = NoKeys /\ rotating' = NoKeys /\ history' = << >>
  /\ IF rotating = NoKeys THEN keyFile' \in {keyFile, Torn} /\ UNCHANGED historyFile
                          ELSE historyFile' \in {historyFile, Torn} /\ UNCHANGED keyFile
  /\ UNCHANGED saved

KeyStoreNext ==
  \/ Start \/ LoadKeys \/ SaveRotationHistory \/ Crash
  \/ \E address \in Addresses : SaveKeys(address) \/ RotateKeys(address)

-----------------------------------------------------------------------------
Rotations(h) == IF h = Torn THEN {} ELSE {h[i] : i \in DOMAIN h}

(* Safety: over failing writes, crashes and restarts no history, in memory  *)
(* or on disk, names new keys that never reached the key file, and the keys *)
(* in memory did; while a rotation is under way its keys are still in the   *)
(* key file.                                                                *)
RotationsSaved ==
  /\ \A r \in Rotations(history) \cup Rotations(historyFile) : r.new \in saved
  /\ currentKeys \in saved \cup {NoKeys}
  /\ rotating # NoKeys => keyFile = rotating
=============================================================================
