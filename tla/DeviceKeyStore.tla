----------------------------- MODULE DeviceKeyStore -----------------------------
(***************************************************************************)
(* The device key (keystore.rs) and the start of the client that needs it  *)
(* (main.rs).  The key file is written to a temporary file and renamed; a  *)
(* process may be killed between any two steps, and a write may fail.      *)
(***************************************************************************)
EXTENDS Naturals

CONSTANTS
  Processes,   \* clients that use the one path; main does not keep a second out
  Keys         \* seeds; each is drawn once

CONSTANTS Absent, Torn  \* no file, and a file that load_from_disk rejects
ASSUME KeysAssumption == Absent \notin Keys /\ Torn \notin Keys /\ Absent # Torn

VARIABLES
  disk,      \* [key, tmp]
  process,   \* of each process: [at, key], where key is the identity in memory
  drawn,     \* seeds that were drawn so far
  known      \* identity that a process went on to work with and nobody deleted

keyVars == <<disk, process, drawn, known>>

Down == [at |-> "down", key |-> Absent]

KeyInit ==
  /\ disk = [key |-> Absent, tmp |-> Absent]
  /\ process = [p \in Processes |-> Down]
  /\ drawn = {}
  /\ known = Absent

At(p, step) == process[p].at = step
Goes(p, step) == process' = [process EXCEPT ![p].at = step]

\* A profile that does not load ends the client before it looks at the key.
LoadProfile(p) ==
  /\ At(p, "down")
  /\ Goes(p, "profile")
  /\ UNCHANGED <<disk, drawn, known>>

\* open: what does not parse, or does not match its public key, is an error, and
\* ends main.
OpenKeyStore(p) ==
  /\ At(p, "profile")
  /\ process' = [process EXCEPT ![p] =
       IF disk.key = Torn THEN Down
       ELSE [at |-> IF disk.key = Absent THEN "keyless" ELSE "running", key |-> disk.key]]
  /\ known' = IF disk.key = Torn \/ disk.key = Absent THEN known ELSE disk.key
  /\ UNCHANGED <<disk, drawn>>

\* generate_key_with_seed looks once more for a file, whose key it does not load.
GenerateKey(p) ==
  /\ At(p, "keyless")
  /\ IF disk.key # Absent
     THEN Goes(p, "down") /\ UNCHANGED drawn
     ELSE \E k \in Keys \ drawn :
            /\ process' = [process EXCEPT ![p] = [at |-> "generated", key |-> k]]
            /\ drawn' = drawn \cup {k}
  /\ UNCHANGED <<disk, known>>

\* persist_to_disk: fs::write truncates and then writes, and the rename follows.
TruncateTmp(p) ==
  /\ At(p, "generated")
  /\ disk' = [disk EXCEPT !.tmp = Torn]
  /\ Goes(p, "truncated")
  /\ UNCHANGED <<drawn, known>>

\* Mutant of WriteTmp: the file is written in its place.
WriteInPlace(p) ==
  /\ At(p, "truncated")
  /\ disk' = [disk EXCEPT !.key = Torn, !.tmp = process[p].key]
  /\ Goes(p, "written")
  /\ UNCHANGED <<drawn, known>>

WriteTmp(p) ==
  /\ At(p, "truncated")
  /\ disk' = [disk EXCEPT !.tmp = process[p].key]
  /\ Goes(p, "written")
  /\ UNCHANGED <<drawn, known>>

RenameTmp(p) ==
  /\ At(p, "written") /\ disk.tmp # Absent
  /\ disk' = [key |-> disk.tmp, tmp |-> Absent]
  /\ Goes(p, "running")
  /\ known' = process[p].key
  /\ UNCHANGED drawn

\* The key in memory is forgotten, and main ends.
PersistFails(p) ==
  /\ process[p].at \in {"generated", "truncated", "written"}
  /\ process' = [process EXCEPT ![p] = Down]
  /\ UNCHANGED <<disk, drawn, known>>

\* delete_key: the file first, then memory.
DeleteFile(p) ==
  /\ At(p, "running")
  /\ disk' = [disk EXCEPT !.key = Absent]
  /\ known' = Absent
  /\ Goes(p, "deleting")
  /\ UNCHANGED drawn

ForgetKey(p) ==
  /\ At(p, "deleting")
  /\ process' = [process EXCEPT ![p] = [at |-> "keyless", key |-> Absent]]
  /\ UNCHANGED <<disk, drawn, known>>

Crash(p) ==
  /\ process[p] # Down
  /\ process' = [process EXCEPT ![p] = Down]
  /\ UNCHANGED <<disk, drawn, known>>

KeyNext ==
  \E p \in Processes :
    \/ LoadProfile(p)
    \/ OpenKeyStore(p)
    \/ GenerateKey(p)
    \/ TruncateTmp(p)
    \/ WriteTmp(p)
    \/ RenameTmp(p)
    \/ PersistFails(p)
    \/ DeleteFile(p)
    \/ ForgetKey(p)
    \/ Crash(p)

KeySpec == KeyInit /\ [][KeyNext]_keyVars

\* With one client on the path, a crash or a failed write at any moment leaves the
\* key file whole or absent, so that the client starts again; an identity that it
\* worked with is on the disk until it is deleted, and is the one in memory.
KeyOutlivesCrash ==
  /\ disk.key \in Keys \cup {Absent}
  /\ disk.key = known
  /\ \A p \in Processes : At(p, "running") => process[p].key = disk.key
================================================================================
