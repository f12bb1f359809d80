----------------------------- MODULE StateFiles -----------------------------
(***************************************************************************)
(* The state that outlives a process: save_state, load_state, the           *)
(* checkpoint thread and the saves of start() and stop() of HuddleCluster   *)
(* (huddle_cluster.py), and RedisBackend (backends_redis.py), which stores  *)
(* the same state under a key.                                             *)
(*                                                                         *)
(* Temperatures, metrics and histograms are a number that grows with every  *)
(* change, so that older means smaller.  A save takes its snapshot in one   *)
(* critical section and writes it in another: saves may overtake one        *)
(* another.  A cluster is restored from the file or from Redis, not both.   *)
(***************************************************************************)
EXTENDS Naturals

CONSTANTS
  Saver,      \* threads that save: checkpoint or auto-sync, and operators
  Stopper,    \* the caller of stop(), one of them
  None,
  MaxChanges, \* bound on the changes
  MaxCrashes  \* bound on the crashes

VARIABLES
  place,      \* "file" or "redis"
  process,    \* down, fresh, running, stopping, stopped
  live,       \* the state in memory
  stored,     \* the state in the place, if any
  save,       \* a thread's save: its snapshot, and whether it is being written
  floor,      \* history: the state of the last save that was alone
  crashes

vars == <<place, process, live, stored, save, floor, crashes>>

NoSave == [at |-> "idle", state |-> 0, alone |-> FALSE]

(* The snapshot of s.  History: a save is alone if nothing else is saved, and *)
(* nothing restored, from its snapshot to its end.                           *)
Snap(s) == [t \in Saver |->
  IF t # s THEN [save[t] EXCEPT !.alone = FALSE]
  ELSE [at |-> "snapshot", state |-> live,
        alone |-> \A r \in Saver : save[r].at = "idle"]]

Init ==
  /\ place \in {"file", "redis"}
  /\ process = "down" /\ live = 0 /\ stored = None
  /\ save = [s \in Saver |-> NoSave]
  /\ floor = 0 /\ crashes = 0

-----------------------------------------------------------------------------
(* The process.  A cluster begins cold; start() restores what is stored for  *)
(* the servers it knows, also when the same process starts it again.  What   *)
(* cannot be read is given up: the next save replaces it.                    *)

Construct ==
  /\ process = "down"
  /\ process' = "fresh" /\ live' = 0
  /\ UNCHANGED <<place, stored, save, floor, crashes>>

Start ==
  /\ process \in {"fresh", "stopped"}
  /\ process' = "running"
  /\ \/ live' = (IF stored = None THEN live ELSE stored) /\ UNCHANGED floor
     \/ floor' = 0 /\ UNCHANGED live
  /\ save' = [s \in Saver |-> [save[s] EXCEPT !.alone = FALSE]]
  /\ UNCHANGED <<place, stored, crashes>>

(* load(), and auto-sync in that direction, at any time; load_state() too.    *)
Load ==
  /\ process \in {"fresh", "running", "stopped"} /\ stored # None
  /\ live' = stored
  /\ save' = [s \in Saver |-> [save[s] EXCEPT !.alone = FALSE]]
  /\ UNCHANGED <<place, process, stored, floor, crashes>>

Change ==
  /\ process = "running" /\ live < MaxChanges
  /\ live' = live + 1
  /\ UNCHANGED <<place, process, stored, save, floor, crashes>>

Stop ==
  /\ process = "running" /\ save[Stopper].at = "idle"
  /\ process' = "stopping"
  /\ save' = Snap(Stopper)
  /\ UNCHANGED <<place, live, stored, floor, crashes>>

(* The threads are joined, but not for longer than a time-out.               *)
Stopped ==
  /\ process = "stopping" /\ save[Stopper].at = "idle"
  /\ process' = "stopped"
  /\ UNCHANGED <<place, live, stored, save, floor, crashes>>

Crash ==
  /\ process # "down" /\ crashes < MaxCrashes
  /\ crashes' = crashes + 1
  /\ process' = "down" /\ live' = 0
  /\ save' = [s \in Saver |-> NoSave]
  /\ UNCHANGED <<place, stored, floor>>

-----------------------------------------------------------------------------
(* A save: the snapshot under the cluster's lock (RedisBackend takes none),  *)
(* then, for the file, the writing under a lock of its own.                  *)

Snapshot(s) ==
  /\ process \in {"running", "stopping", "stopped"} /\ save[s].at = "idle"
  /\ save' = Snap(s)
  /\ UNCHANGED <<place, process, live, stored, floor, crashes>>

(* A temporary file, beside the target. *)
Write_InPlace(s) ==
  /\ save[s].at = "snapshot" /\ place = "file"
  /\ \A t \in Saver : save[t].at # "writing"
  /\ save' = [save EXCEPT ![s].at = "writing"]
  /\ stored' = None
  /\ UNCHANGED <<place, process, live, floor, crashes>>

Write(s) ==
  /\ save[s].at = "snapshot" /\ place = "file"
  /\ \A t \in Saver : save[t].at # "writing"
  /\ save' = [save EXCEPT ![s].at = "writing"]
  /\ UNCHANGED <<place, process, live, stored, floor, crashes>>

Stores(s) ==
  /\ stored' = save[s].state
  /\ floor' = IF save[s].alone THEN save[s].state ELSE floor
  /\ save' = [save EXCEPT ![s] = NoSave]
  /\ UNCHANGED <<place, process, live, crashes>>

(* os.replace. *)
Replace(s) == save[s].at = "writing" /\ Stores(s)

(* SET of the key, with its time to live. *)
SetKey(s) == save[s].at = "snapshot" /\ place = "redis" /\ Stores(s)

(* An error of the file system or of Redis: what was stored stays.           *)
Fail(s) ==
  /\ save[s].at # "idle"
  /\ save' = [save EXCEPT ![s] = NoSave]
  /\ UNCHANGED <<place, process, live, stored, floor, crashes>>

(* delete(), or the key's time to live (ttl_sec) has passed.                 *)
Expire ==
  /\ place = "redis" /\ stored # None
  /\ stored' = None /\ floor' = 0
  /\ UNCHANGED <<place, process, live, save, crashes>>

Next ==
  \/ Construct \/ Start \/ Load \/ Change \/ Stop \/ Stopped \/ Crash \/ Expire
  \/ \E s \in Saver : Snapshot(s) \/ Write(s) \/ Replace(s) \/ SetKey(s) \/ Fail(s)

Spec == Init /\ [][Next]_vars

-----------------------------------------------------------------------------
(* A crash at any point and saves that overtake one another cost only what   *)
(* has changed since the last save that had no other, and no start(), at its *)
(* side: what the next start() restores is never older.                      *)
NoOldRestore == floor > 0 => stored # None /\ stored >= floor
=============================================================================
