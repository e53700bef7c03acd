------------------------------- MODULE HueLock -------------------------------
(***************************************************************************)
(* The lights (rose_tools/hue): processes that play a sequence under the   *)
(* lock file, and rose-hue-off, which clears it.  The file is a path:      *)
(* every unlink removes whatever is there.  A process may be killed at any *)
(* step and leaves the file and the light as they are.                     *)
(***************************************************************************)
EXTENDS Naturals

CONSTANTS
  Players,   \* processes of rose-hue, or rose-voice with lights
  Offs,      \* processes of rose-hue-off
  ATTEMPTS,  \* tries of hue_lock_acquire (301)
  MaxRows    \* bound: rows of a pattern

NoLock == [owner |-> "nobody", written |-> FALSE]
Dark == "dark"

VARIABLES
  lock,      \* the lock file: whose it is, and whether it names its owner yet
  light,     \* who has set it last, or Dark
  pc, attempt, rows,
  killed,
  cleared    \* history: rose-hue-off has been used

vars == <<lock, light, pc, attempt, rows, killed, cleared>>
Processes == Players \cup Offs

Init ==
  /\ lock = NoLock /\ light = Dark
  /\ pc = [p \in Processes |-> "start"]
  /\ attempt = [p \in Players |-> 0] /\ rows = [p \in Players |-> 0]
  /\ killed = {} /\ cleared = FALSE

At(p, l) == p \notin killed /\ pc[p] = l
Goto(p, l) == pc' = [pc EXCEPT ![p] = l]
unlink == lock' = NoLock

-----------------------------------------------------------------------------
\* Without a bridge and a user name the program ends before the lock.
hue_config_load(p) ==
  /\ p \in Players /\ At(p, "start")
  /\ Goto(p, "create") \/ Goto(p, "end")
  /\ UNCHANGED <<lock, light, attempt, rows, killed, cleared>>

\* One turn of the loop of hue_lock_acquire: O_CREAT | O_EXCL
create(p) ==
  /\ At(p, "create")
  /\ IF lock = NoLock
       THEN lock' = [owner |-> p, written |-> FALSE] /\ Goto(p, "write")
       ELSE Goto(p, "examine") /\ UNCHANGED lock
  /\ UNCHANGED <<light, attempt, rows, killed, cleared>>

\* The process id is written into the file created, wherever its name is now.
writeOwner(p) ==
  /\ At(p, "write")
  /\ \/ lock' = (IF lock.owner = p THEN [owner |-> p, written |-> TRUE] ELSE lock) /\ Goto(p, "play")
     \/ unlink /\ Goto(p, "end")
  /\ UNCHANGED <<light, attempt, rows, killed, cleared>>

\* The file names a process, and that process does not exist.
stale_lock == lock.written /\ lock.owner \in killed

\* The next turn of the loop, if there is one
nextAttempt(p) ==
  /\ attempt' = [attempt EXCEPT ![p] = @ + 1]
  /\ Goto(p, IF attempt[p] + 1 < ATTEMPTS THEN "create" ELSE "end")

examine(p) ==
  /\ At(p, "examine")
  /\ IF stale_lock THEN Goto(p, "remove") /\ UNCHANGED attempt ELSE nextAttempt(p)
  /\ UNCHANGED <<lock, light, rows, killed, cleared>>

remove(p) ==
  /\ At(p, "remove") /\ unlink /\ nextAttempt(p)
  /\ UNCHANGED <<light, rows, killed, cleared>>

-----------------------------------------------------------------------------
\* A request to the bridge: it may fail and have had its effect all the same.
hue_set_rgb(colour) == light' = colour \/ UNCHANGED light

\* A row of the pattern, slept through, or the last one by error or signal
row(p) ==
  /\ At(p, "play") /\ rows[p] < MaxRows
  /\ hue_set_rgb(p)
  /\ rows' = [rows EXCEPT ![p] = @ + 1]
  /\ UNCHANGED pc \/ Goto(p, "darken")
  /\ UNCHANGED <<lock, attempt, killed, cleared>>

\* parse_row refuses a line, or there is none left.
noRow(p) ==
  /\ At(p, "play") /\ Goto(p, "darken")
  /\ UNCHANGED <<lock, light, attempt, rows, killed, cleared>>

hue_dark(p) ==
  /\ At(p, "darken") /\ Goto(p, "release")
  /\ hue_set_rgb(Dark)
  /\ UNCHANGED <<lock, attempt, rows, killed, cleared>>

hue_lock_release(p) ==
  /\ At(p, "release") /\ unlink /\ Goto(p, "end")
  /\ UNCHANGED <<light, attempt, rows, killed, cleared>>

-----------------------------------------------------------------------------
(* rose-hue-off *)

hue_lock_force_clear(p) ==
  /\ p \in Offs /\ At(p, "start") /\ unlink /\ cleared' = TRUE
  /\ Goto(p, "off") \/ Goto(p, "end")
  /\ UNCHANGED <<light, attempt, rows, killed>>

off(p) ==
  /\ At(p, "off") /\ hue_set_rgb(Dark)
  /\ Goto(p, "clear") \/ Goto(p, "end")
  /\ UNCHANGED <<lock, attempt, rows, killed, cleared>>

clear(p) ==
  /\ At(p, "clear") /\ unlink /\ Goto(p, "end")
  /\ UNCHANGED <<light, attempt, rows, killed, cleared>>

kill(p) ==
  /\ p \notin killed /\ pc[p] # "end"
  /\ killed' = killed \cup {p}
  /\ UNCHANGED <<lock, light, pc, attempt, rows, cleared>>

hue_lock_acquire(p) == create(p) \/ writeOwner(p) \/ examine(p) \/ remove(p)
play(p) == row(p) \/ noRow(p) \/ hue_dark(p) \/ hue_lock_release(p)

Next ==
  \/ \E p \in Players : hue_config_load(p) \/ hue_lock_acquire(p) \/ play(p)
  \/ \E p \in Offs : hue_lock_force_clear(p) \/ off(p) \/ clear(p)
  \/ \E p \in Processes : kill(p)

Spec == Init /\ [][Next]_vars

-----------------------------------------------------------------------------
(***************************************************************************)
(* hue/README.md: "A sequence waits up to 30 seconds for the previous      *)
(* owner, holds the lock for its full run".  Unless rose-hue-off is used,  *)
(* a sequence that plays finds the lock file with its own name in it.      *)
(***************************************************************************)
HeldForFullRun ==
  cleared \/ \A p \in Players \ killed :
               pc[p] \in {"play", "darken", "release"} => lock = [owner |-> p, written |-> TRUE]
=============================================================================
