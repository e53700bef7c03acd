---------------------------- MODULE VmProgramStore ----------------------------
(***************************************************************************)
(* The SD-card program store of the Iris firmware                          *)
(* (esp/common/src/services/Esp32VmProgramStore.cpp) together with the VM  *)
(* commands that notify it (commands/noob_command_dispatcher.cpp).         *)
(*                                                                         *)
(* A file has three directory entries: path (main), path.tmp and path.bak. *)
(* "prog" and "run" are runtime_last.nvm and runtime_last.run, "saved" is  *)
(* one named program.  Every operation on path and path.bak is a step of   *)
(* its own, and power may go between any two.  path.tmp is read only by    *)
(* the call that has just created it, so tmp is the temporary of the call  *)
(* in progress, and removing one that is left over changes nothing.        *)
(***************************************************************************)
CONSTANTS
  Program,   \* complete VM programs (1..1024 bytes)
  Torn,      \* a program cut short by a failed write; it loads as any other
  Empty,     \* a file of length zero
  Absent,    \* no such file, or no program in the VM
  FaultSets  \* which kinds of file operations may fail together

FaultKind == {"remove", "create", "write", "backup", "install", "rollback", "read"}

ASSUME ContentAssumption ==
  /\ Torn \notin Program /\ Empty \notin Program \cup {Torn}
  /\ Absent \notin Program \cup {Torn, Empty}
  /\ \A c \in {"0", "1"} : c \notin Program \cup {Torn, Empty, Absent}
ASSUME FaultsAssumption == FaultSets \subseteq SUBSET FaultKind

Runtime == {"prog", "run"}
File == Runtime \cup {"saved"}
Image == Program \cup {Torn}
Content == Image \cup {Empty, Absent, "0", "1"}

VARIABLES
  faults,          \* the kinds of operations that fail, as often as they like
  main, bak,       \* directory entries, by file
  tmp,             \* path.tmp of the call in progress
  program,         \* the program in the VM
  running,         \* RUNNING or WAITING
  mounted,         \* programVm # nullptr: the card was ready at boot
  pc,              \* the file operation the firmware is about to make
  stage,           \* which atomicWrite call is in progress
  path, data,      \* its arguments
  hadPrevious,
  armed,           \* history: the program of the snapshot being or last stored
  reply,           \* history: what the last command said is on the card
  booted,          \* history: restoreLast read both files, no command came since
  owned            \* history: storeBytes reported a saved program, kept so far

disk == <<main, tmp, bak>>
vm == <<program, running>>
call == <<stage, path, data, hadPrevious>>
history == <<armed, reply, booted, owned>>
vars == <<faults, disk, vm, mounted, pc, call, history>>

Init ==
  /\ faults \in FaultSets
  /\ main = [f \in File |-> Absent] /\ bak = main /\ tmp = Absent
  /\ program = Absent /\ running = FALSE /\ mounted = FALSE
  /\ pc = "boot"
  /\ stage = "none" /\ path = "prog" /\ data = Absent /\ hadPrevious = FALSE
  /\ armed = Absent /\ reply = "none" /\ booted = FALSE /\ owned = FALSE

-----------------------------------------------------------------------------
(* atomicWrite *)

\* remove(), whose result the code ignores everywhere
Unlink(entry, f) ==
  \/ entry' = [entry EXCEPT ![f] = Absent]
  \/ "remove" \in faults /\ UNCHANGED entry

\* The call atomicWrite(f, c) on behalf of s.
Begin(s, f, c) ==
  /\ pc' = "open"
  /\ stage' = s /\ path' = f /\ data' = c /\ hadPrevious' = FALSE

NoCall == stage' = "none" /\ path' = "prog" /\ data' = Absent /\ hadPrevious' = FALSE

\* The call returns to the command loop.
Finish == pc' = "idle" /\ NoCall

\* onStarted: flag off, program, flag on.
Succeeded ==
  CASE stage = "off" ->
         Begin("program", "prog", program)
         /\ armed' = program /\ UNCHANGED <<reply, owned>>
    [] stage = "program" ->
         Begin("on", "run", "1") /\ UNCHANGED <<armed, reply, owned>>
    [] stage = "on" ->
         Finish /\ reply' = "autorun" /\ UNCHANGED <<armed, owned>>
    [] stage = "stop" ->
         Finish /\ reply' = "stopped" /\ UNCHANGED <<armed, owned>>
    [] stage = "store" ->
         Finish /\ owned' = TRUE /\ UNCHANGED <<armed, reply>>
    [] OTHER -> Finish /\ UNCHANGED <<armed, reply, owned>>

\* A failure while starting turns the flag off again, ignoring the outcome.
Failed ==
  /\ IF stage \in {"off", "program", "on"} THEN Begin("undo", "run", "0") ELSE Finish
  /\ UNCHANGED <<armed, reply, owned>>

\* remove(temporary), open(temporary, FILE_WRITE)
Open ==
  /\ pc = "open"
  /\ \/ /\ tmp' = Empty
        /\ pc' = "write" /\ UNCHANGED <<call, armed, reply, owned>>
     \/ /\ "create" \in faults
        /\ tmp' = Absent
        /\ Failed
  /\ UNCHANGED <<main, bak, vm, mounted, booted>>

\* write, close; a short write removes the temporary
Write ==
  /\ pc = "write"
  /\ \/ /\ tmp' = data
        /\ pc' = "purge" /\ UNCHANGED <<call, armed, reply, owned>>
     \/ /\ "write" \in faults
        /\ tmp' = Absent
        /\ Failed
  /\ UNCHANGED <<main, bak, vm, mounted, booted>>

\* remove(backup), whose result is ignored
Purge ==
  /\ pc = "purge"
  /\ Unlink(bak, path)
  /\ pc' = "backup"
  /\ UNCHANGED <<main, tmp, vm, mounted, call, history>>

\* hadPrevious = exists(path); rename(path, backup) fails when backup exists
Backup ==
  /\ pc = "backup"
  /\ \/ /\ main[path] = Absent
        /\ hadPrevious' = FALSE /\ pc' = "install"
        /\ UNCHANGED <<disk, stage, path, data, armed, reply, owned>>
     \/ /\ main[path] # Absent /\ bak[path] = Absent
        /\ bak' = [bak EXCEPT ![path] = main[path]]
        /\ main' = [main EXCEPT ![path] = Absent]
        /\ hadPrevious' = TRUE /\ pc' = "install"
        /\ UNCHANGED <<tmp, stage, path, data, armed, reply, owned>>
     \/ /\ main[path] # Absent
        /\ bak[path] # Absent \/ "backup" \in faults
        /\ tmp' = Absent
        /\ UNCHANGED <<main, bak>>
        /\ Failed
  /\ UNCHANGED <<vm, mounted, booted>>

\* rename(temporary, path)
Install ==
  /\ pc = "install"
  /\ \/ /\ main' = [main EXCEPT ![path] = tmp]
        /\ tmp' = Absent
        /\ pc' = "cleanup" /\ UNCHANGED <<call, armed, reply, owned>>
     \/ /\ "install" \in faults /\ hadPrevious
        /\ pc' = "rollback" /\ UNCHANGED <<main, tmp, call, armed, reply, owned>>
     \/ /\ "install" \in faults /\ ~hadPrevious
        /\ tmp' = Absent /\ UNCHANGED main /\ Failed
  /\ UNCHANGED <<bak, vm, mounted, booted>>

\* rename(backup, path), whose result is ignored
Rollback ==
  /\ pc = "rollback"
  /\ \/ /\ main' = [main EXCEPT ![path] = bak[path]]
        /\ bak' = [bak EXCEPT ![path] = Absent]
     \/ "rollback" \in faults /\ UNCHANGED <<main, bak>>
  /\ tmp' = Absent
  /\ Failed
  /\ UNCHANGED <<vm, mounted, booted>>

\* remove(backup), whose result is ignored
Cleanup ==
  /\ pc = "cleanup"
  /\ Unlink(bak, path)
  /\ Succeeded
  /\ UNCHANGED <<main, tmp, vm, mounted, booted>>

-----------------------------------------------------------------------------
(* Commands *)

\* LOAD p, refused while the program runs
Load(p) ==
  /\ pc = "idle" /\ ~running
  /\ program' = p /\ booted' = FALSE
  /\ UNCHANGED <<disk, running, mounted, pc, call, armed, reply, owned>>

\* The program halts or faults; the store is not told.
Halt ==
  /\ pc = "idle" /\ running
  /\ running' = FALSE /\ booted' = FALSE
  /\ UNCHANGED <<disk, program, mounted, pc, call, armed, reply, owned>>

\* Faulty variant of Run: the old flag stays on while the program is replaced.
RunArmed ==
  /\ pc = "idle" /\ program # Absent /\ ~running
  /\ running' = TRUE /\ reply' = "none" /\ booted' = FALSE /\ armed' = program
  /\ IF mounted THEN Begin("program", "prog", program) ELSE UNCHANGED <<pc, call>>
  /\ UNCHANGED <<disk, program, mounted, owned>>

\* RUN: vm.run, onStarted
Run ==
  /\ pc = "idle" /\ program # Absent /\ ~running
  /\ running' = TRUE /\ reply' = "none" /\ booted' = FALSE
  /\ IF mounted THEN Begin("off", "run", "0") ELSE UNCHANGED <<pc, call>>
  /\ UNCHANGED <<disk, program, mounted, armed, owned>>

\* Faulty variant of Stop: the answer comes before the flag is written.
StopEarly ==
  /\ pc = "idle"
  /\ running' = FALSE /\ booted' = FALSE
  /\ reply' = IF mounted THEN "stopped" ELSE "none"
  /\ IF mounted THEN Begin("stop", "run", "0") ELSE UNCHANGED <<pc, call>>
  /\ UNCHANGED <<disk, program, mounted, armed, owned>>

\* STOP: vm.stop, onStopped
Stop ==
  /\ pc = "idle"
  /\ running' = FALSE /\ reply' = "none" /\ booted' = FALSE
  /\ IF mounted THEN Begin("stop", "run", "0") ELSE UNCHANGED <<pc, call>>
  /\ UNCHANGED <<disk, program, mounted, armed, owned>>

\* RESET_VM: vm.reset, onReset
Reset ==
  /\ pc = "idle"
  /\ program' = Absent /\ running' = FALSE /\ reply' = "none" /\ booted' = FALSE
  /\ pc' = IF mounted THEN "clear_prog" ELSE "idle"
  /\ UNCHANGED <<disk, mounted, call, armed, owned>>

\* VM_LAST_CLEAR: clearLast
ClearLast ==
  /\ pc = "idle" /\ mounted
  /\ reply' = "none" /\ booted' = FALSE /\ pc' = "clear_prog"
  /\ UNCHANGED <<disk, vm, mounted, call, armed, owned>>

\* removeRuntimeFiles: path, path.tmp, path.bak of the program, then of the flag
Remove(f, from, to) ==
  /\ pc = from
  /\ Unlink(main, f)
  /\ pc' = to
  /\ UNCHANGED bak

RemoveBackup(f, from, to) ==
  /\ pc = from
  /\ Unlink(bak, f)
  /\ pc' = to
  /\ UNCHANGED main

RemoveRuntimeFiles ==
  /\ \/ Remove("prog", "clear_prog", "clear_prog_bak") /\ UNCHANGED reply
     \/ RemoveBackup("prog", "clear_prog_bak", "clear_run") /\ UNCHANGED reply
     \/ Remove("run", "clear_run", "clear_run_bak") /\ UNCHANGED reply
     \/ RemoveBackup("run", "clear_run_bak", "idle") /\ reply' = "cleared"
  /\ UNCHANGED <<tmp, vm, mounted, call, armed, booted, owned>>

-----------------------------------------------------------------------------
(* Named programs *)

\* VM_SAVE: save removes the old file, ...
Save ==
  /\ pc = "idle" /\ mounted /\ program # Absent
  /\ Unlink(main, "saved")
  /\ pc' = "save_open" /\ owned' = FALSE /\ booted' = FALSE
  /\ UNCHANGED <<tmp, bak, vm, mounted, call, armed, reply>>

\* ... opens the new one ...
SaveOpen ==
  /\ pc = "save_open"
  /\ \/ main' = [main EXCEPT !["saved"] = Empty] /\ pc' = "save"
     \/ "create" \in faults /\ pc' = "idle" /\ UNCHANGED main
  /\ UNCHANGED <<tmp, bak, vm, mounted, call, history>>

\* ... and writes it in place.
SaveWrite ==
  /\ pc = "save"
  /\ \/ main' = [main EXCEPT !["saved"] = program]
     \/ /\ "write" \in faults
        /\ \E c \in {Empty, Torn} : main' = [main EXCEPT !["saved"] = c]
  /\ pc' = "idle"
  /\ UNCHANGED <<tmp, bak, vm, mounted, call, history>>

\* VM_DOWNLOAD: storeBytes
StoreBytes(p, replace) ==
  /\ pc = "idle" /\ mounted
  /\ replace \/ main["saved"] = Absent
  /\ Begin("store", "saved", p)
  /\ booted' = FALSE
  /\ UNCHANGED <<disk, vm, mounted, armed, reply, owned>>

\* VM_LOAD_SAVED: load
LoadSaved ==
  /\ pc = "idle" /\ mounted /\ ~running
  /\ main["saved"] \notin {Absent, Empty}
  /\ program' = main["saved"] /\ booted' = FALSE
  /\ UNCHANGED <<disk, running, mounted, pc, call, armed, reply, owned>>

\* VM_DELETE_SAVED: remove
RemoveSaved ==
  /\ pc = "idle" /\ mounted /\ main["saved"] # Absent
  /\ main' = [main EXCEPT !["saved"] = Absent]
  /\ owned' = FALSE /\ booted' = FALSE
  /\ UNCHANGED <<tmp, bak, vm, mounted, pc, call, armed, reply>>

-----------------------------------------------------------------------------
(* Power loss and boot *)

\* Power goes, at any moment; the card keeps what it has.
PowerLoss ==
  /\ pc # "boot"
  /\ program' = Absent /\ running' = FALSE /\ mounted' = FALSE
  /\ pc' = "boot" /\ NoCall /\ tmp' = Absent /\ booted' = FALSE
  /\ UNCHANGED <<main, bak, armed, reply, owned>>

\* begin: the card may not be ready
Mount ==
  /\ pc = "boot"
  /\ \/ mounted' = TRUE /\ pc' = "recover_prog"
     \/ mounted' = FALSE /\ pc' = "idle"
  /\ UNCHANGED <<disk, vm, call, history>>

\* Faulty variant of RecoverFile: the backup is always thrown away.
RecoverNothing(f, from, to) ==
  /\ pc = from
  /\ bak' = [bak EXCEPT ![f] = Absent]
  /\ pc' = to
  /\ UNCHANGED main

\* recoverFile: an interrupted replacement is undone, else the backup goes
RecoverFile(f, from, to) ==
  /\ pc = from
  /\ \/ /\ main[f] = Absent /\ bak[f] # Absent
        /\ \/ /\ main' = [main EXCEPT ![f] = bak[f]]
              /\ bak' = [bak EXCEPT ![f] = Absent]
           \/ "rollback" \in faults /\ UNCHANGED <<main, bak>>
     \/ /\ main[f] # Absent \/ bak[f] = Absent
        /\ UNCHANGED main
        /\ Unlink(bak, f)
  /\ pc' = to

Recover ==
  /\ \/ RecoverFile("prog", "recover_prog", "recover_run")
     \/ RecoverFile("run", "recover_run", "restore")
  /\ UNCHANGED <<tmp, vm, mounted, call, history>>

\* restoreLast; the VM was just constructed, so its load and run succeed.  A
\* program that cannot be opened counts as none, a flag as off.
RestoreLast ==
  /\ pc = "restore"
  /\ \/ /\ main["prog"] # Empty
        /\ program' = main["prog"]
        /\ running' = (main["prog"] # Absent /\ main["run"] = "1")
        /\ pc' = "idle" /\ booted' = TRUE
        /\ UNCHANGED <<call, reply>>
     \/ /\ main["prog"] # Empty /\ "read" \in faults
        /\ program' \in {main["prog"], Absent} /\ running' = FALSE
        /\ pc' = "idle"
        /\ UNCHANGED <<call, reply, booted>>
     \/ /\ main["prog"] = Empty \/ (main["prog"] # Absent /\ "read" \in faults)
        /\ Begin("fix", "run", "0")
        /\ reply' = "none"
        /\ UNCHANGED <<vm, booted>>
  /\ UNCHANGED <<disk, mounted, armed, owned>>

-----------------------------------------------------------------------------
Step ==
  \/ Open \/ Write \/ Purge \/ Backup \/ Install \/ Rollback \/ Cleanup
  \/ \E p \in Program : Load(p) \/ \E replace \in BOOLEAN : StoreBytes(p, replace)
  \/ Halt \/ Run \/ Stop \/ Reset \/ ClearLast \/ RemoveRuntimeFiles
  \/ Save \/ SaveOpen \/ SaveWrite \/ LoadSaved \/ RemoveSaved
  \/ PowerLoss \/ Mount \/ Recover \/ RestoreLast

Next == Step /\ UNCHANGED faults

Spec == Init /\ [][Next]_vars

-----------------------------------------------------------------------------
(* Properties *)

Steps == {"idle", "open", "write", "purge", "backup", "install", "rollback",
          "cleanup", "clear_prog", "clear_prog_bak", "clear_run",
          "clear_run_bak", "save_open", "save", "boot", "recover_prog", "recover_run",
          "restore"}
Stages == {"none", "off", "program", "on", "undo", "stop", "fix", "store"}

\* The type of every variable.
TypeOK ==
  /\ faults \in SUBSET FaultKind
  /\ main \in [File -> Content] /\ tmp \in Content /\ bak \in [File -> Content]
  /\ program \in Image \cup {Absent} /\ running \in BOOLEAN /\ mounted \in BOOLEAN
  /\ pc \in Steps /\ stage \in Stages /\ path \in File /\ data \in Content
  /\ hadPrevious \in BOOLEAN
  /\ armed \in Image \cup {Absent} /\ reply \in {"none", "autorun", "stopped", "cleared"}
  /\ booted \in BOOLEAN /\ owned \in BOOLEAN

\* What recovery would find under a runtime path if the power went now.
View(f) == IF main[f] # Absent THEN main[f] ELSE bak[f]

\* Files can be removed, and a backup can be renamed back.
Quiet == faults \cap {"remove", "rollback"} = {}

\* What a boot would find under a runtime path changes in one step, from the
\* previous version to the complete new one, or to nothing when the snapshot
\* is cleared: an interrupted write never damages the snapshot.
SnapshotSurvives ==
  [][Quiet =>
       \A f \in Runtime : View(f)' # View(f) =>
         \/ pc = "install" /\ path = f /\ View(f)' = data
         \/ pc \in {"clear_prog", "clear_run"} /\ View(f)' = Absent]_vars

\* Whatever file operations fail, what a boot finds was written to the end:
\* a temporary is installed only after a complete write.
SnapshotWhole ==
  \A f \in Runtime : View(f) # Empty

\* A boot never runs a program other than the one the flag was written for:
\* onStarted disables the previous snapshot before replacing it.
AutorunMatches ==
  "remove" \notin faults =>
    (View("run") = "1" => View("prog") \in {armed, Absent})

\* After a boot the VM is what the last answered command said: a started
\* program runs, a stopped one does not, and after a reset there is none.
BootHonoursReply ==
  "remove" \notin faults /\ booted =>
    /\ reply = "autorun" => program = armed /\ running
    /\ reply = "stopped" => ~running
    /\ reply = "cleared" => program = Absent

\* A named program that storeBytes reported as saved can be loaded until it
\* is removed or saved over, whatever interrupts its replacement.  It does not
\* hold: only the runtime files are recovered from their backup.
SavedKept ==
  pc = "idle" /\ mounted /\ owned => main["saved"] # Absent
=============================================================================
