------------------------- MODULE VmProgramStoreProofs -------------------------
(***************************************************************************)
(* Proofs about the program store, for any set of programs.  Whatever file *)
(* operations fail, every variable keeps its type and a boot never finds a *)
(* file that was not written to its end.  As long as remove() and the      *)
(* rename that puts a backup back do not fail, an interrupted write leaves *)
(* the previous snapshot or the new one, a boot runs only the program the  *)
(* flag was written for, and the VM after a boot is what the last command  *)
(* said it would be.                                                       *)
(***************************************************************************)
EXTENDS VmProgramStore, TLAPS

Writing == pc \in {"open", "write", "purge", "backup", "install", "rollback", "cleanup"}

\* What the call in progress writes, and where.
StageOK ==
  Writing =>
    /\ \/ stage \in {"off", "undo", "stop", "fix"} /\ path = "run" /\ data = "0"
       \/ stage = "program" /\ path = "prog" /\ data = program /\ program = armed
       \/ stage = "on" /\ path = "run" /\ data = "1"
       \/ stage = "store" /\ path = "saved" /\ data \in Image
    /\ stage \in {"off", "program"} => program \in Image
    /\ data \in Image \cup {"0", "1"}

\* Where the call has got to.
WriteOK ==
  /\ pc \in {"purge", "backup", "install"} => tmp = data
  /\ pc \in {"install", "rollback"} => main[path] = Absent
  /\ pc = "cleanup" => main[path] = data

\* What each file can hold.
HoldsOK ==
  /\ main["prog"] \in Image \cup {Absent} /\ bak["prog"] \in Image \cup {Absent}
  /\ main["run"] \in {"0", "1", Absent} /\ bak["run"] \in {"0", "1", Absent}
  /\ main["saved"] \in Image \cup {Empty, Absent}
  /\ bak["saved"] \in Image \cup {Empty, Absent}

BaseInv == TypeOK /\ StageOK /\ WriteOK /\ HoldsOK

LEMMA Contents ==
  /\ Program \subseteq Image /\ Torn \in Image /\ Image \subseteq Content
  /\ Empty \in Content /\ Absent \in Content /\ "0" \in Content /\ "1" \in Content
  /\ Empty \notin Image /\ Absent \notin Image /\ Empty # Absent
  /\ \A c \in {"0", "1"} : c \notin Image /\ c # Empty /\ c # Absent
  BY ContentAssumption DEF Content, Image

LEMMA Files ==
  /\ "prog" \in Runtime /\ "run" \in Runtime /\ "saved" \notin Runtime
  /\ "prog" \in File /\ "run" \in File /\ "saved" \in File /\ Runtime \subseteq File
  BY DEF Runtime, File

\* The parts of TypeOK.
DiskOK ==
  main \in [File -> Content] /\ tmp \in Content /\ bak \in [File -> Content]
FlagsOK ==
  /\ running \in BOOLEAN /\ mounted \in BOOLEAN /\ hadPrevious \in BOOLEAN
  /\ booted \in BOOLEAN /\ owned \in BOOLEAN
ControlOK ==
  /\ program \in Image \cup {Absent} /\ armed \in Image \cup {Absent}
  /\ pc \in Steps /\ stage \in Stages /\ path \in File /\ data \in Content
  /\ reply \in {"none", "autorun", "stopped", "cleared"}

LEMMA TypeParts ==
  TypeOK <=> faults \in SUBSET FaultKind /\ DiskOK /\ FlagsOK /\ ControlOK
  BY DEF TypeOK, DiskOK, FlagsOK, ControlOK

LEMMA FaultsStay == [Next]_vars => faults' = faults
  BY DEF Next, vars

LEMMA Stored ==
  ASSUME NEW entry \in [File -> Content], NEW f \in File, NEW c \in Content
  PROVE  [entry EXCEPT ![f] = c] \in [File -> Content]
  OBVIOUS

LEMMA DiskStep == DiskOK /\ ControlOK /\ [Next]_vars => DiskOK'
  <1> SUFFICES ASSUME DiskOK, ControlOK, [Next]_vars PROVE DiskOK'
    OBVIOUS
  <1> USE Contents, Files, Stored DEF DiskOK, ControlOK, Unlink, disk
  <1>1. CASE Open
    BY <1>1 DEF Open
  <1>2. CASE Write
    BY <1>2 DEF Write
  <1>3. CASE Purge
    BY <1>3 DEF Purge
  <1>4. CASE Backup
    BY <1>4 DEF Backup
  <1>5. CASE Install
    BY <1>5 DEF Install
  <1>6. CASE Rollback
    BY <1>6 DEF Rollback
  <1>7. CASE Cleanup
    BY <1>7 DEF Cleanup, Succeeded
  <1>8. CASE \E p \in Program : Load(p)
    BY <1>8 DEF Load
  <1>9. CASE \E p \in Program, replace \in BOOLEAN : StoreBytes(p, replace)
    BY <1>9 DEF StoreBytes
  <1>10. CASE Halt
    BY <1>10 DEF Halt
  <1>11. CASE Run
    BY <1>11 DEF Run
  <1>12. CASE Stop
    BY <1>12 DEF Stop
  <1>13. CASE Reset
    BY <1>13 DEF Reset
  <1>14. CASE ClearLast
    BY <1>14 DEF ClearLast
  <1>15. CASE RemoveRuntimeFiles
    BY <1>15 DEF RemoveRuntimeFiles, Remove, RemoveBackup
  <1>16. CASE Save
    BY <1>16 DEF Save
  <1>17. CASE SaveWrite
    BY <1>17 DEF SaveWrite
  <1>18. CASE LoadSaved
    BY <1>18 DEF LoadSaved
  <1>19. CASE RemoveSaved
    BY <1>19 DEF RemoveSaved
  <1>20. CASE PowerLoss
    BY <1>20 DEF PowerLoss
  <1>21. CASE Mount
    BY <1>21 DEF Mount
  <1>22. CASE Recover
    BY <1>22 DEF Recover, RecoverFile
  <1>23. CASE RestoreLast
    BY <1>23 DEF RestoreLast
  <1>25. CASE SaveOpen
    BY <1>25 DEF SaveOpen
  <1>24. CASE UNCHANGED vars
    BY <1>24 DEF vars
  <1> QED
    BY <1>1, <1>2, <1>3, <1>4, <1>5, <1>6, <1>7, <1>8, <1>9, <1>10, <1>11, <1>12,
       <1>13, <1>14, <1>15, <1>16, <1>17, <1>18, <1>19, <1>20, <1>21, <1>22, <1>23, <1>24, <1>25 DEF Next, Step

LEMMA FlagsStep == FlagsOK /\ [Next]_vars => FlagsOK'
  <1> SUFFICES ASSUME FlagsOK, [Next]_vars PROVE FlagsOK'
    OBVIOUS
  <1> USE DEF FlagsOK, Begin, Finish, NoCall, Failed, vm, call, history
  <1>1. CASE Open
    BY ZenonT(60), <1>1 DEF Open
  <1>2. CASE Write
    BY ZenonT(60), <1>2 DEF Write
  <1>3. CASE Purge
    BY <1>3 DEF Purge
  <1>4. CASE Backup
    BY ZenonT(60), <1>4 DEF Backup
  <1>5. CASE Install
    BY ZenonT(60), <1>5 DEF Install
  <1>6. CASE Rollback
    BY ZenonT(60), <1>6 DEF Rollback
  <1>7. CASE Cleanup
    BY ZenonT(60), <1>7 DEF Cleanup, Succeeded
  <1>8. CASE \E p \in Program : Load(p)
    BY ZenonT(60), <1>8 DEF Load
  <1>9. CASE \E p \in Program, replace \in BOOLEAN : StoreBytes(p, replace)
    BY ZenonT(60), <1>9 DEF StoreBytes
  <1>10. CASE Halt
    BY ZenonT(60), <1>10 DEF Halt
  <1>11. CASE Run
    BY ZenonT(60), <1>11 DEF Run
  <1>12. CASE Stop
    BY ZenonT(60), <1>12 DEF Stop
  <1>13. CASE Reset
    BY ZenonT(60), <1>13 DEF Reset
  <1>14. CASE ClearLast
    BY ZenonT(60), <1>14 DEF ClearLast
  <1>15. CASE RemoveRuntimeFiles
    BY <1>15 DEF RemoveRuntimeFiles, Remove, RemoveBackup
  <1>16. CASE Save
    BY ZenonT(60), <1>16 DEF Save
  <1>17. CASE SaveWrite
    BY <1>17 DEF SaveWrite
  <1>18. CASE LoadSaved
    BY ZenonT(60), <1>18 DEF LoadSaved
  <1>19. CASE RemoveSaved
    BY ZenonT(60), <1>19 DEF RemoveSaved
  <1>20. CASE PowerLoss
    BY ZenonT(60), <1>20 DEF PowerLoss
  <1>21. CASE Mount
    BY ZenonT(60), <1>21 DEF Mount
  <1>22. CASE Recover
    BY <1>22 DEF Recover, RecoverFile
  <1>23. CASE RestoreLast
    BY ZenonT(60), <1>23 DEF RestoreLast
  <1>25. CASE SaveOpen
    BY <1>25 DEF SaveOpen
  <1>24. CASE UNCHANGED vars
    BY <1>24 DEF vars
  <1> QED
    BY <1>1, <1>2, <1>3, <1>4, <1>5, <1>6, <1>7, <1>8, <1>9, <1>10, <1>11, <1>12,
       <1>13, <1>14, <1>15, <1>16, <1>17, <1>18, <1>19, <1>20, <1>21, <1>22, <1>23, <1>24, <1>25 DEF Next, Step

LEMMA ControlStep == DiskOK /\ ControlOK /\ HoldsOK /\ [Next]_vars => ControlOK'
  <1> SUFFICES ASSUME DiskOK, ControlOK, HoldsOK, [Next]_vars PROVE ControlOK'
    OBVIOUS
  <1> USE Contents, Files DEF DiskOK, ControlOK, HoldsOK, Begin, Finish, NoCall, Failed, Steps, Stages, disk, vm, call, history
  <1>1. CASE Open
    BY <1>1 DEF Open
  <1>2. CASE Write
    BY <1>2 DEF Write
  <1>3. CASE Purge
    BY <1>3 DEF Purge
  <1>4. CASE Backup
    BY <1>4 DEF Backup
  <1>5. CASE Install
    BY <1>5 DEF Install
  <1>6. CASE Rollback
    BY <1>6 DEF Rollback
  <1>7. CASE Cleanup
    BY <1>7 DEF Cleanup, Succeeded
  <1>8. CASE \E p \in Program : Load(p)
    BY <1>8 DEF Load
  <1>9. CASE \E p \in Program, replace \in BOOLEAN : StoreBytes(p, replace)
    BY <1>9 DEF StoreBytes
  <1>10. CASE Halt
    BY <1>10 DEF Halt
  <1>11. CASE Run
    BY <1>11 DEF Run
  <1>12. CASE Stop
    BY <1>12 DEF Stop
  <1>13. CASE Reset
    BY <1>13 DEF Reset
  <1>14. CASE ClearLast
    BY <1>14 DEF ClearLast
  <1>15. CASE RemoveRuntimeFiles
    BY <1>15 DEF RemoveRuntimeFiles, Remove, RemoveBackup
  <1>16. CASE Save
    BY <1>16 DEF Save
  <1>17. CASE SaveWrite
    BY <1>17 DEF SaveWrite
  <1>18. CASE LoadSaved
    BY <1>18 DEF LoadSaved
  <1>19. CASE RemoveSaved
    BY <1>19 DEF RemoveSaved
  <1>20. CASE PowerLoss
    BY <1>20 DEF PowerLoss
  <1>21. CASE Mount
    BY <1>21 DEF Mount
  <1>22. CASE Recover
    BY <1>22 DEF Recover, RecoverFile
  <1>23. CASE RestoreLast
    BY <1>23 DEF RestoreLast
  <1>25. CASE SaveOpen
    BY <1>25 DEF SaveOpen
  <1>24. CASE UNCHANGED vars
    BY SMTT(60), <1>24 DEF vars
  <1> QED
    BY <1>1, <1>2, <1>3, <1>4, <1>5, <1>6, <1>7, <1>8, <1>9, <1>10, <1>11, <1>12,
       <1>13, <1>14, <1>15, <1>16, <1>17, <1>18, <1>19, <1>20, <1>21, <1>22, <1>23, <1>24, <1>25 DEF Next, Step

LEMMA StageStep == FlagsOK /\ ControlOK /\ HoldsOK /\ StageOK /\ [Next]_vars => StageOK'
  <1> SUFFICES ASSUME FlagsOK, ControlOK, HoldsOK, StageOK, [Next]_vars PROVE StageOK'
    OBVIOUS
  <1> USE Contents, Files DEF FlagsOK, ControlOK, HoldsOK, StageOK, Writing, Begin, Finish, NoCall, Failed, Steps, disk, vm, call, history
  <1>1. CASE Open
    BY <1>1 DEF Open
  <1>2. CASE Write
    BY <1>2 DEF Write
  <1>3. CASE Purge
    BY <1>3 DEF Purge
  <1>4. CASE Backup
    BY <1>4 DEF Backup
  <1>5. CASE Install
    BY <1>5 DEF Install
  <1>6. CASE Rollback
    BY <1>6 DEF Rollback
  <1>7. CASE Cleanup
    BY <1>7 DEF Cleanup, Succeeded
  <1>8. CASE \E p \in Program : Load(p)
    BY <1>8 DEF Load
  <1>9. CASE \E p \in Program, replace \in BOOLEAN : StoreBytes(p, replace)
    BY <1>9 DEF StoreBytes
  <1>10. CASE Halt
    BY <1>10 DEF Halt
  <1>11. CASE Run
    BY <1>11 DEF Run
  <1>12. CASE Stop
    BY <1>12 DEF Stop
  <1>13. CASE Reset
    BY <1>13 DEF Reset
  <1>14. CASE ClearLast
    BY <1>14 DEF ClearLast
  <1>15. CASE RemoveRuntimeFiles
    BY <1>15 DEF RemoveRuntimeFiles, Remove, RemoveBackup
  <1>16. CASE Save
    BY <1>16 DEF Save
  <1>17. CASE SaveWrite
    BY <1>17 DEF SaveWrite
  <1>18. CASE LoadSaved
    BY <1>18 DEF LoadSaved
  <1>19. CASE RemoveSaved
    BY <1>19 DEF RemoveSaved
  <1>20. CASE PowerLoss
    BY <1>20 DEF PowerLoss
  <1>21. CASE Mount
    BY <1>21 DEF Mount
  <1>22. CASE Recover
    BY <1>22 DEF Recover, RecoverFile
  <1>23. CASE RestoreLast
    BY <1>23 DEF RestoreLast
  <1>25. CASE SaveOpen
    BY <1>25 DEF SaveOpen
  <1>24. CASE UNCHANGED vars
    BY SMTT(60), <1>24 DEF vars
  <1> QED
    BY <1>1, <1>2, <1>3, <1>4, <1>5, <1>6, <1>7, <1>8, <1>9, <1>10, <1>11, <1>12,
       <1>13, <1>14, <1>15, <1>16, <1>17, <1>18, <1>19, <1>20, <1>21, <1>22, <1>23, <1>24, <1>25 DEF Next, Step

LEMMA WriteStep == DiskOK /\ ControlOK /\ StageOK /\ WriteOK /\ [Next]_vars => WriteOK'
  <1> SUFFICES ASSUME DiskOK, ControlOK, StageOK, WriteOK, [Next]_vars PROVE WriteOK'
    OBVIOUS
  <1> USE Contents, Files DEF DiskOK, ControlOK, StageOK, WriteOK, Writing, Begin, Finish, NoCall, Failed, Steps, Unlink, disk, vm, call, history
  <1>1. CASE Open
    BY <1>1 DEF Open
  <1>2. CASE Write
    BY <1>2 DEF Write
  <1>3. CASE Purge
    BY <1>3 DEF Purge
  <1>4. CASE Backup
    BY <1>4 DEF Backup
  <1>5. CASE Install
    BY <1>5 DEF Install
  <1>6. CASE Rollback
    BY <1>6 DEF Rollback
  <1>7. CASE Cleanup
    BY <1>7 DEF Cleanup, Succeeded
  <1>8. CASE \E p \in Program : Load(p)
    BY <1>8 DEF Load
  <1>9. CASE \E p \in Program, replace \in BOOLEAN : StoreBytes(p, replace)
    BY <1>9 DEF StoreBytes
  <1>10. CASE Halt
    BY <1>10 DEF Halt
  <1>11. CASE Run
    BY <1>11 DEF Run
  <1>12. CASE Stop
    BY <1>12 DEF Stop
  <1>13. CASE Reset
    BY <1>13 DEF Reset
  <1>14. CASE ClearLast
    BY <1>14 DEF ClearLast
  <1>15. CASE RemoveRuntimeFiles
    BY <1>15 DEF RemoveRuntimeFiles, Remove, RemoveBackup
  <1>16. CASE Save
    BY <1>16 DEF Save
  <1>17. CASE SaveWrite
    BY <1>17 DEF SaveWrite
  <1>18. CASE LoadSaved
    BY <1>18 DEF LoadSaved
  <1>19. CASE RemoveSaved
    BY <1>19 DEF RemoveSaved
  <1>20. CASE PowerLoss
    BY <1>20 DEF PowerLoss
  <1>21. CASE Mount
    BY <1>21 DEF Mount
  <1>22. CASE Recover
    BY <1>22 DEF Recover, RecoverFile
  <1>23. CASE RestoreLast
    BY <1>23 DEF RestoreLast
  <1>25. CASE SaveOpen
    BY <1>25 DEF SaveOpen
  <1>24. CASE UNCHANGED vars
    BY SMTT(60), <1>24 DEF vars
  <1> QED
    BY <1>1, <1>2, <1>3, <1>4, <1>5, <1>6, <1>7, <1>8, <1>9, <1>10, <1>11, <1>12,
       <1>13, <1>14, <1>15, <1>16, <1>17, <1>18, <1>19, <1>20, <1>21, <1>22, <1>23, <1>24, <1>25 DEF Next, Step

LEMMA HoldsStep == DiskOK /\ ControlOK /\ StageOK /\ WriteOK /\ HoldsOK /\ [Next]_vars => HoldsOK'
  <1> SUFFICES ASSUME DiskOK, ControlOK, StageOK, WriteOK, HoldsOK, [Next]_vars PROVE HoldsOK'
    OBVIOUS
  <1> USE Contents, Files DEF DiskOK, ControlOK, StageOK, WriteOK, HoldsOK, Writing, Steps, Unlink, disk, vm, call, history
  <1>1. CASE Open
    BY <1>1 DEF Open
  <1>2. CASE Write
    BY <1>2 DEF Write
  <1>3. CASE Purge
    BY <1>3 DEF Purge
  <1>4. CASE Backup
    BY <1>4 DEF Backup
  <1>5. CASE Install
    BY <1>5 DEF Install
  <1>6. CASE Rollback
    BY <1>6 DEF Rollback
  <1>7. CASE Cleanup
    BY <1>7 DEF Cleanup, Succeeded
  <1>8. CASE \E p \in Program : Load(p)
    BY <1>8 DEF Load
  <1>9. CASE \E p \in Program, replace \in BOOLEAN : StoreBytes(p, replace)
    BY <1>9 DEF StoreBytes
  <1>10. CASE Halt
    BY <1>10 DEF Halt
  <1>11. CASE Run
    BY <1>11 DEF Run
  <1>12. CASE Stop
    BY <1>12 DEF Stop
  <1>13. CASE Reset
    BY <1>13 DEF Reset
  <1>14. CASE ClearLast
    BY <1>14 DEF ClearLast
  <1>15. CASE RemoveRuntimeFiles
    BY <1>15 DEF RemoveRuntimeFiles, Remove, RemoveBackup
  <1>16. CASE Save
    BY <1>16 DEF Save
  <1>17. CASE SaveWrite
    BY <1>17 DEF SaveWrite
  <1>18. CASE LoadSaved
    BY <1>18 DEF LoadSaved
  <1>19. CASE RemoveSaved
    BY <1>19 DEF RemoveSaved
  <1>20. CASE PowerLoss
    BY <1>20 DEF PowerLoss
  <1>21. CASE Mount
    BY SMTT(60), <1>21 DEF Mount
  <1>22. CASE Recover
    BY <1>22 DEF Recover, RecoverFile
  <1>23. CASE RestoreLast
    BY <1>23 DEF RestoreLast
  <1>25. CASE SaveOpen
    BY <1>25 DEF SaveOpen
  <1>24. CASE UNCHANGED vars
    BY <1>24 DEF vars
  <1> QED
    BY <1>1, <1>2, <1>3, <1>4, <1>5, <1>6, <1>7, <1>8, <1>9, <1>10, <1>11, <1>12,
       <1>13, <1>14, <1>15, <1>16, <1>17, <1>18, <1>19, <1>20, <1>21, <1>22, <1>23, <1>24, <1>25 DEF Next, Step

LEMMA BaseInit == Init => BaseInv
  BY ZenonT(60), Contents, Files, FaultsAssumption DEF Init, BaseInv, TypeOK, StageOK, WriteOK, HoldsOK, Writing,
     Steps, Stages

LEMMA BaseStep == BaseInv /\ [Next]_vars => BaseInv'
  <1>1. TypeOK' <=> faults' \in SUBSET FaultKind /\ DiskOK' /\ FlagsOK' /\ ControlOK'
    BY DEF TypeOK, DiskOK, FlagsOK, ControlOK
  <1> QED
    BY <1>1, TypeParts, FaultsStay, DiskStep, FlagsStep, ControlStep, StageStep, WriteStep, HoldsStep
       DEF BaseInv

(***************************************************************************)
(* Every variable keeps its type.                                          *)
(***************************************************************************)
THEOREM TypeCorrect == Spec => []TypeOK
  <1>1. BaseInv => TypeOK
    BY DEF BaseInv
  <1> QED
    BY <1>1, BaseInit, BaseStep, PTL DEF Spec

(***************************************************************************)
(* Whatever file operations fail and wherever the power goes, a boot never *)
(* finds a runtime file that was not written to its end.                   *)
(***************************************************************************)
THEOREM NothingTorn == Spec => []SnapshotWhole
  <1>1. BaseInv => SnapshotWhole
    BY Contents, SMTT(60) DEF BaseInv, HoldsOK, SnapshotWhole, View, Runtime
  <1> QED
    BY <1>1, BaseInit, BaseStep, PTL DEF Spec

-----------------------------------------------------------------------------
(* Without failing removes and failing renames of a backup *)

\* A backup exists only while its file is being replaced or is to be recovered.
BackupOK ==
  /\ \A f \in Runtime : bak[f] # Absent =>
       \/ pc = "boot" \/ pc = "recover_prog"
       \/ pc = "idle" /\ ~mounted
       \/ pc = "recover_run" /\ f = "run"
       \/ pc \in {"install", "rollback", "cleanup"} /\ path = f
  /\ pc = "install" /\ ~hadPrevious /\ path \in Runtime => bak[path] = Absent
  /\ ~mounted => pc \in {"idle", "boot"}

\* While the program is replaced the flag is off; it goes on for this program.
StartOK ==
  Writing =>
    /\ stage = "program" => View("run") # "1"
    /\ stage = "on" => View("prog") = armed /\ armed \in Image

Clearing == pc \in {"clear_prog", "clear_prog_bak", "clear_run", "clear_run_bak"}

\* What the last reply says is what a boot would find.
ReplyOK ==
  /\ reply = "autorun" => View("run") = "1" /\ View("prog") = armed /\ armed \in Image
  /\ reply = "stopped" => View("run") # "1"
  /\ reply = "cleared" => View("prog") = Absent
  /\ reply # "none" => ~Clearing /\ (Writing => stage = "store")
  /\ Clearing /\ pc # "clear_prog" => View("prog") = Absent
  /\ booted => pc = "idle"

SafeInv ==
  /\ BaseInv
  /\ Quiet => BackupOK /\ StartOK /\ ReplyOK /\ AutorunMatches /\ BootHonoursReply

\* The only steps that change what a boot would find.
Changed(f) ==
  \/ pc = "install" /\ path = f /\ View(f)' = data
  \/ pc \in {"clear_prog", "clear_run"} /\ View(f)' = Absent

LEMMA BackupStep ==
  ASSUME DiskOK, ControlOK, StageOK, WriteOK, BackupOK, [Next]_vars, Quiet
  PROVE  BackupOK'
  <1> USE Contents, Files DEF Quiet, DiskOK, ControlOK, StageOK, WriteOK, BackupOK, Writing, Begin, Finish, NoCall, Failed, Steps, Runtime, Unlink, disk, vm, call, history
  <1>1. CASE Open
    BY <1>1 DEF Open
  <1>2. CASE Write
    BY <1>2 DEF Write
  <1>3. CASE Purge
    BY SMTT(60), <1>3 DEF Purge
  <1>4. CASE Backup
    BY SMTT(60), <1>4 DEF Backup
  <1>5. CASE Install
    BY <1>5 DEF Install
  <1>6. CASE Rollback
    BY <1>6 DEF Rollback
  <1>7. CASE Cleanup
    BY <1>7 DEF Cleanup, Succeeded
  <1>8. CASE \E p \in Program : Load(p)
    BY <1>8 DEF Load
  <1>9. CASE \E p \in Program, replace \in BOOLEAN : StoreBytes(p, replace)
    BY <1>9 DEF StoreBytes
  <1>10. CASE Halt
    BY <1>10 DEF Halt
  <1>11. CASE Run
    BY <1>11 DEF Run
  <1>12. CASE Stop
    BY <1>12 DEF Stop
  <1>13. CASE Reset
    BY <1>13 DEF Reset
  <1>14. CASE ClearLast
    BY SMTT(60), <1>14 DEF ClearLast
  <1>15. CASE RemoveRuntimeFiles
    BY <1>15 DEF RemoveRuntimeFiles, Remove, RemoveBackup
  <1>16. CASE Save
    BY <1>16 DEF Save
  <1>17. CASE SaveWrite
    BY <1>17 DEF SaveWrite
  <1>18. CASE LoadSaved
    BY <1>18 DEF LoadSaved
  <1>19. CASE RemoveSaved
    BY <1>19 DEF RemoveSaved
  <1>20. CASE PowerLoss
    BY <1>20 DEF PowerLoss
  <1>21. CASE Mount
    BY SMTT(60), <1>21 DEF Mount
  <1>22. CASE Recover
    BY SMTT(60), <1>22 DEF Recover, RecoverFile
  <1>23. CASE RestoreLast
    BY <1>23 DEF RestoreLast
  <1>25. CASE SaveOpen
    BY SMTT(60), <1>25 DEF SaveOpen
  <1>24. CASE UNCHANGED vars
    BY SMTT(60), <1>24 DEF vars
  <1> QED
    BY <1>1, <1>2, <1>3, <1>4, <1>5, <1>6, <1>7, <1>8, <1>9, <1>10, <1>11, <1>12,
       <1>13, <1>14, <1>15, <1>16, <1>17, <1>18, <1>19, <1>20, <1>21, <1>22, <1>23, <1>24, <1>25 DEF Next, Step

LEMMA ViewStep ==
  ASSUME DiskOK, ControlOK, StageOK, WriteOK, BackupOK, [Next]_vars, Quiet, NEW f \in Runtime
  PROVE  View(f)' = View(f) \/ Changed(f)
  <1> USE Contents, Files DEF Quiet, DiskOK, ControlOK, StageOK, WriteOK, BackupOK, Writing, Changed, View, Steps, Unlink, disk, vm, call, history
  <1>1. CASE Open
    BY SMTT(60), <1>1 DEF Open
  <1>2. CASE Write
    BY SMTT(60), <1>2 DEF Write
  <1>3. CASE Purge
    BY SMTT(60), <1>3 DEF Purge
  <1>4. CASE Backup
    BY SMTT(60), <1>4 DEF Backup
  <1>5. CASE Install
    BY SMTT(60), <1>5 DEF Install
  <1>6. CASE Rollback
    BY <1>6 DEF Rollback
  <1>7. CASE Cleanup
    BY SMTT(60), <1>7 DEF Cleanup, Succeeded
  <1>8. CASE \E p \in Program : Load(p)
    BY SMTT(60), <1>8 DEF Load
  <1>9. CASE \E p \in Program, replace \in BOOLEAN : StoreBytes(p, replace)
    BY SMTT(60), <1>9 DEF StoreBytes
  <1>10. CASE Halt
    BY SMTT(60), <1>10 DEF Halt
  <1>11. CASE Run
    BY SMTT(60), <1>11 DEF Run
  <1>12. CASE Stop
    BY SMTT(60), <1>12 DEF Stop
  <1>13. CASE Reset
    BY SMTT(60), <1>13 DEF Reset
  <1>14. CASE ClearLast
    BY SMTT(60), <1>14 DEF ClearLast
  <1>15. CASE RemoveRuntimeFiles
    BY SMTT(60), <1>15 DEF RemoveRuntimeFiles, Remove, RemoveBackup
  <1>16. CASE Save
    BY SMTT(60), <1>16 DEF Save
  <1>17. CASE SaveWrite
    BY SMTT(60), <1>17 DEF SaveWrite
  <1>18. CASE LoadSaved
    BY SMTT(60), <1>18 DEF LoadSaved
  <1>19. CASE RemoveSaved
    BY SMTT(60), <1>19 DEF RemoveSaved
  <1>20. CASE PowerLoss
    BY SMTT(60), <1>20 DEF PowerLoss
  <1>21. CASE Mount
    BY SMTT(60), <1>21 DEF Mount
  <1>22. CASE Recover
    BY SMTT(60), <1>22 DEF Recover, RecoverFile
  <1>23. CASE RestoreLast
    BY SMTT(60), <1>23 DEF RestoreLast
  <1>25. CASE SaveOpen
    BY SMTT(60), <1>25 DEF SaveOpen
  <1>24. CASE UNCHANGED vars
    BY <1>24 DEF vars
  <1> QED
    BY ZenonT(60), <1>1, <1>2, <1>3, <1>4, <1>5, <1>6, <1>7, <1>8, <1>9, <1>10, <1>11, <1>12,
       <1>13, <1>14, <1>15, <1>16, <1>17, <1>18, <1>19, <1>20, <1>21, <1>22, <1>23, <1>24, <1>25 DEF Next, Step

LEMMA ViewFacts ==
  ASSUME DiskOK, ControlOK, StageOK, WriteOK, BackupOK
  PROVE  /\ pc = "cleanup" /\ path \in Runtime => View(path) = data
         /\ pc = "restore" => \A f \in Runtime : View(f) = main[f]
  BY Contents, Files DEF DiskOK, ControlOK, StageOK, WriteOK, BackupOK, View, Writing, Steps

LEMMA Cleared ==
  ASSUME DiskOK, BackupOK, Quiet, RemoveRuntimeFiles, pc = "clear_prog"
  PROVE  View("prog")' = Absent
  BY SMTT(60), Contents, Files DEF DiskOK, BackupOK, Quiet, RemoveRuntimeFiles, Remove,
     RemoveBackup, Unlink, View

LEMMA StartStep ==
  ASSUME DiskOK, ControlOK, StageOK, WriteOK, BackupOK, StartOK, [Next]_vars, Quiet
  PROVE  StartOK'
  <1> USE Contents, Files, ViewStep, ViewFacts DEF Changed, ControlOK, StageOK, StartOK, Writing, Begin, Finish, NoCall, Failed, Steps, disk, vm, call, history
  <1>1. CASE Open
    BY SMTT(60), <1>1 DEF Open
  <1>2. CASE Write
    BY SMTT(60), <1>2 DEF Write
  <1>3. CASE Purge
    BY SMTT(60), <1>3 DEF Purge
  <1>4. CASE Backup
    BY SMTT(60), <1>4 DEF Backup
  <1>5. CASE Install
    BY SMTT(60), <1>5 DEF Install
  <1>6. CASE Rollback
    BY <1>6 DEF Rollback
  <1>7. CASE Cleanup
    BY SMTT(60), <1>7 DEF Cleanup, Succeeded
  <1>8. CASE \E p \in Program : Load(p)
    BY SMTT(60), <1>8 DEF Load
  <1>9. CASE \E p \in Program, replace \in BOOLEAN : StoreBytes(p, replace)
    BY SMTT(60), <1>9 DEF StoreBytes
  <1>10. CASE Halt
    BY SMTT(60), <1>10 DEF Halt
  <1>11. CASE Run
    BY SMTT(60), <1>11 DEF Run
  <1>12. CASE Stop
    BY SMTT(60), <1>12 DEF Stop
  <1>13. CASE Reset
    BY SMTT(60), <1>13 DEF Reset
  <1>14. CASE ClearLast
    BY SMTT(60), <1>14 DEF ClearLast
  <1>15. CASE RemoveRuntimeFiles
    BY SMTT(60), <1>15 DEF RemoveRuntimeFiles, Remove, RemoveBackup
  <1>16. CASE Save
    BY SMTT(60), <1>16 DEF Save
  <1>17. CASE SaveWrite
    BY SMTT(60), <1>17 DEF SaveWrite
  <1>18. CASE LoadSaved
    BY SMTT(60), <1>18 DEF LoadSaved
  <1>19. CASE RemoveSaved
    BY SMTT(60), <1>19 DEF RemoveSaved
  <1>20. CASE PowerLoss
    BY SMTT(60), <1>20 DEF PowerLoss
  <1>21. CASE Mount
    BY SMTT(60), <1>21 DEF Mount
  <1>22. CASE Recover
    BY SMTT(60), <1>22 DEF Recover, RecoverFile
  <1>23. CASE RestoreLast
    BY SMTT(60), <1>23 DEF RestoreLast
  <1>25. CASE SaveOpen
    BY SMTT(60), <1>25 DEF SaveOpen
  <1>24. CASE UNCHANGED vars
    BY SMTT(60), <1>24 DEF vars
  <1> QED
    BY SMTT(60), <1>1, <1>2, <1>3, <1>4, <1>5, <1>6, <1>7, <1>8, <1>9, <1>10, <1>11, <1>12,
       <1>13, <1>14, <1>15, <1>16, <1>17, <1>18, <1>19, <1>20, <1>21, <1>22, <1>23, <1>24, <1>25 DEF Next, Step

LEMMA ReplyStep ==
  ASSUME DiskOK, ControlOK, StageOK, WriteOK, BackupOK, ReplyOK, StartOK, [Next]_vars, Quiet
  PROVE  ReplyOK'
  <1> USE Contents, Files, ViewStep, ViewFacts DEF Changed, ControlOK, StageOK, ReplyOK, StartOK, Clearing, Writing, Begin, Finish, NoCall, Failed, Steps, disk, vm, call, history
  <1>1. CASE Open
    BY SMTT(60), <1>1 DEF Open
  <1>2. CASE Write
    BY SMTT(60), <1>2 DEF Write
  <1>3. CASE Purge
    BY SMTT(60), <1>3 DEF Purge
  <1>4. CASE Backup
    BY SMTT(60), <1>4 DEF Backup
  <1>5. CASE Install
    BY SMTT(60), <1>5 DEF Install
  <1>6. CASE Rollback
    BY <1>6 DEF Rollback
  <1>7. CASE Cleanup
    BY SMTT(60), <1>7 DEF Cleanup, Succeeded
  <1>8. CASE \E p \in Program : Load(p)
    BY SMTT(60), <1>8 DEF Load
  <1>9. CASE \E p \in Program, replace \in BOOLEAN : StoreBytes(p, replace)
    BY SMTT(60), <1>9 DEF StoreBytes
  <1>10. CASE Halt
    BY SMTT(60), <1>10 DEF Halt
  <1>11. CASE Run
    BY SMTT(60), <1>11 DEF Run
  <1>12. CASE Stop
    BY SMTT(60), <1>12 DEF Stop
  <1>13. CASE Reset
    BY SMTT(60), <1>13 DEF Reset
  <1>14. CASE ClearLast
    BY SMTT(60), <1>14 DEF ClearLast
  <1>15. CASE RemoveRuntimeFiles
    BY SMTT(60), <1>15, Cleared DEF RemoveRuntimeFiles, Remove, RemoveBackup
  <1>16. CASE Save
    BY SMTT(60), <1>16 DEF Save
  <1>17. CASE SaveWrite
    BY SMTT(60), <1>17 DEF SaveWrite
  <1>18. CASE LoadSaved
    BY SMTT(60), <1>18 DEF LoadSaved
  <1>19. CASE RemoveSaved
    BY SMTT(60), <1>19 DEF RemoveSaved
  <1>20. CASE PowerLoss
    BY SMTT(60), <1>20 DEF PowerLoss
  <1>21. CASE Mount
    BY SMTT(60), <1>21 DEF Mount
  <1>22. CASE Recover
    BY SMTT(60), <1>22 DEF Recover, RecoverFile
  <1>23. CASE RestoreLast
    BY SMTT(60), <1>23 DEF RestoreLast
  <1>25. CASE SaveOpen
    BY SMTT(60), <1>25 DEF SaveOpen
  <1>24. CASE UNCHANGED vars
    BY SMTT(60), <1>24 DEF vars
  <1> QED
    BY ZenonT(60), <1>1, <1>2, <1>3, <1>4, <1>5, <1>6, <1>7, <1>8, <1>9, <1>10, <1>11, <1>12,
       <1>13, <1>14, <1>15, <1>16, <1>17, <1>18, <1>19, <1>20, <1>21, <1>22, <1>23, <1>24, <1>25 DEF Next, Step

LEMMA AutorunStep ==
  ASSUME DiskOK, ControlOK, StageOK, WriteOK, BackupOK, StartOK, AutorunMatches, [Next]_vars, Quiet
  PROVE  AutorunMatches'
  <1>0. "remove" \notin faults /\ "remove" \notin faults'
    BY SMTT(60), FaultsStay DEF Quiet
  <1> USE <1>0, Contents, Files, ViewStep, ViewFacts DEF Changed, ControlOK, StageOK, StartOK, AutorunMatches, Writing, Begin, Finish, NoCall, Failed, Steps, disk, vm, call, history
  <1>1. CASE Open
    BY SMTT(60), <1>1 DEF Open
  <1>2. CASE Write
    BY SMTT(60), <1>2 DEF Write
  <1>3. CASE Purge
    BY SMTT(60), <1>3 DEF Purge
  <1>4. CASE Backup
    BY SMTT(60), <1>4 DEF Backup
  <1>5. CASE Install
    BY SMTT(60), <1>5 DEF Install
  <1>6. CASE Rollback
    BY <1>6 DEF Rollback
  <1>7. CASE Cleanup
    BY SMTT(60), <1>7 DEF Cleanup, Succeeded
  <1>8. CASE \E p \in Program : Load(p)
    BY SMTT(60), <1>8 DEF Load
  <1>9. CASE \E p \in Program, replace \in BOOLEAN : StoreBytes(p, replace)
    BY SMTT(60), <1>9 DEF StoreBytes
  <1>10. CASE Halt
    BY SMTT(60), <1>10 DEF Halt
  <1>11. CASE Run
    BY SMTT(60), <1>11 DEF Run
  <1>12. CASE Stop
    BY SMTT(60), <1>12 DEF Stop
  <1>13. CASE Reset
    BY SMTT(60), <1>13 DEF Reset
  <1>14. CASE ClearLast
    BY SMTT(60), <1>14 DEF ClearLast
  <1>15. CASE RemoveRuntimeFiles
    BY SMTT(60), <1>15 DEF RemoveRuntimeFiles, Remove, RemoveBackup
  <1>16. CASE Save
    BY SMTT(60), <1>16 DEF Save
  <1>17. CASE SaveWrite
    BY SMTT(60), <1>17 DEF SaveWrite
  <1>18. CASE LoadSaved
    BY SMTT(60), <1>18 DEF LoadSaved
  <1>19. CASE RemoveSaved
    BY SMTT(60), <1>19 DEF RemoveSaved
  <1>20. CASE PowerLoss
    BY SMTT(60), <1>20 DEF PowerLoss
  <1>21. CASE Mount
    BY SMTT(60), <1>21 DEF Mount
  <1>22. CASE Recover
    BY SMTT(60), <1>22 DEF Recover, RecoverFile
  <1>23. CASE RestoreLast
    BY SMTT(60), <1>23 DEF RestoreLast
  <1>25. CASE SaveOpen
    BY SMTT(60), <1>25 DEF SaveOpen
  <1>24. CASE UNCHANGED vars
    BY SMTT(60), <1>24 DEF vars
  <1> QED
    BY SMTT(60), <1>1, <1>2, <1>3, <1>4, <1>5, <1>6, <1>7, <1>8, <1>9, <1>10, <1>11, <1>12,
       <1>13, <1>14, <1>15, <1>16, <1>17, <1>18, <1>19, <1>20, <1>21, <1>22, <1>23, <1>24, <1>25 DEF Next, Step

LEMMA BootStep ==
  ASSUME DiskOK, ControlOK, StageOK, WriteOK, BackupOK, ReplyOK, BootHonoursReply, [Next]_vars, Quiet
  PROVE  BootHonoursReply'
  <1>0. "remove" \notin faults /\ "remove" \notin faults'
    BY SMTT(60), FaultsStay DEF Quiet
  <1> USE <1>0, Contents, Files, ViewStep, ViewFacts DEF Changed, ControlOK, StageOK, ReplyOK, BootHonoursReply, Clearing, Writing, Begin, Finish, NoCall, Failed, Steps, disk, vm, call, history
  <1>1. CASE Open
    BY SMTT(60), <1>1 DEF Open
  <1>2. CASE Write
    BY SMTT(60), <1>2 DEF Write
  <1>3. CASE Purge
    BY SMTT(60), <1>3 DEF Purge
  <1>4. CASE Backup
    BY SMTT(60), <1>4 DEF Backup
  <1>5. CASE Install
    BY SMTT(60), <1>5 DEF Install
  <1>6. CASE Rollback
    BY <1>6 DEF Rollback
  <1>7. CASE Cleanup
    BY SMTT(60), <1>7 DEF Cleanup, Succeeded
  <1>8. CASE \E p \in Program : Load(p)
    BY SMTT(60), <1>8 DEF Load
  <1>9. CASE \E p \in Program, replace \in BOOLEAN : StoreBytes(p, replace)
    BY SMTT(60), <1>9 DEF StoreBytes
  <1>10. CASE Halt
    BY SMTT(60), <1>10 DEF Halt
  <1>11. CASE Run
    BY SMTT(60), <1>11 DEF Run
  <1>12. CASE Stop
    BY SMTT(60), <1>12 DEF Stop
  <1>13. CASE Reset
    BY SMTT(60), <1>13 DEF Reset
  <1>14. CASE ClearLast
    BY SMTT(60), <1>14 DEF ClearLast
  <1>15. CASE RemoveRuntimeFiles
    BY SMTT(60), <1>15 DEF RemoveRuntimeFiles, Remove, RemoveBackup
  <1>16. CASE Save
    BY SMTT(60), <1>16 DEF Save
  <1>17. CASE SaveWrite
    BY SMTT(60), <1>17 DEF SaveWrite
  <1>18. CASE LoadSaved
    BY SMTT(60), <1>18 DEF LoadSaved
  <1>19. CASE RemoveSaved
    BY SMTT(60), <1>19 DEF RemoveSaved
  <1>20. CASE PowerLoss
    BY SMTT(60), <1>20 DEF PowerLoss
  <1>21. CASE Mount
    BY SMTT(60), <1>21 DEF Mount
  <1>22. CASE Recover
    BY SMTT(60), <1>22 DEF Recover, RecoverFile
  <1>23. CASE RestoreLast
    BY ZenonT(60), <1>23 DEF RestoreLast
  <1>25. CASE SaveOpen
    BY <1>25, SMTT(60) DEF SaveOpen
  <1>24. CASE UNCHANGED vars
    BY <1>24 DEF vars
  <1> QED
    BY ZenonT(60), <1>1, <1>2, <1>3, <1>4, <1>5, <1>6, <1>7, <1>8, <1>9, <1>10, <1>11, <1>12,
       <1>13, <1>14, <1>15, <1>16, <1>17, <1>18, <1>19, <1>20, <1>21, <1>22, <1>23, <1>24, <1>25 DEF Next, Step

LEMMA SafeInit == Init => SafeInv
  <1> SUFFICES ASSUME Init PROVE SafeInv
    OBVIOUS
  <1>1. BaseInv
    BY BaseInit
  <1>2. \A f \in File : main[f] = Absent /\ bak[f] = Absent /\ View(f) = Absent
    BY DEF Init, View
  <1> QED
    BY <1>1, <1>2, Contents, Files DEF Init, SafeInv, BackupOK, StartOK, ReplyOK,
       Writing, Clearing, AutorunMatches, BootHonoursReply

LEMMA SafeStep == SafeInv /\ [Next]_vars => SafeInv'
  <1> SUFFICES ASSUME SafeInv, [Next]_vars PROVE SafeInv'
    OBVIOUS
  <1>1. DiskOK /\ ControlOK /\ StageOK /\ WriteOK
    BY TypeParts DEF SafeInv, BaseInv
  <1>2. BaseInv'
    BY BaseStep DEF SafeInv
  <1>3. Quiet' <=> Quiet
    BY FaultsStay DEF Quiet
  <1>4. ASSUME Quiet PROVE BackupOK' /\ StartOK' /\ ReplyOK'
    BY <1>1, <1>4, BackupStep, StartStep, ReplyStep DEF SafeInv
  <1>5. ASSUME Quiet PROVE AutorunMatches' /\ BootHonoursReply'
    BY <1>1, <1>5, AutorunStep, BootStep DEF SafeInv
  <1> QED
    BY <1>2, <1>3, <1>4, <1>5 DEF SafeInv

(***************************************************************************)
(* An interrupted or failed write leaves the previous snapshot or the new  *)
(* one, never a damaged one or none.                                       *)
(***************************************************************************)
THEOREM SnapshotProtected == Spec => SnapshotSurvives
  <1>1. ASSUME SafeInv, [Next]_vars
        PROVE  [Quiet =>
                  \A f \in Runtime : View(f)' # View(f) =>
                    \/ pc = "install" /\ path = f /\ View(f)' = data
                    \/ pc \in {"clear_prog", "clear_run"} /\ View(f)' = Absent]_vars
    <2> SUFFICES ASSUME Quiet, NEW f \in Runtime, View(f)' # View(f)
                 PROVE  Changed(f)
      BY DEF Changed
    <2>1. DiskOK /\ ControlOK /\ StageOK /\ WriteOK /\ BackupOK
      BY <1>1, TypeParts DEF SafeInv, BaseInv
    <2> QED
      BY <1>1, <2>1, ViewStep
  <1> QED
    BY <1>1, SafeInit, SafeStep, PTL DEF Spec, SnapshotSurvives

(***************************************************************************)
(* A boot runs only the program the flag was written for.                  *)
(***************************************************************************)
THEOREM AutorunIsOwn == Spec => [](Quiet => AutorunMatches)
  <1>1. SafeInv => (Quiet => AutorunMatches)
    BY DEF SafeInv
  <1> QED
    BY <1>1, SafeInit, SafeStep, PTL DEF Spec

(***************************************************************************)
(* After a boot the VM is what the last answered RUN, STOP, RESET_VM or    *)
(* VM_LAST_CLEAR said.                                                     *)
(***************************************************************************)
THEOREM BootKeepsWord == Spec => [](Quiet => BootHonoursReply)
  <1>1. SafeInv => (Quiet => BootHonoursReply)
    BY DEF SafeInv
  <1> QED
    BY <1>1, SafeInit, SafeStep, PTL DEF Spec
=============================================================================
