---------------------------- MODULE WispWebProofs ----------------------------
(***************************************************************************)
(* Theorems about WispWeb for any number of threads, descriptors, streams  *)
(* and chunks: its types, the one owner of a descriptor, whole commands    *)
(* and whole files, output that reaches a browser in order, and threads    *)
(* that neither keep a lock nor go on for ever.                            *)
(***************************************************************************)
EXTENDS WispWeb, TLAPS

(***************************************************************************)
(* Types.                                                                  *)
(***************************************************************************)
LEMMA ExitTypes == ASSUME TypeOK, exit PROVE TypeOK'
<1>1. <<>> \in Seq(Nat) /\ Len(<<>>) = 0
  OBVIOUS
<1>2. up' \in BOOLEAN /\ shell' \in BOOLEAN /\ mixed' \in BOOLEAN
  BY ZenonT(60) DEF exit
<1>3. /\ pc' \in [Clients -> Labels] /\ temp' \in [Clients -> {None, Partial, Whole}]
      /\ fd' \in [Clients -> Fds \cup {NoFd}] /\ streams' \in [Slot -> Fds \cup {NoFd}]
  BY SMTT(60) DEF exit, TypeOK, NoThreads, NoFds, NoStreams, Labels, editor
<1>4. produced' \in Nat /\ history' \in Seq(Nat) /\ Len(history') <= HISTORY_MAX
  BY <1>1, HistoryAssumption, SMTT(60) DEF exit
<1> QED
  BY <1>2, <1>3, <1>4, ZenonT(60) DEF TypeOK, exit

LEMMA ClientTypes ==
  ASSUME TypeOK, NEW c \in Clients, accept(c) \/ clientStep(c)
  PROVE  TypeOK'
<1> USE DEF TypeOK, Labels, At, Goto, done, close, descriptors, lines, output, editor
<1>1. CASE accept(c)
  BY <1>1, SMTT(60) DEF accept
<1>2. CASE read_request(c) \/ api_open(c) \/ request(c)
  BY <1>2, SMTT(60) DEF read_request, api_open, request
<1>3. CASE runLock(c) \/ runNewline(c)
  BY <1>3, SMTT(60) DEF runLock, runNewline
<1>4. CASE runCommand(c)
  BY <1>4, SMTT(60) DEF runCommand
<1>5. CASE saveTemp(c) \/ saveWrite(c) \/ saveRename(c)
  BY <1>5, SMTT(60) DEF saveTemp, saveWrite, saveRename
<1>6. CASE streamHead(c) \/ streamLock(c)
  BY <1>6, SMTT(60) DEF streamHead, streamLock
<1>7. CASE streamAdd(c)
  BY <1>7, SMTT(60) DEF streamAdd
<1> QED
  BY <1>1, <1>2, <1>3, <1>4, <1>5, <1>6, <1>7 DEF clientStep

LEMMA ReaderTypes == ASSUME TypeOK, pty_reader PROVE TypeOK'
<1> USE DEF TypeOK, close, threads, descriptors, lines, output, editor
<1>1. CASE readerRead \/ readerLock
  BY <1>1, SMTT(60) DEF readerRead, readerLock
<1>2. CASE readerKeep
  <2> DEFINE h == Append(history, produced)
  <2>1. h \in Seq(Nat) /\ Len(h) = Len(history) + 1 /\ Len(history) \in Nat
    BY SMTT(60)
  <2>2. Tail(h) \in Seq(Nat) /\ Len(Tail(h)) = Len(history)
    BY <2>1, SMTT(60)
  <2>3. history' = IF Len(h) > HISTORY_MAX THEN Tail(h) ELSE h
    BY <1>2 DEF readerKeep
  <2>4. history' \in Seq(Nat) /\ Len(history') <= HISTORY_MAX
    <3> HIDE DEF h
    <3> QED BY <2>1, <2>2, <2>3, HistoryAssumption, SMTT(60)
  <2> HIDE DEF h
  <2> QED BY <1>2, <2>4, SMTT(60) DEF readerKeep
<1>3. CASE readerSend
  BY <1>3, SMTT(60) DEF readerSend
<1>4. CASE readerClose
  BY <1>4, SMTT(60) DEF readerClose, NoStreams
<1> QED
  BY <1>1, <1>2, <1>3, <1>4 DEF pty_reader

\* The history buffer never overflows and every variable keeps its type,
\* for any number of connection threads and any sizes.
THEOREM TypeCorrect == Spec => []TypeOK
<1>1. Init => TypeOK
  <2>1. <<>> \in Seq(Nat) /\ Len(<<>>) = 0
    OBVIOUS
  <2> SUFFICES ASSUME Init PROVE TypeOK
    OBVIOUS
  <2>2. up \in BOOLEAN /\ shell \in BOOLEAN /\ mixed \in BOOLEAN
    BY ZenonT(60) DEF Init
  <2>3. /\ pc \in [Clients -> Labels] /\ temp \in [Clients -> {None, Partial, Whole}]
        /\ fd \in [Clients -> Fds \cup {NoFd}] /\ streams \in [Slot -> Fds \cup {NoFd}]
    BY SMTT(60) DEF Init, NoThreads, NoFds, NoStreams, Labels
  <2>4. produced \in Nat /\ history \in Seq(Nat) /\ Len(history) <= HISTORY_MAX
    BY <2>1, HistoryAssumption, SMTT(60) DEF Init
  <2> QED
    BY <2>2, <2>3, <2>4, ZenonT(60) DEF TypeOK, Init
<1>2. TypeOK /\ [Next]_vars => TypeOK'
  <2> SUFFICES ASSUME TypeOK, [Next]_vars PROVE TypeOK'
    OBVIOUS
  <2>1. ASSUME NEW c \in Clients, accept(c) \/ clientStep(c) PROVE TypeOK'
    BY <2>1, ClientTypes
  <2>2. CASE acceptFails \/ shutdown_handler
    BY <2>2, ExitTypes DEF acceptFails, shutdown_handler
  <2>3. CASE pty_reader
    BY <2>3, ReaderTypes
  <2>4. ASSUME NEW f \in Fds, leave(f) PROVE TypeOK'
    BY <2>4, SMTT(60) DEF leave, TypeOK, threads, lines, output, editor
  <2>5. CASE shellEnds
    BY <2>5, ZenonT(60) DEF shellEnds, TypeOK, threads, descriptors, lines, output, editor
  <2>6. CASE UNCHANGED vars
    BY <2>6, SMTT(60) DEF vars, TypeOK, threads, descriptors, lines, output, editor
  <2> QED
    BY <2>1, <2>2, <2>3, <2>4, <2>5, <2>6 DEF Next
<1> QED
  BY <1>1, <1>2, PTL DEF Spec
(***************************************************************************)
(* Commands.  LinesWhole is not inductive: it needs that whoever is about  *)
(* to write, or has written half a line, holds pty_lock, and that half a   *)
(* line is open only while its writer is about to end it.                  *)
(***************************************************************************)
LinesInv ==
  /\ mixed = FALSE
  /\ \A c \in Clients : pc[c] \in {"command", "newline"} => pty_lock = c
  /\ shell /\ typing # None => typing \in Clients /\ pc[typing] = "newline"

\* Steps that leave the terminal's input alone, of a thread that is not
\* writing a command.
LEMMA LinesUntouched ==
  ASSUME TypeOK, LinesInv, NEW c \in Clients, UNCHANGED <<shell, lines>>,
         pc[c] \notin {"command", "newline"},
         NEW l \in Labels \ {"command", "newline"}, pc' = [pc EXCEPT ![c] = l]
  PROVE  LinesInv'
  BY SMTT(60) DEF LinesInv, lines, TypeOK

LEMMA ClientLines ==
  ASSUME TypeOK, LinesInv, NEW c \in Clients, accept(c) \/ clientStep(c)
  PROVE  LinesInv'
<1> USE DEF At, Goto, Labels
<1>1. CASE accept(c)
  <2>1. pc[c] = "free" /\ pc' = [pc EXCEPT ![c] = "request"] /\ UNCHANGED <<shell, lines>>
    BY <1>1 DEF accept
  <2> QED
    BY <2>1, SMTT(60) DEF LinesInv, lines, TypeOK
<1>2. CASE read_request(c) \/ api_open(c)
  BY <1>2, LinesUntouched, SMTT(60) DEF read_request, api_open, done
<1>3. CASE request(c)
  <2>1. PICK p \in {"events", "run", "save"} : pc' = [pc EXCEPT ![c] = p]
    BY <1>3, ZenonT(60) DEF request
  <2>2. pc[c] = "request" /\ UNCHANGED <<shell, lines>>
    BY <1>3 DEF request
  <2> QED
    BY <2>1, <2>2, SMTT(60) DEF LinesInv, lines, TypeOK
<1>4. CASE runLock(c)
  <2>1. pty_lock' = c /\ pc' = [pc EXCEPT ![c] = "command"] /\ UNCHANGED <<shell, typing, mixed>>
    BY <1>4 DEF runLock
  <2>2. \A d \in Clients : pc[d] \notin {"command", "newline"}
    BY <1>4, ClientAssumption, SMTT(60) DEF runLock, LinesInv
  <2> QED
    BY <2>1, <2>2, SMTT(60) DEF LinesInv, TypeOK
<1>5. CASE runCommand(c) /\ shell
  <2>1. typing = None
    BY <1>5, SMTT(60) DEF runCommand, LinesInv
  <2>2. typing' = c /\ pc' = [pc EXCEPT ![c] = "newline"] /\ UNCHANGED <<shell, pty_lock>>
    BY <1>5 DEF runCommand
  <2>3. mixed' = FALSE
    BY <1>5, <2>1, ZenonT(60) DEF runCommand, LinesInv
  <2> QED
    BY <1>5, <2>2, <2>3, SMTT(60) DEF runCommand, LinesInv, TypeOK
<1>6. CASE runCommand(c) /\ ~shell
  <2>1. pc' = [pc EXCEPT ![c] = "free"] /\ UNCHANGED <<shell, mixed>>
    BY <1>6 DEF runCommand, done
  <2>2. \A d \in Clients : d # c => pc[d] \notin {"command", "newline"}
    BY <1>6, SMTT(60) DEF runCommand, LinesInv
  <2> QED
    BY <1>6, <2>1, <2>2, SMTT(60) DEF LinesInv, TypeOK
<1>7. CASE runNewline(c)
  <2>1. pc' = [pc EXCEPT ![c] = "free"] /\ UNCHANGED <<shell, mixed>> /\ (shell => typing' = None)
    BY <1>7 DEF runNewline, done
  <2>2. \A d \in Clients : d # c => pc[d] \notin {"command", "newline"}
    BY <1>7, SMTT(60) DEF runNewline, LinesInv
  <2> QED
    BY <2>1, <2>2, SMTT(60) DEF LinesInv, TypeOK
<1>8. CASE saveTemp(c) \/ saveWrite(c) \/ saveRename(c)
  BY <1>8, LinesUntouched, SMTT(60) DEF saveTemp, saveWrite, saveRename, done
<1>9. CASE streamHead(c) \/ streamLock(c) \/ streamAdd(c)
  BY <1>9, LinesUntouched, SMTT(60) DEF streamHead, streamLock, streamAdd
<1> QED
  BY <1>1, <1>2, <1>3, <1>4, <1>5, <1>6, <1>7, <1>8, <1>9 DEF clientStep

\* Steps of the reader and of the browsers do not touch the threads.
LEMMA LinesKept ==
  ASSUME LinesInv, UNCHANGED <<pc, lines>>, shell' => shell
  PROVE  LinesInv'
  BY SMTT(60) DEF LinesInv, lines

\* However many threads run commands, a line of the shell is one command.
THEOREM CommandsWhole == Spec => []LinesWhole
<1>1. Init => LinesInv
  BY ZenonT(60) DEF Init, LinesInv, NoThreads
<1>2. TypeOK /\ LinesInv /\ [Next]_vars => LinesInv'
  <2> SUFFICES ASSUME TypeOK, LinesInv, [Next]_vars PROVE LinesInv'
    OBVIOUS
  <2>1. ASSUME NEW c \in Clients, accept(c) \/ clientStep(c) PROVE LinesInv'
    BY <2>1, ClientLines
  <2>2. CASE acceptFails \/ shutdown_handler
    BY <2>2, SMTT(60) DEF acceptFails, shutdown_handler, exit, LinesInv, NoThreads
  <2>3. CASE pty_reader
    <3>1. UNCHANGED <<threads, lines, shell>>
      BY <2>3, SMTT(60)
         DEF pty_reader, readerRead, readerLock, readerKeep, readerSend, readerClose
    <3> QED
      BY <3>1, LinesKept DEF threads
  <2>4. ASSUME NEW f \in Fds, leave(f) PROVE LinesInv'
    BY <2>4, LinesKept DEF leave, threads
  <2>5. CASE shellEnds
    BY <2>5, LinesKept DEF shellEnds, threads
  <2>6. CASE UNCHANGED vars
    BY <2>6, LinesKept DEF vars, threads
  <2> QED
    BY <2>1, <2>2, <2>3, <2>4, <2>5, <2>6 DEF Next
<1>3. LinesInv => LinesWhole
  BY SMTT(60) DEF LinesInv, LinesWhole
<1> QED
  BY <1>1, <1>2, <1>3, TypeCorrect, PTL DEF Spec

(***************************************************************************)
(* Saves.  What is renamed onto the file is a temporary that was written   *)
(* to its end.                                                             *)
(***************************************************************************)
SavedInv ==
  /\ SavedWhole
  /\ \A c \in Clients : pc[c] = "rename" => temp[c] = Whole

LEMMA ClientSaves ==
  ASSUME TypeOK, SavedInv, NEW c \in Clients, accept(c) \/ clientStep(c)
  PROVE  SavedInv'
<1> USE DEF At, Goto, done, editor, SavedInv, SavedWhole, TypeOK
<1>1. CASE accept(c)
  BY <1>1, SMTT(60) DEF accept
<1>2. CASE read_request(c) \/ api_open(c) \/ request(c)
  BY <1>2, SMTT(60) DEF read_request, api_open, request
<1>3. CASE runLock(c) \/ runCommand(c) \/ runNewline(c)
  BY <1>3, SMTT(60) DEF runLock, runCommand, runNewline
<1>4. CASE saveTemp(c)
  BY <1>4, SMTT(60) DEF saveTemp
<1>5. CASE saveWrite(c)
  <2>1. up /\ UNCHANGED <<up, file, shown>>
    BY <1>5 DEF saveWrite
  <2>2. CASE temp' = [temp EXCEPT ![c] = Whole] /\ pc' = [pc EXCEPT ![c] = "rename"]
    BY <2>1, <2>2, SMTT(60)
  <2>3. CASE temp' = [temp EXCEPT ![c] = None] /\ pc' = [pc EXCEPT ![c] = "free"]
    BY <2>1, <2>3, SMTT(60)
  <2> QED
    BY <1>5, <2>2, <2>3 DEF saveWrite
<1>6. CASE saveRename(c)
  BY <1>6, SMTT(60) DEF saveRename
<1>7. CASE streamHead(c) \/ streamLock(c) \/ streamAdd(c)
  BY <1>7, SMTT(60) DEF streamHead, streamLock, streamAdd
<1> QED
  BY <1>1, <1>2, <1>3, <1>4, <1>5, <1>6, <1>7 DEF clientStep

LEMMA SavesKept ==
  ASSUME SavedInv, UNCHANGED <<up, pc, editor>>
  PROVE  SavedInv'
  BY SMTT(60) DEF SavedInv, SavedWhole, editor

\* Whenever the process ends, and whatever write fails, the file and what a
\* browser was shown of it is one complete save.
THEOREM SavesWhole == Spec => []SavedWhole
<1>1. Init => SavedInv
  BY SMTT(60) DEF Init, SavedInv, SavedWhole, NoThreads
<1>2. TypeOK /\ SavedInv /\ [Next]_vars => SavedInv'
  <2> SUFFICES ASSUME TypeOK, SavedInv, [Next]_vars PROVE SavedInv'
    OBVIOUS
  <2>1. ASSUME NEW c \in Clients, accept(c) \/ clientStep(c) PROVE SavedInv'
    BY <2>1, ClientSaves
  <2>2. CASE acceptFails \/ shutdown_handler
    BY <2>2, SMTT(60) DEF acceptFails, shutdown_handler, exit, SavedInv, SavedWhole, NoThreads, editor
  <2>3. CASE pty_reader
    <3>1. UNCHANGED <<up, threads, editor>>
      BY <2>3, SMTT(60)
         DEF pty_reader, readerRead, readerLock, readerKeep, readerSend, readerClose
    <3> QED
      BY <3>1, SavesKept DEF threads
  <2>4. ASSUME NEW f \in Fds, leave(f) PROVE SavedInv'
    BY <2>4, SavesKept DEF leave, threads
  <2>5. CASE shellEnds
    BY <2>5, SavesKept DEF shellEnds, threads
  <2>6. CASE UNCHANGED vars
    BY <2>6, SavesKept DEF vars, threads
  <2> QED
    BY <2>1, <2>2, <2>3, <2>4, <2>5, <2>6 DEF Next
<1>3. SavedInv => SavedWhole
  BY DEF SavedInv
<1> QED
  BY <1>1, <1>2, <1>3, TypeCorrect, PTL DEF Spec

(***************************************************************************)
(* Descriptors.  Owned is OneOwner pointwise, inductive with the types: a  *)
(* number is given out only while it is closed, and its owner lets go in   *)
(* the step that closes it.                                                *)
(***************************************************************************)
Owned ==
  /\ \A c, d \in Clients : c # d /\ fd[c] # NoFd => fd[c] # fd[d]
  /\ \A s, t \in Slot : s # t /\ streams[s] # NoFd => streams[s] # streams[t]
  /\ \A c \in Clients, s \in Slot : fd[c] # NoFd => fd[c] # streams[s]
  /\ \A c \in Clients : fd[c] # NoFd => fd[c] \in open
  /\ \A s \in Slot : streams[s] # NoFd => streams[s] \in open

LEMMA ClientOwners ==
  ASSUME TypeOK, Owned, NEW c \in Clients, accept(c) \/ clientStep(c)
  PROVE  Owned'
<1> USE FdAssumption DEF Goto, Owned, TypeOK
<1>1. CASE accept(c)
  <2>1. PICK f \in Fds \ open : fd' = [fd EXCEPT ![c] = f] /\ open' = open \cup {f}
    BY <1>1, ZenonT(60) DEF accept
  <2>2. UNCHANGED streams
    BY <1>1 DEF accept, output
  <2> QED
    BY <2>1, <2>2, SMTT(60)
<1>2. ASSUME fd' = [fd EXCEPT ![c] = NoFd], open' = open \ {fd[c]}, UNCHANGED streams
      PROVE  Owned'
  BY <1>2, SMTT(60)
<1>3. ASSUME UNCHANGED <<fd, open, streams>> PROVE Owned'
  BY <1>3, SMTT(60)
<1>4. CASE read_request(c) \/ api_open(c) \/ runNewline(c) \/ saveRename(c)
  BY <1>2, <1>4 DEF read_request, api_open, runNewline, saveRename, done, close, output
<1>5. CASE request(c) \/ runLock(c) \/ streamLock(c)
  BY <1>3, <1>5 DEF request, runLock, streamLock, descriptors, output
<1>6. CASE runCommand(c) \/ saveTemp(c) \/ saveWrite(c)
  BY <1>2, <1>3, <1>6
     DEF runCommand, saveTemp, saveWrite, done, close, descriptors, output
<1>7. CASE streamHead(c)
  BY <1>7, SMTT(60) DEF streamHead, descriptors, output
<1>8. CASE streamAdd(c)
  <2>1. fd' = [fd EXCEPT ![c] = NoFd]
    BY <1>8 DEF streamAdd
  <2>2. CASE FreeSlots # {}
    <3>1. PICK s : s = FirstFree
      OBVIOUS
    <3>2. streams' = [streams EXCEPT ![s] = fd[c]] /\ UNCHANGED open
      BY <1>8, <2>2, <3>1 DEF streamAdd, descriptors
    <3> QED
      BY <2>1, <3>2, SMTT(60)
  <2>3. CASE FreeSlots = {}
    BY <1>2, <1>8, <2>1, <2>3, SMTT(60) DEF streamAdd, close
  <2> QED
    BY <2>2, <2>3
<1> QED
  BY <1>1, <1>4, <1>5, <1>6, <1>7, <1>8 DEF clientStep

LEMMA ReaderOwners == ASSUME TypeOK, Owned, pty_reader PROVE Owned'
<1> USE DEF Owned, TypeOK
<1>1. CASE readerRead \/ readerLock \/ readerKeep
  <2>1. UNCHANGED <<fd, open, streams>>
    BY <1>1, SMTT(60) DEF readerRead, readerLock, readerKeep, threads, descriptors
  <2> QED
    BY <2>1, SMTT(60)
<1>2. CASE readerSend
  <2>1. PICK bad \in Failing :
          /\ streams' = [s \in Slot |-> IF streams[s] \in bad THEN NoFd ELSE streams[s]]
          /\ open' = open \ bad
    BY <1>2 DEF readerSend, close
  <2>2. bad \subseteq Streaming /\ UNCHANGED fd
    BY <1>2, <2>1 DEF Failing, readerSend, threads
  <2>3. \A f \in bad : \E s \in Slot : streams[s] = f /\ f # NoFd
    BY <2>2 DEF Streaming
  <2> QED
    BY <2>1, <2>2, <2>3, SMTT(60)
<1>3. CASE readerClose
  <2>1. streams' = [s \in Slot |-> NoFd] /\ open' = open \ Streaming /\ UNCHANGED fd
    BY <1>3 DEF readerClose, close, NoStreams, threads
  <2>2. \A c \in Clients : fd[c] # NoFd => fd[c] \notin Streaming
    BY DEF Streaming
  <2> QED
    BY <2>1, <2>2, SMTT(60)
<1> QED
  BY <1>1, <1>2, <1>3 DEF pty_reader

\* No thread and no stream ever holds a descriptor of another, however
\* numbers are reused.
THEOREM DescriptorsOwned == Spec => []OneOwner
<1>1. Init => Owned
  BY SMTT(60) DEF Init, Owned, NoFds, NoStreams
<1>2. TypeOK /\ Owned /\ [Next]_vars => Owned'
  <2> SUFFICES ASSUME TypeOK, Owned, [Next]_vars PROVE Owned'
    OBVIOUS
  <2>1. ASSUME NEW c \in Clients, accept(c) \/ clientStep(c) PROVE Owned'
    BY <2>1, ClientOwners
  <2>2. CASE acceptFails \/ shutdown_handler
    BY <2>2, SMTT(60)
       DEF acceptFails, shutdown_handler, exit, Owned, NoFds, NoStreams
  <2>3. CASE pty_reader
    BY <2>3, ReaderOwners
  <2>4. CASE UNCHANGED <<fd, open, streams>>
    BY <2>4, SMTT(60) DEF Owned
  <2>5. ASSUME NEW f \in Fds, leave(f) PROVE Owned'
    BY <2>4, <2>5 DEF leave, threads, output
  <2>6. CASE shellEnds \/ UNCHANGED vars
    BY <2>4, <2>6 DEF shellEnds, vars, threads, descriptors, output
  <2> QED
    BY <2>1, <2>2, <2>3, <2>5, <2>6 DEF Next
<1>3. Owned => OneOwner
  BY ZenonT(60) DEF Owned, OneOwner, Serving, Streaming
<1> QED
  BY <1>1, <1>2, <1>3, TypeCorrect, PTL DEF Spec

(***************************************************************************)
(* Streams.  SeenInOrder says nothing of the moments between the read of a *)
(* chunk and the end of its broadcast, so it is not inductive.  Kept is    *)
(* the newest chunk the history must hold and Sent the newest one every    *)
(* stream must have received; a stream is added only while the two agree,  *)
(* because adding and broadcasting hold the same lock.                     *)
(***************************************************************************)
Kept == IF reader \in {"lock", "keep"} THEN produced - 1 ELSE produced
Sent == IF reader \in {"lock", "keep", "send"} THEN produced - 1 ELSE produced

\* The sequence is consecutive and n, unless n is zero, is its last element.
UpTo(s, n) ==
  /\ \A i \in 1 .. Len(s) - 1 : s[i + 1] = s[i] + 1
  /\ n > 0 => s # <<>>
  /\ s # <<>> => s[Len(s)] = n

LockInv ==
  /\ \A c \in Clients : pc[c] = "add" => stream_lock = c
  /\ reader \in {"keep", "send", "close"} => stream_lock = Reader

SeenInv ==
  /\ seen \in [Fds -> Seq(Nat)]
  /\ reader \in {"lock", "keep", "send"} => produced > 0
  /\ UpTo(history, Kept)
  /\ \A s \in Slot : streams[s] # NoFd => UpTo(seen[streams[s]], Sent)

LEMMA UpToAppend ==
  ASSUME NEW s \in Seq(Nat), NEW n \in Nat, UpTo(s, n)
  PROVE  Append(s, n + 1) \in Seq(Nat) /\ UpTo(Append(s, n + 1), n + 1)
<1> DEFINE t == Append(s, n + 1)
<1>1. t \in Seq(Nat) /\ Len(t) = Len(s) + 1 /\ Len(s) \in Nat
  BY SMTT(60)
<1>2. t[Len(t)] = n + 1 /\ \A i \in 1 .. Len(s) : t[i] = s[i]
  BY SMTT(60)
<1>0. Len(<<>>) = 0
  OBVIOUS
<1> HIDE DEF t
<1>3. t # <<>>
  BY <1>0, <1>1, SMTT(60)
<1>4. ASSUME NEW i \in 1 .. Len(t) - 1 PROVE t[i + 1] = t[i] + 1
  <2>1. CASE i = Len(s)
    <3>1. s # <<>>
      BY <2>1, SMTT(60)
    <3> QED
      BY <1>1, <1>2, <2>1, <3>1, SMTT(60) DEF UpTo
  <2>2. CASE i < Len(s)
    <3>1. i \in 1 .. Len(s) - 1 /\ i \in 1 .. Len(s) /\ i + 1 \in 1 .. Len(s)
      BY <1>1, <2>2, SMTT(60)
    <3>2. s[i + 1] = s[i] + 1
      BY <3>1, ZenonT(60) DEF UpTo
    <3> QED
      BY <1>2, <3>1, <3>2, ZenonT(60)
  <2> QED
    BY <1>1, <2>1, <2>2, SMTT(60)
<1>5. t \in Seq(Nat) /\ UpTo(t, n + 1)
  BY <1>1, <1>2, <1>3, <1>4 DEF UpTo
<1> QED
  BY <1>5 DEF t

LEMMA UpToTail ==
  ASSUME NEW s \in Seq(Nat), NEW n \in Nat, UpTo(s, n), Len(s) > 1
  PROVE  UpTo(Tail(s), n)
<1> DEFINE t == Tail(s)
<1>0. Len(<<>>) = 0
  OBVIOUS
<1>1. t \in Seq(Nat) /\ Len(t) = Len(s) - 1 /\ \A i \in 1 .. Len(t) : t[i] = s[i + 1]
  BY SMTT(60)
<1> HIDE DEF t
<1>2. s # <<>> /\ t # <<>>
  BY <1>0, <1>1, SMTT(60)
<1>3. Len(s) \in Nat /\ t[Len(t)] = s[Len(s)]
  BY <1>1, SMTT(60)
<1>4. ASSUME NEW i \in 1 .. Len(t) - 1 PROVE t[i + 1] = t[i] + 1
  <2>1. i \in 1 .. Len(t) /\ i + 1 \in 1 .. Len(t) /\ i + 1 \in 1 .. Len(s) - 1
    BY <1>1, <1>3, <1>4, SMTT(60)
  <2>2. t[i] = s[i + 1] /\ t[i + 1] = s[i + 1 + 1]
    BY <1>1, <2>1, ZenonT(60)
  <2> QED
    BY <2>1, <2>2, ZenonT(60) DEF UpTo
<1>5. UpTo(t, n)
  BY <1>2, <1>3, <1>4, ZenonT(60) DEF UpTo
<1> QED
  BY <1>5 DEF t

\* The lock: who adds a stream, and who broadcasts, holds it.
LEMMA ClientLocks ==
  ASSUME TypeOK, LockInv, NEW c \in Clients, accept(c) \/ clientStep(c)
  PROVE  LockInv'
<1> USE DEF At, Goto, LockInv, TypeOK
<1>1. ASSUME pc[c] # "add", NEW l \in Labels \ {"add"}, pc' = [pc EXCEPT ![c] = l],
             UNCHANGED output
      PROVE  LockInv'
  BY <1>1, SMTT(60) DEF output
<1>2. CASE accept(c) \/ read_request(c) \/ api_open(c)
  BY <1>1, <1>2, SMTT(60) DEF accept, read_request, api_open, done, Labels
<1>3. CASE request(c) \/ runLock(c) \/ runCommand(c) \/ runNewline(c)
  BY <1>1, <1>3, SMTT(60) DEF request, runLock, runCommand, runNewline, done, Labels
<1>4. CASE saveTemp(c) \/ saveWrite(c) \/ saveRename(c) \/ streamHead(c)
  BY <1>1, <1>4, SMTT(60) DEF saveTemp, saveWrite, saveRename, streamHead, done, Labels
<1>5. CASE streamLock(c)
  <2>1. \A d \in Clients : pc[d] # "add"
    BY <1>5, ClientAssumption, SMTT(60) DEF streamLock
  <2>2. /\ pc' = [pc EXCEPT ![c] = "add"] /\ stream_lock' = c
        /\ reader \notin {"keep", "send", "close"} /\ UNCHANGED reader
    BY <1>5, SMTT(60) DEF streamLock, None, Reader
  <2> QED
    BY <2>1, <2>2, SMTT(60)
<1>6. CASE streamAdd(c)
  BY <1>6, ClientAssumption, SMTT(60) DEF streamAdd
<1> QED
  BY <1>2, <1>3, <1>4, <1>5, <1>6 DEF clientStep

LEMMA ReaderLocks == ASSUME TypeOK, LockInv, pty_reader PROVE LockInv'
<1> USE ClientAssumption DEF LockInv, TypeOK, threads
<1>1. CASE readerRead
  BY <1>1, SMTT(60) DEF readerRead
<1>2. CASE readerLock
  BY <1>2, SMTT(60) DEF readerLock
<1>3. CASE readerKeep
  BY <1>3, SMTT(60) DEF readerKeep
<1>4. CASE readerSend \/ readerClose
  <2>1. stream_lock = Reader /\ UNCHANGED pc /\ reader' \in {"read", "gone"}
    BY <1>4, SMTT(60) DEF readerSend, readerClose
  <2> QED
    BY <2>1, SMTT(60)
<1> QED
  BY <1>1, <1>2, <1>3, <1>4 DEF pty_reader

LEMMA ExceptType ==
  ASSUME NEW S, NEW T, NEW g \in [S -> T], NEW x, NEW v \in T
  PROVE  [g EXCEPT ![x] = v] \in [S -> T]
  BY ZenonT(60)

\* Steps that leave the reader, the history and the streams alone.
LEMMA SeenKept ==
  ASSUME SeenInv, UNCHANGED <<reader, produced, history, streams, seen>>
  PROVE  SeenInv'
  BY SMTT(60) DEF SeenInv, Kept, Sent, UpTo

LEMMA ClientSees ==
  ASSUME TypeOK, LockInv, SeenInv, NEW c \in Clients, accept(c) \/ clientStep(c)
  PROVE  SeenInv'
<1>1. CASE accept(c) \/ (clientStep(c) /\ ~streamAdd(c))
  <2>1. UNCHANGED <<reader, produced, history, streams, seen>>
    BY <1>1, ZenonT(60)
       DEF accept, clientStep, read_request, api_open, request, runLock, runCommand, runNewline,
           saveTemp, saveWrite, saveRename, streamHead, streamLock, output
  <2> QED
    BY <2>1, SeenKept
<1>2. CASE streamAdd(c) /\ FreeSlots = {}
  BY <1>2, SeenKept DEF streamAdd
<1>3. CASE streamAdd(c) /\ FreeSlots # {}
  <2>1. PICK s : s = FirstFree
    OBVIOUS
  <2>2. /\ streams' = [streams EXCEPT ![s] = fd[c]]
        /\ seen' = [seen EXCEPT ![fd[c]] = history]
        /\ UNCHANGED <<reader, produced, history>>
    BY <1>3, <2>1 DEF streamAdd
  <2>3. reader \notin {"keep", "send", "close"}
    BY <1>3, ClientAssumption, SMTT(60) DEF streamAdd, At, LockInv
  <2>4. Kept = Sent /\ Kept' = Kept /\ Sent' = Sent
    BY <2>2, <2>3 DEF Kept, Sent
  <2>5. seen' \in [Fds -> Seq(Nat)]
    <3>1. history \in Seq(Nat) /\ seen \in [Fds -> Seq(Nat)]
      BY DEF SeenInv, TypeOK
    <3> QED
      BY <2>2, <3>1, ExceptType
  <2>6. UpTo(history, Kept)' /\ UpTo(history, Sent')
    BY <2>2, <2>4, SMTT(60) DEF SeenInv, UpTo
  <2>7. ASSUME NEW t \in Slot, streams'[t] # NoFd PROVE UpTo(seen'[streams'[t]], Sent')
    <3>1. streams'[t] \in Fds /\ streams'[t] \in {streams[t], fd[c]}
      BY <2>2, <2>7, SMTT(60) DEF TypeOK
    <3>2. CASE streams'[t] = fd[c]
      <4>1. seen'[streams'[t]] = history
        BY <2>2, <3>1, <3>2, SMTT(60) DEF SeenInv
      <4> QED
        BY <2>6, <4>1
    <3>3. CASE streams'[t] # fd[c]
      <4>1. streams'[t] = streams[t] /\ seen'[streams'[t]] = seen[streams[t]]
        BY <2>2, <3>1, <3>3, SMTT(60) DEF SeenInv
      <4> QED
        BY <2>4, <2>7, <4>1, ZenonT(60) DEF SeenInv
    <3> QED
      BY <3>2, <3>3
  <2> QED
    BY <2>2, <2>5, <2>6, <2>7, ZenonT(60) DEF SeenInv
<1> QED
  BY <1>1, <1>2, <1>3

LEMMA ReaderSees ==
  ASSUME TypeOK, LockInv, SeenInv, pty_reader
  PROVE  SeenInv'
<1>0. produced \in Nat /\ history \in Seq(Nat) /\ seen \in [Fds -> Seq(Nat)]
  BY DEF TypeOK, SeenInv
<1>1. CASE readerRead \/ readerLock
  <2>1. UNCHANGED <<history, streams, seen>> /\ Kept' = Kept /\ Sent' = Sent
    BY <1>0, <1>1, SMTT(60) DEF readerRead, readerLock, Kept, Sent
  <2>2. (reader \in {"lock", "keep", "send"} => produced > 0)'
    BY <1>0, <1>1, SMTT(60) DEF readerRead, readerLock, SeenInv
  <2> QED
    BY <2>1, <2>2, ZenonT(60) DEF SeenInv, UpTo
<1>2. CASE readerKeep
  <2> DEFINE h == Append(history, produced)
  <2>1. produced > 0 /\ produced - 1 \in Nat /\ (produced - 1) + 1 = produced
    BY <1>0, <1>2, SMTT(60) DEF readerKeep, SeenInv
  <2>2. Kept = produced - 1 /\ UpTo(history, produced - 1)
    BY <1>2 DEF readerKeep, SeenInv, Kept
  <2>3. h \in Seq(Nat) /\ UpTo(h, produced)
    BY <1>0, <2>1, <2>2, UpToAppend
  <2>4. Len(h) > HISTORY_MAX => Len(h) > 1
    <3>1. Len(h) \in Nat
      BY <2>3
    <3> HIDE DEF h
    <3> QED
      BY <3>1, HistoryAssumption, SMTT(60)
  <2>5. history' = (IF Len(h) > HISTORY_MAX THEN Tail(h) ELSE h)
    BY <1>2 DEF readerKeep
  <2> HIDE DEF h
  <2>6. UpTo(history', produced)
    BY <1>0, <2>3, <2>4, <2>5, UpToTail
  <2>7. UNCHANGED <<produced, streams, seen>> /\ reader' = "send" /\ Sent' = Sent /\ Kept' = produced
    BY <1>2 DEF readerKeep, Sent, Kept
  <2> QED
    BY <2>1, <2>6, <2>7, ZenonT(60) DEF SeenInv, UpTo
<1>3. CASE readerSend
  <2>1. PICK bad \in Failing :
          /\ streams' = [s \in Slot |-> IF streams[s] \in bad THEN NoFd ELSE streams[s]]
          /\ seen' = [f \in Fds |-> IF f \in Streaming \ bad THEN Append(seen[f], produced) ELSE <<>>]
    BY <1>3 DEF readerSend
  <2>2. produced > 0 /\ produced - 1 \in Nat /\ (produced - 1) + 1 = produced
    BY <1>0, <1>3, SMTT(60) DEF readerSend, SeenInv
  <2>3. /\ UNCHANGED <<produced, history>> /\ reader' = "read"
        /\ Kept = produced /\ Kept' = produced /\ Sent = produced - 1 /\ Sent' = produced
    BY <1>3 DEF readerSend, Sent, Kept
  <2>4. seen' \in [Fds -> Seq(Nat)]
    <3>1. ASSUME NEW f \in Fds PROVE Append(seen[f], produced) \in Seq(Nat) /\ <<>> \in Seq(Nat)
      <4>1. seen[f] \in Seq(Nat)
        BY <1>0
      <4> QED
        BY <1>0, <4>1
    <3> QED
      BY <2>1, <3>1, SMTT(60)
  <2>5. ASSUME NEW s \in Slot, streams'[s] # NoFd PROVE UpTo(seen'[streams'[s]], produced)
    <3>1. streams[s] # NoFd /\ streams'[s] = streams[s] /\ streams[s] \notin bad
      BY <2>1, <2>5, SMTT(60)
    <3>2. streams[s] \in Fds /\ streams[s] \in Streaming
      BY <3>1 DEF TypeOK, Streaming
    <3>3. seen'[streams[s]] = Append(seen[streams[s]], produced)
      BY <2>1, <3>1, <3>2, ZenonT(60)
    <3>4. seen[streams[s]] \in Seq(Nat) /\ UpTo(seen[streams[s]], produced - 1)
      BY <1>0, <2>3, <3>1, <3>2, ZenonT(60) DEF SeenInv
    <3>5. UpTo(Append(seen[streams[s]], (produced - 1) + 1), (produced - 1) + 1)
      BY <2>2, <3>4, UpToAppend
    <3> QED
      BY <2>2, <3>1, <3>3, <3>5
  <2> QED
    BY <2>2, <2>3, <2>4, <2>5, ZenonT(60) DEF SeenInv, UpTo
<1>4. CASE readerClose
  <2>1. /\ streams' = [s \in Slot |-> NoFd] /\ seen' = [f \in Fds |-> <<>>]
        /\ UNCHANGED <<produced, history>> /\ Kept' = Kept /\ reader' = "gone"
    BY <1>4 DEF readerClose, NoStreams, NothingSeen, Kept
  <2>2. seen' \in [Fds -> Seq(Nat)]
    BY <2>1, SMTT(60)
  <2> QED
    BY <2>1, <2>2, ZenonT(60) DEF SeenInv, UpTo
<1> QED
  BY <1>1, <1>2, <1>3, <1>4 DEF pty_reader

\* Before the first chunk.
LEMMA NothingUpTo == UpTo(<<>>, 0) /\ NothingSeen \in [Fds -> Seq(Nat)]
<1>1. Len(<<>>) = 0 /\ <<>> \in Seq(Nat)
  OBVIOUS
<1>2. UpTo(<<>>, 0)
  BY <1>1, SMTT(60) DEF UpTo
<1>3. NothingSeen \in [Fds -> Seq(Nat)]
  BY <1>1, SMTT(60) DEF NothingSeen
<1> QED
  BY <1>2, <1>3

\* Whenever a browser connects, and however threads add streams while the
\* reader broadcasts, each stream gets every chunk from its replay on, once
\* and in order.
THEOREM StreamsInOrder == Spec => []SeenInOrder
<1>1. Init => LockInv /\ SeenInv
  <2> SUFFICES ASSUME Init PROVE LockInv /\ SeenInv
    OBVIOUS
  <2>1. LockInv
    BY SMTT(60) DEF Init, LockInv, NoThreads
  <2>2. Kept = 0 /\ reader \notin {"lock", "keep", "send"}
    BY DEF Init, Kept
  <2>3. \A s \in Slot : streams[s] = NoFd
    BY DEF Init, NoStreams
  <2>4. SeenInv
    BY <2>2, <2>3, NothingUpTo, ZenonT(60) DEF Init, SeenInv
  <2> QED
    BY <2>1, <2>4
<1>2. TypeOK /\ LockInv /\ SeenInv /\ [Next]_vars => LockInv' /\ SeenInv'
  <2> SUFFICES ASSUME TypeOK, LockInv, SeenInv, [Next]_vars PROVE LockInv' /\ SeenInv'
    OBVIOUS
  <2>1. ASSUME NEW c \in Clients, accept(c) \/ clientStep(c) PROVE LockInv' /\ SeenInv'
    BY <2>1, ClientLocks, ClientSees
  <2>2. CASE acceptFails \/ shutdown_handler
    <3>1. exit
      BY <2>2 DEF acceptFails, shutdown_handler
    <3>2. LockInv'
      BY <3>1, SMTT(60) DEF exit, LockInv, NoThreads
    <3>3. SeenInv'
      <4>1. /\ history' = <<>> /\ produced' = 0 /\ reader' = "gone"
            /\ seen' = NothingSeen /\ streams' = NoStreams
        BY <3>1 DEF exit
      <4>2. UpTo(<<>>, 0) /\ Kept' = 0
        BY <4>1, NothingUpTo DEF Kept
      <4>3. seen' \in [Fds -> Seq(Nat)]
        BY <4>1, NothingUpTo
      <4>4. \A s \in Slot : streams'[s] = NoFd
        BY <4>1 DEF NoStreams
      <4> QED
        BY <4>1, <4>2, <4>3, <4>4, ZenonT(60) DEF SeenInv, UpTo
    <3> QED
      BY <3>2, <3>3
  <2>3. CASE pty_reader
    BY <2>3, ReaderLocks, ReaderSees
  <2>4. CASE UNCHANGED <<pc, output>>
    BY <2>4, SeenKept, SMTT(60) DEF LockInv, output
  <2>5. ASSUME NEW f \in Fds, leave(f) PROVE LockInv' /\ SeenInv'
    BY <2>4, <2>5 DEF leave, threads
  <2>6. CASE shellEnds \/ UNCHANGED vars
    BY <2>4, <2>6 DEF shellEnds, vars, threads
  <2> QED
    BY <2>1, <2>2, <2>3, <2>5, <2>6 DEF Next
<1>3. SeenInv => SeenInOrder
  <2> SUFFICES ASSUME SeenInv, NEW f \in Streaming
               PROVE  /\ \A i \in 1 .. Len(seen[f]) - 1 : seen[f][i + 1] = seen[f][i] + 1
                      /\ reader = "read" /\ produced > 0
                           => seen[f] # <<>> /\ seen[f][Len(seen[f])] = produced
    BY DEF SeenInOrder
  <2>1. PICK s \in Slot : streams[s] = f /\ f # NoFd
    BY DEF Streaming
  <2>2. UpTo(seen[f], Sent)
    BY <2>1 DEF SeenInv
  <2>3. reader = "read" => Sent = produced
    BY DEF Sent
  <2> QED
    BY <2>2, <2>3, ZenonT(60) DEF UpTo
<1> QED
  BY <1>1, <1>2, <1>3, TypeCorrect, PTL DEF Spec
-----------------------------------------------------------------------------
(***************************************************************************)
(* A lock is held only by a thread whose next step gives it back, or comes *)
(* closer to that, and waits for no lock: no path of api_run, start_stream *)
(* or pty_reader returns with a lock, and no two threads wait for each     *)
(* other.                                                                  *)
(***************************************************************************)
LockHoldersRun ==
  /\ pty_lock # None => up /\ pc[pty_lock] \in {"command", "newline"}
  /\ stream_lock \in Clients => up /\ pc[stream_lock] = "add"
  /\ stream_lock = Reader => up /\ reader \in {"keep", "send", "close"}

\* A step of a thread outside the critical sections.
LEMMA HoldersUntouched ==
  ASSUME TypeOK, LockHoldersRun, NEW c \in Clients, NEW l \in Labels,
         pc[c] \notin {"command", "newline", "add"}, pc' = [pc EXCEPT ![c] = l],
         UNCHANGED <<up, pty_lock, stream_lock, reader>>
  PROVE  LockHoldersRun'
<1>1. ASSUME pty_lock' # None PROVE up' /\ pc'[pty_lock'] \in {"command", "newline"}
  BY <1>1, SMTT(60) DEF LockHoldersRun, TypeOK
<1>2. ASSUME stream_lock' \in Clients PROVE up' /\ pc'[stream_lock'] = "add"
  BY <1>2, SMTT(60) DEF LockHoldersRun, TypeOK
<1>3. ASSUME stream_lock' = Reader PROVE up' /\ reader' \in {"keep", "send", "close"}
  BY <1>3, ZenonT(60) DEF LockHoldersRun
<1> QED
  BY <1>1, <1>2, <1>3, ZenonT(60) DEF LockHoldersRun

LEMMA ClientHolders ==
  ASSUME TypeOK, LockHoldersRun, NEW c \in Clients, accept(c) \/ clientStep(c)
  PROVE  LockHoldersRun'
<1> DEFINE Elsewhere ==
      /\ \E l \in Labels : pc' = [pc EXCEPT ![c] = l]
      /\ pc[c] \notin {"command", "newline", "add"}
      /\ UNCHANGED <<up, pty_lock, stream_lock, reader>>
<1>1. CASE accept(c) \/ read_request(c) \/ api_open(c)
  <2>1. Elsewhere
    BY <1>1, SMTT(60) DEF accept, read_request, api_open, done, At, Goto, lines, output, Labels
  <2> QED
    BY <2>1, HoldersUntouched, ZenonT(60)
<1>2. CASE request(c)
  <2>1. PICK p \in {"events", "run", "save"} : pc' = [pc EXCEPT ![c] = p]
    BY <1>2, ZenonT(60) DEF request, Goto
  <2>2. p \in Labels
    BY SMTT(60) DEF Labels
  <2>3. pc[c] \notin {"command", "newline", "add"}
    BY <1>2, SMTT(60) DEF request, At
  <2>4. UNCHANGED <<up, pty_lock, stream_lock, reader>>
    BY <1>2, ZenonT(60) DEF request, lines, output
  <2> QED
    BY <2>1, <2>2, <2>3, <2>4, HoldersUntouched, ZenonT(60)
<1>3. CASE saveTemp(c) \/ saveWrite(c) \/ saveRename(c) \/ streamHead(c)
  <2>1. Elsewhere
    BY <1>3, SMTT(60) DEF saveTemp, saveWrite, saveRename, streamHead, done, At, Goto,
       lines, output, Labels
  <2> QED
    BY <2>1, HoldersUntouched, ZenonT(60)
<1>4. CASE runLock(c)
  <2>1. /\ pty_lock' = c /\ pc[c] = "run" /\ pc' = [pc EXCEPT ![c] = "command"]
        /\ up /\ UNCHANGED <<up, stream_lock, reader>>
    BY <1>4, ZenonT(60) DEF runLock, At, Goto, output
  <2>2. pc'[c] = "command"
    BY <2>1, SMTT(60) DEF TypeOK
  <2>3. stream_lock \in Clients => up' /\ pc'[stream_lock] = "add"
    BY <2>1, SMTT(60) DEF LockHoldersRun, TypeOK
  <2> QED
    BY <2>1, <2>2, <2>3, ZenonT(60) DEF LockHoldersRun
<1>5. CASE runCommand(c)
  <2>1. /\ pc[c] = "command" /\ up /\ UNCHANGED <<up, stream_lock, reader>>
        /\ \/ pc' = [pc EXCEPT ![c] = "newline"] /\ UNCHANGED pty_lock
           \/ pc' = [pc EXCEPT ![c] = "free"] /\ pty_lock' = None
    BY <1>5, ZenonT(60) DEF runCommand, done, At, Goto, output
  <2>2. pty_lock' # None => up' /\ pc'[pty_lock'] \in {"command", "newline"}
    BY <2>1, SMTT(60) DEF LockHoldersRun, TypeOK
  <2>3. stream_lock \in Clients => up' /\ pc'[stream_lock] = "add"
    BY <2>1, SMTT(60) DEF LockHoldersRun, TypeOK
  <2> QED
    BY <2>1, <2>2, <2>3, ZenonT(60) DEF LockHoldersRun
<1>6. CASE runNewline(c)
  <2>1. /\ pc[c] = "newline" /\ up /\ UNCHANGED <<up, stream_lock, reader>>
        /\ pc' = [pc EXCEPT ![c] = "free"] /\ pty_lock' = None
    BY <1>6, ZenonT(60) DEF runNewline, done, At, Goto, output
  <2>2. stream_lock \in Clients => up' /\ pc'[stream_lock] = "add"
    BY <2>1, SMTT(60) DEF LockHoldersRun, TypeOK
  <2> QED
    BY <2>1, <2>2, ZenonT(60) DEF LockHoldersRun
<1>7. CASE streamLock(c)
  <2>1. /\ pc[c] = "lock" /\ up /\ UNCHANGED <<up, pty_lock, reader>>
        /\ pc' = [pc EXCEPT ![c] = "add"] /\ stream_lock' = c
    BY <1>7, ZenonT(60) DEF streamLock, At, Goto, lines
  <2>2. pc'[c] = "add" /\ c # Reader
    BY <2>1, ClientAssumption, SMTT(60) DEF TypeOK
  <2>3. pty_lock # None => up' /\ pc'[pty_lock] \in {"command", "newline"}
    BY <2>1, SMTT(60) DEF LockHoldersRun, TypeOK
  <2> QED
    BY <2>1, <2>2, <2>3, ZenonT(60) DEF LockHoldersRun
<1>8. CASE streamAdd(c)
  <2>1. /\ pc[c] = "add" /\ up /\ UNCHANGED <<up, pty_lock, reader>>
        /\ pc' = [pc EXCEPT ![c] = "free"] /\ stream_lock' = None
    BY <1>8, ZenonT(60) DEF streamAdd, At, Goto, lines
  <2>2. None \notin Clients /\ None # Reader
    BY ClientAssumption DEF None, Reader
  <2>3. pty_lock # None => up' /\ pc'[pty_lock] \in {"command", "newline"}
    BY <2>1, SMTT(60) DEF LockHoldersRun, TypeOK
  <2> QED
    BY <2>1, <2>2, <2>3, ZenonT(60) DEF LockHoldersRun
<1> QED
  BY <1>1, <1>2, <1>3, <1>4, <1>5, <1>6, <1>7, <1>8, ZenonT(60) DEF clientStep

LEMMA ReaderHolders == ASSUME TypeOK, LockHoldersRun, pty_reader PROVE LockHoldersRun'
<1> USE DEF threads, lines
<1>1. None \notin Clients /\ None # Reader /\ Reader \notin Clients
  BY ClientAssumption DEF None, Reader
<1>2. CASE readerRead
  <2>1. reader = "read" /\ UNCHANGED <<up, pc, pty_lock, stream_lock>>
    BY <1>2, ZenonT(60) DEF readerRead
  <2>2. stream_lock # Reader
    BY <2>1, SMTT(60) DEF LockHoldersRun
  <2> QED
    BY <2>1, <2>2, ZenonT(60) DEF LockHoldersRun
<1>3. CASE readerLock
  <2>1. up /\ stream_lock' = Reader /\ UNCHANGED <<up, pc, pty_lock>>
        /\ reader' \in {"keep", "close"}
    BY <1>3, ZenonT(60) DEF readerLock
  <2> QED
    BY <1>1, <2>1, ZenonT(60) DEF LockHoldersRun
<1>4. CASE readerKeep
  <2>1. up /\ reader' = "send" /\ UNCHANGED <<up, pc, pty_lock, stream_lock>>
    BY <1>4, ZenonT(60) DEF readerKeep
  <2> QED
    BY <2>1, ZenonT(60) DEF LockHoldersRun
<1>5. CASE readerSend \/ readerClose
  <2>1. stream_lock' = None /\ UNCHANGED <<up, pc, pty_lock>>
    BY <1>5, ZenonT(60) DEF readerSend, readerClose
  <2> QED
    BY <1>1, <2>1, ZenonT(60) DEF LockHoldersRun
<1> QED
  BY <1>2, <1>3, <1>4, <1>5 DEF pty_reader

\* Every path through the critical sections of pty_lock and stream_lock, the
\* failing ones included, unlocks what it locked.
THEOREM NoLockIsLeftBehind == Spec => []LockHoldersRun
<1>1. None \notin Clients /\ None # Reader
  BY ClientAssumption DEF None, Reader
<1>2. Init => LockHoldersRun
  BY <1>1, ZenonT(60) DEF Init, LockHoldersRun
<1>3. TypeOK /\ LockHoldersRun /\ [Next]_vars => LockHoldersRun'
  <2> SUFFICES ASSUME TypeOK, LockHoldersRun, [Next]_vars PROVE LockHoldersRun'
    OBVIOUS
  <2>1. ASSUME NEW c \in Clients, accept(c) \/ clientStep(c) PROVE LockHoldersRun'
    BY <2>1, ClientHolders
  <2>2. CASE acceptFails \/ shutdown_handler
    BY <1>1, <2>2, ZenonT(60) DEF acceptFails, shutdown_handler, exit, LockHoldersRun
  <2>3. CASE pty_reader
    BY <2>3, ReaderHolders
  <2>4. CASE shellEnds \/ (\E f \in Fds : leave(f)) \/ UNCHANGED vars
    <3>1. UNCHANGED <<up, pc, pty_lock, stream_lock, reader>>
      BY <2>4, ZenonT(60) DEF shellEnds, leave, vars, threads, lines, output
    <3> QED
      BY <3>1, ZenonT(60) DEF LockHoldersRun
  <2> QED
    BY <2>1, <2>2, <2>3, <2>4, ZenonT(60) DEF Next
<1> QED
  BY <1>2, <1>3, TypeCorrect, PTL DEF Spec

\* The steps a thread at label l still has to take.
Rest(l) ==
  IF l = "free" THEN 0
  ELSE IF l \in {"newline", "rename", "add"} THEN 1
  ELSE IF l \in {"command", "write", "lock"} THEN 2
  ELSE IF l \in {"run", "save", "events"} THEN 3 ELSE 4

(***************************************************************************)
(* A thread returns after at most four of its own steps, whichever request *)
(* it serves and whatever fails: no step of another thread, of the reader  *)
(* or of a browser sends it back.                                          *)
(***************************************************************************)
ClientsWorkDown ==
  [][\A c \in Clients :
       /\ clientStep(c) => Rest(pc'[c]) < Rest(pc[c])
       /\ pc[c] # "free" => Rest(pc'[c]) <= Rest(pc[c])]_vars

\* The flow of a thread.
Follows(l, m) ==
  \/ l \in Labels \ {"free"} /\ m = "free"
  \/ l = "request" /\ m \in {"events", "run", "save"}
  \/ l = "run" /\ m = "command"
  \/ l = "command" /\ m = "newline"
  \/ l = "save" /\ m = "write"
  \/ l = "write" /\ m = "rename"
  \/ l = "events" /\ m = "lock"
  \/ l = "lock" /\ m = "add"

LEMMA ClientFollows ==
  ASSUME TypeOK, NEW c \in Clients, clientStep(c)
  PROVE  Follows(pc[c], pc'[c]) /\ \A d \in Clients \ {c} : pc'[d] = pc[d]
<1>1. ASSUME NEW l, Goto(c, l), Follows(pc[c], l)
      PROVE  Follows(pc[c], pc'[c]) /\ \A d \in Clients \ {c} : pc'[d] = pc[d]
  <2>1. pc'[c] = l /\ \A d \in Clients \ {c} : pc'[d] = pc[d]
    BY <1>1, SMTT(60) DEF Goto, TypeOK
  <2> QED
    BY <1>1, <2>1
<1>2. \E l : Goto(c, l) /\ Follows(pc[c], l)
  <2>1. CASE read_request(c) \/ api_open(c) \/ request(c)
    BY <2>1, ZenonT(60) DEF read_request, api_open, request, done, At, Follows, Labels
  <2>2. CASE runLock(c) \/ runCommand(c) \/ runNewline(c)
    BY <2>2, ZenonT(60) DEF runLock, runCommand, runNewline, done, At, Follows, Labels
  <2>3. CASE saveTemp(c) \/ saveWrite(c) \/ saveRename(c)
    BY <2>3, ZenonT(60) DEF saveTemp, saveWrite, saveRename, done, At, Follows, Labels
  <2>4. CASE streamHead(c) \/ streamLock(c) \/ streamAdd(c)
    BY <2>4, ZenonT(60) DEF streamHead, streamLock, streamAdd, done, At, Follows, Labels
  <2> QED
    BY <2>1, <2>2, <2>3, <2>4 DEF clientStep
<1> QED
  BY <1>1, <1>2

\* No path through client_thread returns to an earlier point of it.
THEOREM RequestsAreShort == Spec => ClientsWorkDown
<1>1. ASSUME NEW l, NEW m, Follows(l, m) PROVE Rest(m) < Rest(l)
  BY <1>1, SMTT(60) DEF Follows, Rest, Labels
<1>2. \A l : Rest(l) \in 0 .. 4
  BY DEF Rest
<1>3. ASSUME TypeOK, [Next]_vars, NEW c \in Clients
      PROVE  /\ clientStep(c) => Rest(pc'[c]) < Rest(pc[c])
             /\ pc[c] # "free" => Rest(pc'[c]) <= Rest(pc[c])
  <2>1. ASSUME clientStep(c) PROVE Rest(pc'[c]) < Rest(pc[c])
    BY <1>1, <1>3, <2>1, ClientFollows
  <2>2. ASSUME pc[c] # "free", ~clientStep(c) PROVE Rest(pc'[c]) <= Rest(pc[c])
    <3>1. ASSUME NEW d \in Clients, clientStep(d) PROVE pc'[c] = pc[c]
      BY <1>3, <2>2, <3>1, ClientFollows, ZenonT(60)
    <3>2. ASSUME NEW d \in Clients, accept(d) PROVE pc'[c] = pc[c]
      BY <1>3, <2>2, <3>2, SMTT(60) DEF accept, At, Goto, TypeOK
    <3>3. pc'[c] = pc[c] \/ pc'[c] = "free"
      <4>1. CASE UNCHANGED vars
        BY <4>1, ZenonT(60) DEF vars, threads
      <4>2. CASE acceptFails \/ shutdown_handler
        BY <4>2, ZenonT(60) DEF acceptFails, shutdown_handler, exit, NoThreads
      <4>3. CASE pty_reader \/ shellEnds \/ (\E f \in Fds : leave(f))
        BY <4>3, ZenonT(60) DEF pty_reader, readerRead, readerLock, readerKeep, readerSend,
           readerClose, shellEnds, leave, threads
      <4> QED
        BY <1>3, <3>1, <3>2, <4>1, <4>2, <4>3, ZenonT(60) DEF Next
    <3>4. Rest("free") = 0
      BY DEF Rest
    <3> QED
      BY <1>2, <3>3, <3>4
  <2> QED
    BY <1>2, <2>1, <2>2
<1>4. TypeOK /\ [Next]_vars =>
        [\A c \in Clients :
           /\ clientStep(c) => Rest(pc'[c]) < Rest(pc[c])
           /\ pc[c] # "free" => Rest(pc'[c]) <= Rest(pc[c])]_vars
  BY <1>3
<1> QED
  BY <1>4, TypeCorrect, PTL DEF Spec, ClientsWorkDown
=============================================================================
