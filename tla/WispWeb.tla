------------------------------- MODULE WispWeb -------------------------------
(***************************************************************************)
(* The web console of Wisp (wisp/server.c): one shell behind a pseudo-     *)
(* terminal, a thread that reads it, and a detached thread per connection. *)
(* A connection reads one request, or becomes one of SSE_MAX streams that  *)
(* belong to the reader from then on.  Descriptor numbers are reused.      *)
(* Output is counted in chunks, the k-th chunk being the number k.         *)
(***************************************************************************)
EXTENDS Integers, Sequences, FiniteSets

CONSTANTS
  Clients,      \* threads that may serve at the same time
  Fds,          \* descriptors left for connections
  Slot,         \* 1 .. SSE_MAX
  HISTORY_MAX,  \* chunks kept for replay
  MaxOutput     \* bound: chunks the shell writes

ASSUME HistoryAssumption == HISTORY_MAX \in Nat \ {0} /\ MaxOutput \in Nat

NoFd == 0
ASSUME FdAssumption == NoFd \notin Fds
None == "none"
Reader == "reader"
Partial == "partial"
Whole == "whole"
ASSUME ClientAssumption == Clients \cap {None, Reader} = {}

VARIABLES
  up,           \* the process runs
  pc, fd,       \* of each client thread
  alive,        \* descriptors whose other end is still there
  open,         \* descriptors in use
  shell,        \* the shell runs
  typing,       \* history: who has written a command without its newline yet
  mixed,        \* history: a command was written into another one's line
  pty_lock, stream_lock,
  streams,      \* by slot: a descriptor, or NoFd
  history,
  produced,     \* chunks read from the terminal
  reader,       \* pc of the reader
  seen,         \* history: what the other end of a stream has received
  file, temp,   \* the edited file and each thread's temporary: a Whole content or a Partial one
  shown         \* history: what a browser was last shown of the file

threads == <<pc, fd>>
descriptors == <<open, alive>>
lines == <<typing, mixed, pty_lock>>
output == <<stream_lock, streams, history, produced, reader, seen>>
editor == <<file, temp, shown>>
vars == <<up, threads, descriptors, shell, lines, output, editor>>

Labels == {"free", "request", "run", "command", "newline", "save", "write", "rename",
           "events", "lock", "add"}
NoThreads == [c \in Clients |-> "free"]
NoFds == [c \in Clients |-> NoFd]
NoStreams == [s \in Slot |-> NoFd]
NothingSeen == [f \in Fds |-> <<>>]

Init ==
  /\ up = TRUE /\ shell = TRUE
  /\ pc = NoThreads /\ fd = NoFds /\ open = {} /\ alive = {}
  /\ typing = None /\ mixed = FALSE /\ pty_lock = None
  /\ stream_lock = None /\ streams = NoStreams /\ history = <<>>
  /\ produced = 0 /\ reader = "read" /\ seen = NothingSeen
  /\ file = Whole /\ shown = Whole /\ temp = [c \in Clients |-> None]

\* The process ends wherever its threads are; only files survive.
exit ==
  /\ up' = FALSE /\ shell' = FALSE
  /\ pc' = NoThreads /\ fd' = NoFds /\ open' = {} /\ alive' = {}
  /\ typing' = None /\ mixed' = FALSE /\ pty_lock' = None
  /\ stream_lock' = None /\ streams' = NoStreams /\ history' = <<>>
  /\ produced' = 0 /\ reader' = "gone" /\ seen' = NothingSeen
  /\ UNCHANGED editor

Streaming == {streams[s] : s \in Slot} \ {NoFd}
Serving == {fd[c] : c \in Clients} \ {NoFd}

At(c, p) == up /\ pc[c] = p
Goto(c, p) == pc' = [pc EXCEPT ![c] = p]

close(fds) == open' = open \ fds /\ alive' = alive \ fds

\* done: close(fd) and the end of the thread
done(c) ==
  /\ Goto(c, "free") /\ fd' = [fd EXCEPT ![c] = NoFd]
  /\ close({fd[c]})

-----------------------------------------------------------------------------
(* main and client_thread *)

\* accept4 with a descriptor to spare: the lowest number is taken
accept(c) ==
  /\ At(c, "free")
  /\ \E f \in Fds \ open :
       /\ \A g \in Fds \ open : f <= g
       /\ fd' = [fd EXCEPT ![c] = f] /\ open' = open \cup {f} /\ alive' = alive \cup {f}
  /\ Goto(c, "request")
  /\ UNCHANGED <<up, shell, lines, output, editor>>

\* accept4 without one: main leaves its loop and the process ends.
acceptFails ==
  /\ up /\ open = Fds
  /\ exit

\* No request in time, or one that is too large
read_request(c) ==
  /\ At(c, "request") /\ done(c)
  /\ UNCHANGED <<up, shell, lines, output, editor>>

\* GET /api/file: the file is opened once and read under that descriptor.
api_open(c) ==
  /\ At(c, "request") /\ shown' = file /\ done(c)
  /\ UNCHANGED <<up, shell, lines, output, file, temp>>

\* Requests that change something.  The page, the login and the directory
\* only read, and answer like read_request.
request(c) ==
  /\ At(c, "request")
  /\ \E p \in {"events", "run", "save"} : Goto(c, p)
  /\ UNCHANGED <<up, fd, descriptors, shell, lines, output, editor>>

\* POST /api/run: the command and its newline are two writes under pty_lock.
runLock(c) ==
  /\ At(c, "run") /\ pty_lock = None
  /\ pty_lock' = c
  /\ Goto(c, "command")
  /\ UNCHANGED <<up, fd, descriptors, shell, typing, mixed, output, editor>>

runCommand(c) ==
  /\ At(c, "command")
  /\ IF shell
       THEN typing' = c /\ mixed' = (mixed \/ typing # None) /\ Goto(c, "newline") /\ UNCHANGED <<fd, descriptors, pty_lock>>
       ELSE done(c) /\ pty_lock' = None /\ UNCHANGED <<typing, mixed>>
  /\ UNCHANGED <<up, shell, output, editor>>

runNewline(c) ==
  /\ At(c, "newline")
  /\ IF shell THEN typing' = None ELSE UNCHANGED typing
  /\ pty_lock' = None
  /\ done(c)
  /\ UNCHANGED <<up, shell, mixed, output, editor>>

-----------------------------------------------------------------------------
(* api_save *)

saveTemp(c) ==
  /\ At(c, "save")
  /\ \/ temp' = [temp EXCEPT ![c] = Partial] /\ Goto(c, "write") /\ UNCHANGED <<fd, descriptors>>
     \/ done(c) /\ UNCHANGED temp
  /\ UNCHANGED <<up, shell, lines, output, file, shown>>

\* Faulty variant of saveWrite: a failed write is renamed all the same.
saveWriteUnchecked(c) ==
  /\ At(c, "write")
  /\ \E part \in {Partial, Whole} : temp' = [temp EXCEPT ![c] = part]
  /\ Goto(c, "rename")
  /\ UNCHANGED <<up, fd, descriptors, shell, lines, output, file, shown>>

\* write_all and fsync; the temporary of a failed save is removed.
saveWrite(c) ==
  /\ At(c, "write")
  /\ \/ temp' = [temp EXCEPT ![c] = Whole] /\ Goto(c, "rename") /\ UNCHANGED <<fd, descriptors>>
     \/ temp' = [temp EXCEPT ![c] = None] /\ done(c)
  /\ UNCHANGED <<up, shell, lines, output, file, shown>>

saveRename(c) ==
  /\ At(c, "rename")
  /\ file' = temp[c] \/ UNCHANGED file
  /\ temp' = [temp EXCEPT ![c] = None]
  /\ done(c)
  /\ UNCHANGED <<up, shell, lines, output, shown>>

-----------------------------------------------------------------------------
(* start_stream and pty_reader *)

\* The header is written first; when that fails nobody closes the descriptor.
streamHead(c) ==
  /\ At(c, "events")
  /\ \/ Goto(c, "lock") /\ UNCHANGED fd
     \/ /\ fd[c] \notin alive
        /\ Goto(c, "free") /\ fd' = [fd EXCEPT ![c] = NoFd]
  /\ UNCHANGED <<up, descriptors, shell, lines, output, editor>>

\* Faulty variant of streamLock: the slots are changed without the lock.
streamLockNever(c) ==
  /\ At(c, "lock") /\ UNCHANGED stream_lock
  /\ Goto(c, "add")
  /\ UNCHANGED <<up, fd, descriptors, shell, lines, streams, history, produced, reader, seen, editor>>

streamLock(c) ==
  /\ At(c, "lock") /\ stream_lock = None
  /\ stream_lock' = c
  /\ Goto(c, "add")
  /\ UNCHANGED <<up, fd, descriptors, shell, lines, streams, history, produced, reader, seen, editor>>

FreeSlots == {s \in Slot : streams[s] = NoFd}
FirstFree == CHOOSE s \in FreeSlots : \A t \in FreeSlots : s <= t

\* Faulty variant of streamAdd: a full table returns with the lock held.
streamAddLocked(c) ==
  /\ At(c, "add")
  /\ IF FreeSlots # {}
       THEN /\ streams' = [streams EXCEPT ![FirstFree] = fd[c]]
            /\ seen' = [seen EXCEPT ![fd[c]] = history]
            /\ stream_lock' = None /\ UNCHANGED descriptors
       ELSE close({fd[c]}) /\ UNCHANGED <<streams, seen, stream_lock>>
  /\ Goto(c, "free") /\ fd' = [fd EXCEPT ![c] = NoFd]
  /\ UNCHANGED <<up, shell, lines, history, produced, reader, editor>>

\* Faulty variant of streamAdd: a stream still belongs to its thread.
streamAddHeld(c) ==
  /\ At(c, "add")
  /\ streams' = IF FreeSlots # {} THEN [streams EXCEPT ![FirstFree] = fd[c]] ELSE streams
  /\ seen' = [seen EXCEPT ![fd[c]] = history]
  /\ stream_lock' = None
  /\ done(c)
  /\ UNCHANGED <<up, shell, lines, history, produced, reader, editor>>

\* The slot and the replay, whose result is ignored; closed when all are taken.
streamAdd(c) ==
  /\ At(c, "add")
  /\ IF FreeSlots # {}
       THEN /\ streams' = [streams EXCEPT ![FirstFree] = fd[c]]
            /\ seen' = [seen EXCEPT ![fd[c]] = history]
            /\ UNCHANGED descriptors
       ELSE close({fd[c]}) /\ UNCHANGED <<streams, seen>>
  /\ stream_lock' = None
  /\ Goto(c, "free") /\ fd' = [fd EXCEPT ![c] = NoFd]
  /\ UNCHANGED <<up, shell, lines, history, produced, reader, editor>>

\* read(pty_fd): a chunk, or the end once the shell is gone
readerRead ==
  /\ up /\ reader = "read"
  /\ \/ shell /\ produced < MaxOutput /\ produced' = produced + 1 /\ reader' = "lock"
     \/ ~shell /\ reader' = "closing" /\ UNCHANGED produced
  /\ UNCHANGED <<up, threads, descriptors, shell, lines, stream_lock, streams, history, seen, editor>>

readerLock ==
  /\ up /\ reader \in {"lock", "closing"} /\ stream_lock = None
  /\ stream_lock' = Reader
  /\ reader' = IF reader = "lock" THEN "keep" ELSE "close"
  /\ UNCHANGED <<up, threads, descriptors, shell, lines, streams, history, produced, seen, editor>>

\* The chunk enters the history, whose oldest part makes room.
readerKeep ==
  /\ up /\ reader = "keep"
  /\ history' = LET h == Append(history, produced)
                IN  IF Len(h) > HISTORY_MAX THEN Tail(h) ELSE h
  /\ reader' = "send"
  /\ UNCHANGED <<up, threads, descriptors, shell, lines, stream_lock, streams, produced, seen, editor>>

\* Sends fail only when the other end is gone, but then not always.
Failing == SUBSET (Streaming \ alive)

\* The chunk goes to every stream; a slot whose send fails is given up.
readerSend ==
  /\ up /\ reader = "send"
  /\ \E bad \in Failing :
       /\ streams' = [s \in Slot |-> IF streams[s] \in bad THEN NoFd ELSE streams[s]]
       /\ close(bad)
       /\ seen' = [f \in Fds |-> IF f \in Streaming \ bad THEN Append(seen[f], produced) ELSE <<>>]
  /\ stream_lock' = None /\ reader' = "read"
  /\ UNCHANGED <<up, threads, shell, lines, history, produced, editor>>

\* After the end of the shell every stream is closed and the thread returns.
readerClose ==
  /\ up /\ reader = "close"
  /\ close(Streaming)
  /\ streams' = NoStreams /\ seen' = NothingSeen
  /\ stream_lock' = None /\ reader' = "gone"
  /\ UNCHANGED <<up, threads, shell, lines, history, produced, editor>>

-----------------------------------------------------------------------------
(* The environment *)

\* A browser goes away; only a stream tells the difference.
leave(f) ==
  /\ f \in alive /\ alive' = alive \ {f}
  /\ f \in Streaming \/ \E c \in Clients : fd[c] = f /\ pc[c] \in {"events", "lock", "add"}
  /\ UNCHANGED <<up, threads, open, shell, lines, output, editor>>

\* The shell ends, by itself or by POST /api/signal.
shellEnds ==
  /\ up /\ shell /\ shell' = FALSE
  /\ UNCHANGED <<up, threads, descriptors, lines, output, editor>>

shutdown_handler == up /\ exit

clientStep(c) ==
  \/ read_request(c) \/ api_open(c) \/ request(c)
  \/ runLock(c) \/ runCommand(c) \/ runNewline(c)
  \/ saveTemp(c) \/ saveWrite(c) \/ saveRename(c)
  \/ streamHead(c) \/ streamLock(c) \/ streamAdd(c)

pty_reader == readerRead \/ readerLock \/ readerKeep \/ readerSend \/ readerClose

Next ==
  \/ \E c \in Clients : accept(c) \/ clientStep(c)
  \/ acceptFails \/ pty_reader
  \/ \E f \in Fds : leave(f)
  \/ shellEnds \/ shutdown_handler

Spec == Init /\ [][Next]_vars

\* Threads are scheduled, and nobody waits for a lock for ever: its holders
\* wait for the terminal or for a request before they ask for it again.
LiveSpec ==
  /\ Spec
  /\ WF_vars(pty_reader)
  /\ \A c \in Clients : SF_vars(clientStep(c))

-----------------------------------------------------------------------------
\* The type of every variable; the history never outgrows its buffer.
TypeOK ==
  /\ up \in BOOLEAN /\ shell \in BOOLEAN /\ mixed \in BOOLEAN
  /\ pc \in [Clients -> Labels] /\ temp \in [Clients -> {None, Partial, Whole}]
  /\ fd \in [Clients -> Fds \cup {NoFd}] /\ streams \in [Slot -> Fds \cup {NoFd}]
  /\ open \subseteq Fds /\ alive \subseteq Fds
  /\ typing \in Clients \cup {None} /\ pty_lock \in Clients \cup {None}
  /\ stream_lock \in Clients \cup {None, Reader}
  /\ reader \in {"read", "lock", "keep", "send", "closing", "close", "gone"}
  /\ produced \in Nat /\ history \in Seq(Nat) /\ Len(history) <= HISTORY_MAX

(***************************************************************************)
(* A descriptor has one owner: the thread that serves it or one slot.  A   *)
(* number that was closed and given to a new connection is never written   *)
(* to, or closed, on behalf of the old one.                                *)
(***************************************************************************)
OneOwner ==
  /\ \A c, d \in Clients : c # d /\ fd[c] # NoFd => fd[c] # fd[d]
  /\ \A s, t \in Slot : s # t /\ streams[s] # NoFd => streams[s] # streams[t]
  /\ Serving \cap Streaming = {}
  /\ Serving \cup Streaming \subseteq open

(***************************************************************************)
(* A browser sees the terminal without a gap and without a repetition: the *)
(* replay and the chunks after it are consecutive, and outside a broadcast *)
(* every stream has the newest chunk, whenever it was opened.              *)
(***************************************************************************)
SeenInOrder ==
  \A f \in Streaming :
    /\ \A i \in 1 .. Len(seen[f]) - 1 : seen[f][i + 1] = seen[f][i] + 1
    /\ reader = "read" /\ produced > 0 => seen[f] # <<>> /\ seen[f][Len(seen[f])] = produced

(***************************************************************************)
(* Commands of two browsers are never written into one line of the shell:  *)
(* each is followed by its own newline.                                    *)
(***************************************************************************)
LinesWhole == ~mixed

(***************************************************************************)
(* README: "Saves use a temporary sibling plus fsync and atomic rename".   *)
(* The file, and what browsers are shown of it, is always one complete     *)
(* save, also when the process ends at any moment, and a thread that       *)
(* returned has left no temporary behind.                                  *)
(***************************************************************************)
SavedWhole ==
  /\ file = Whole /\ shown = Whole
  /\ up => \A c \in Clients : pc[c] \notin {"write", "rename"} => temp[c] = None

(***************************************************************************)
(* A thread returns from every request while the process runs, provided    *)
(* that browsers read or go away.                                          *)
(***************************************************************************)
ClientsReturn == \A c \in Clients : up /\ pc[c] # "free" ~> ~up \/ pc[c] = "free"
=============================================================================
