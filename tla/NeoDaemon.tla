----------------------------- MODULE NeoDaemon -----------------------------
(***************************************************************************)
(* noob-neod, the command endpoint on the Neo board: one process that      *)
(* accepts one connection at a time, reads one request line, runs it and   *)
(* answers.  It owns three kinds of children (the infrared scanner, one    *)
(* file or audio job, one display worker) and the GPIO line of the LED.    *)
(*                                                                         *)
(* A request is a record [op, arg, from]; from says whether the connection *)
(* is the Iris bridge's ("bridge"), a local client's ("local"), or one the *)
(* bridge has given up on ("gone"): its request line is still read and     *)
(* executed, its answer reaches nobody.                                    *)
(***************************************************************************)
EXTENDS Naturals, Sequences, FiniteSets

CONSTANTS
    QueueSize,   \* IR_QUEUE_SIZE
    DrainLines,  \* scanner lines one drain_scan can take (8 reads of 512 bytes)
    Backlog,     \* connections listen() keeps waiting
    Images,      \* image names a display thread can be asked for
    MaxChunks,   \* chunks of the largest VM file (1024 / 128)
    MaxCodes,    \* bound: scan codes received in a behaviour
    MaxJobs,     \* bound: file jobs started in a behaviour
    MaxVersions, \* bound: contents the VM file takes in a behaviour
    MaxRestarts  \* bound: restarts of the service in a behaviour

ASSUME NeoBounds == /\ QueueSize \in Nat \ {0}
                    /\ DrainLines \in Nat \ {0}
                    /\ Backlog \in Nat \ {0}
                    /\ MaxChunks \in Nat \ {0}
                    /\ MaxJobs \in Nat

VARIABLES
    listening, \* the server socket is bound
    backlog,   \* requests of the connections not yet served
    answer,    \* the reply the bridge's open connection holds, or NoAnswer
    scan,      \* [child, pipe, queue]: scan_pid/scan_output, unread output, ir_queue
    emitted,   \* last scan code the scanner printed
    job,       \* [pid, exit]: file_pid and file_exit
    children,  \* file jobs forked and not reaped: pid -> running or exit status
    lastJob,   \* pid of the job started last (0: none)
    lastExit,  \* how that job ended ("-1": not yet)
    display,   \* [worker, thread, image] of hw_display.c
    led,       \* the boot LED's line: unclaimed, or its level
    vmFile,    \* the .nvm file asked for: [size in chunks (0: none), ver]
    restarts

daemonVars == <<listening, backlog, answer, scan, emitted, job, children,
                lastJob, lastExit, display, led, vmFile, restarts>>

\* A reply: its status, and the scan code or VM chunk an OK may carry.
NoChunk == [size |-> 0, ver |-> 0, got |-> 0, eof |-> FALSE]
Reply(status, code, chunk) == [status |-> status, code |-> code, chunk |-> chunk]
NoAnswer == Reply("none", 0, NoChunk)
OK == Reply("OK", 0, NoChunk)
ERR == Reply("ERR", 0, NoChunk)

Exits == {"0", "1"}  \* a child's exit status: success or anything else
Running == "running" \* a child that has not exited

NoScan == [child |-> "none", pipe |-> <<>>, queue |-> <<>>]
NoJob == [pid |-> 0, exit |-> "-1"]
NoDisplay == [worker |-> "none", thread |-> FALSE, image |-> "none"]

(***************************************************************************)
(* Scanner                                                                 *)
(***************************************************************************)
\* Faulty variant of queue_scancode: a full queue overwrites its newest entry.
queue_scancodeNewest(queue, code) ==
    IF Len(queue) = QueueSize
    THEN <<code>> \o SubSeq(queue, 1, QueueSize - 1)
    ELSE Append(queue, code)

\* A full queue gives up its oldest code.
queue_scancode(queue, code) ==
    Append(IF Len(queue) = QueueSize THEN Tail(queue) ELSE queue, code)

\* At most n lines of the scanner's output move to the queue.
collect_scancodes(s, n) ==
    LET take == IF Len(s.pipe) < n THEN Len(s.pipe) ELSE n
        q[i \in 0..take] == IF i = 0 THEN s.queue
                            ELSE queue_scancode(q[i - 1], s.pipe[i])
    IN [s EXCEPT !.queue = q[take],
                 !.pipe = SubSeq(s.pipe, take + 1, Len(s.pipe))]

\* A reaped scanner's pipe is closed, whatever it still held; its queue stays.
drain_scan(s) ==
    LET d == IF s.child = "none" THEN s ELSE collect_scancodes(s, DrainLines)
    IN IF d.child = "exited" THEN [d EXCEPT !.child = "none", !.pipe = <<>>] ELSE d

\* SIGTERM, then SIGKILL after 200 ms: the scanner is gone on return.
stop_scan == NoScan

IR_STATUS(s, ready) == [state |-> s, reply |-> IF ready THEN OK ELSE ERR]

IR_SCAN_START(s, ready, forked) ==
    IF ~ready THEN [state |-> s, reply |-> ERR]
    ELSE IF s.child # "none" THEN [state |-> s, reply |-> OK]
    ELSE IF ~forked THEN [state |-> s, reply |-> ERR]
    ELSE [state |-> [s EXCEPT !.child = "running"], reply |-> OK]

\* One more read (480 bytes), then the oldest queued code; 0 when there is none.
IR_SCAN_READ(s, readable) ==
    IF s.child = "none" THEN [state |-> s, reply |-> ERR]
    ELSE IF ~readable THEN [state |-> s, reply |-> ERR]
    ELSE LET c == collect_scancodes(s, 1)
         IN IF c.queue = <<>> THEN [state |-> c, reply |-> OK]
            ELSE [state |-> [c EXCEPT !.queue = Tail(c.queue)],
                  reply |-> Reply("OK", Head(c.queue), NoChunk)]

(***************************************************************************)
(* File jobs                                                               *)
(***************************************************************************)
\* waitpid(WNOHANG) on file_pid: the child's status is collected once.
reap_file(j, kids) ==
    IF j.pid # 0 /\ kids[j.pid] # Running
    THEN [job |-> [pid |-> 0, exit |-> kids[j.pid]],
          kids |-> [p \in DOMAIN kids \ {j.pid} |-> kids[p]]]
    ELSE [job |-> j, kids |-> kids]

\* VM_READ: one chunk from the file as it is now.
VM_READ(offset) ==
    IF vmFile.size < 1 \/ vmFile.size > MaxChunks \/ offset > vmFile.size
    THEN ERR
    ELSE LET got == IF offset < vmFile.size THEN 1 ELSE 0
         IN Reply("OK", 0, [size |-> vmFile.size, ver |-> vmFile.ver, got |-> got,
                            eof |-> offset + got = vmFile.size])

(***************************************************************************)
(* Display worker                                                          *)
(***************************************************************************)
\* last_exit, which only DISPLAY_STATUS prints, is left out.
reap(d) == IF d.worker = "exited" THEN NoDisplay ELSE d

\* Faulty variant of stop: the worker is signalled and not waited for.
stopUnwaited(d) == d

\* The process group is killed, with SIGKILL after 200 ms, and its leader collected.
stop(d) == NoDisplay

\* op is DISPLAY_START (a thread showing an image until stopped) or a one-shot
\* (IMAGE_FORMAT, OLED_DRAW, OLED_TEXT).
launch(d, op, image, forked) ==
    LET start == op = "DISPLAY_START"
        other == d.worker # "none" /\ start /\ d.thread /\ d.image # image
        e == IF other THEN stop(d) ELSE d
    IN IF e.worker # "none"
       THEN [state |-> e, reply |-> IF start /\ e.thread THEN OK ELSE ERR]
       ELSE IF ~forked THEN [state |-> e, reply |-> ERR]
       ELSE [state |-> [worker |-> "running", thread |-> start, image |-> image], reply |-> OK]

(***************************************************************************)
(* The service loop                                                        *)
(***************************************************************************)
NoChildren == [p \in {} |-> Running]

daemonInit ==
    /\ listening = FALSE
    /\ backlog = <<>>
    /\ answer = NoAnswer
    /\ scan = NoScan
    /\ emitted = 0
    /\ job = NoJob
    /\ children = NoChildren
    /\ lastJob = 0
    /\ lastExit = "-1"
    /\ display = NoDisplay
    /\ led \in {"unclaimed", "0"}   \* hw_led_boot claims the line LOW, or fails
    /\ vmFile \in [size : 0..MaxChunks + 1, ver : {0}]
    /\ restarts = 0

\* bind() succeeds once the USB address exists; until then it is retried.
bind ==
    /\ ~listening
    /\ listening' = TRUE
    /\ UNCHANGED <<backlog, answer, scan, emitted, job, children, lastJob,
                   lastExit, display, led, vmFile, restarts>>

\* One turn of the loop with no connection waiting.
poll ==
    LET r == reap_file(job, children)
    IN /\ listening
       /\ backlog = <<>>
       /\ scan' = drain_scan(scan)
       /\ job' = r.job
       /\ children' = r.kids
       /\ UNCHANGED <<listening, backlog, answer, emitted, lastJob, lastExit,
                      display, led, vmFile, restarts>>

request == Head(backlog)

\* The answer goes to the bridge if it still holds its connection.
respond(reply) ==
    answer' = IF request.from = "bridge" THEN reply ELSE answer

\* What every served connection does before its command runs.
accepted ==
    /\ listening
    /\ backlog # <<>>
    /\ backlog' = Tail(backlog)

hw_command ==
    LET s == drain_scan(drain_scan(scan))
        r == reap_file(job, children)
    IN /\ accepted
       /\ request.op \in {"IR_STATUS", "IR_SCAN_START", "IR_SCAN_STOP", "IR_SCAN_READ"}
       /\ \E ready, done \in BOOLEAN :
             LET res == CASE request.op = "IR_STATUS" -> IR_STATUS(s, ready)
                          [] request.op = "IR_SCAN_START" -> IR_SCAN_START(s, ready, done)
                          [] request.op = "IR_SCAN_READ" -> IR_SCAN_READ(s, done)
                          [] OTHER -> [state |-> stop_scan, reply |-> OK]
             IN /\ scan' = res.state
                /\ respond(res.reply)
       /\ job' = r.job
       /\ children' = r.kids
       /\ UNCHANGED <<listening, emitted, lastJob, lastExit, display, led, vmFile, restarts>>

\* Faulty variant of file_command: a second job is started beside the first.
file_commandOverlapping ==
    LET r == reap_file(job, children)
        pid == lastJob + 1
    IN /\ accepted
       /\ request.op = "FILE_DOWNLOAD"
       /\ lastJob < MaxJobs
       /\ respond(OK)
       /\ job' = [pid |-> pid, exit |-> "-1"]
       /\ children' = [p \in DOMAIN r.kids \cup {pid} |-> IF p = pid THEN Running ELSE r.kids[p]]
       /\ lastJob' = pid
       /\ lastExit' = "-1"
       /\ scan' = drain_scan(drain_scan(scan))
       /\ UNCHANGED <<listening, emitted, display, led, vmFile, restarts>>

\* FILE_STATUS, VM_READ, and the two asynchronous jobs (FILE_DOWNLOAD stands for
\* both: AUDIO_PLAY differs in the tool's argument only).
file_command ==
    LET r == reap_file(job, children)
        pid == lastJob + 1
        plain(reply) == /\ respond(reply)
                        /\ job' = r.job
                        /\ children' = r.kids
                        /\ UNCHANGED <<lastJob, lastExit>>
    IN /\ accepted
       /\ \/ /\ request.op = "FILE_STATUS"
             /\ plain(OK)
          \/ /\ request.op = "VM_READ"
             /\ plain(VM_READ(request.arg))
          \/ /\ request.op = "FILE_DOWNLOAD"
             /\ r.job.pid # 0
             /\ plain(ERR)
          \/ /\ request.op = "FILE_DOWNLOAD"   \* no log file, or fork() failed
             /\ r.job.pid = 0
             /\ plain(ERR)
          \/ /\ request.op = "FILE_DOWNLOAD"
             /\ r.job.pid = 0
             /\ lastJob < MaxJobs
             /\ respond(OK)
             /\ job' = [pid |-> pid, exit |-> "-1"]
             /\ children' = [p \in DOMAIN r.kids \cup {pid} |-> IF p = pid THEN Running ELSE r.kids[p]]
             /\ lastJob' = pid
             /\ lastExit' = "-1"
       /\ scan' = drain_scan(drain_scan(scan))
       /\ UNCHANGED <<listening, emitted, display, led, vmFile, restarts>>

hw_display_call ==
    LET d == reap(display)
        r == reap_file(job, children)
    IN /\ accepted
       /\ request.op \in {"DISPLAY_START", "DISPLAY_STOP", "DISPLAY_STATUS", "OLED_TEXT"}
       /\ \E forked \in BOOLEAN :
             LET res == CASE request.op = "DISPLAY_STATUS" ->
                               [state |-> d, reply |-> OK]
                          [] request.op = "DISPLAY_STOP" ->
                               [state |-> stop(d), reply |-> OK]
                          [] OTHER -> launch(d, request.op, request.arg, forked)
             IN /\ display' = res.state
                /\ respond(res.reply)
       /\ scan' = drain_scan(drain_scan(scan))
       /\ job' = r.job
       /\ children' = r.kids
       /\ UNCHANGED <<listening, emitted, lastJob, lastExit, led, vmFile, restarts>>

\* LED_STATUS leaves an unclaimed line alone; LED_SET claims it, LOW, first.
hw_led_call ==
    LET r == reap_file(job, children)
    IN /\ accepted
       /\ \/ /\ request.op = "LED_STATUS"
             /\ respond(OK)
             /\ UNCHANGED led
          \/ /\ request.op = "LED_SET"
             /\ \/ /\ led' = request.arg
                   /\ respond(OK)
                \/ /\ led' \in {led, IF led = "unclaimed" THEN "0" ELSE led}
                   /\ respond(ERR)
       /\ scan' = drain_scan(drain_scan(scan))
       /\ job' = r.job
       /\ children' = r.kids
       /\ UNCHANGED <<listening, emitted, lastJob, lastExit, display, vmFile, restarts>>
(***************************************************************************)
(* The children and the outside                                            *)
(***************************************************************************)
scannerPrints ==
    /\ scan.child = "running"
    /\ emitted < MaxCodes
    /\ emitted' = emitted + 1
    /\ scan' = [scan EXCEPT !.pipe = Append(scan.pipe, emitted + 1)]
    /\ UNCHANGED <<listening, backlog, answer, job, children, lastJob, lastExit,
                   display, led, vmFile, restarts>>

scannerExits ==
    /\ scan.child = "running"
    /\ scan' = [scan EXCEPT !.child = "exited"]
    /\ UNCHANGED <<listening, backlog, answer, emitted, job, children, lastJob,
                   lastExit, display, led, vmFile, restarts>>

jobExits(p, exit) ==
    /\ children[p] = Running
    /\ children' = [children EXCEPT ![p] = exit]
    /\ lastExit' = IF p = lastJob THEN exit ELSE lastExit
    /\ UNCHANGED <<listening, backlog, answer, scan, emitted, job, lastJob,
                   display, led, vmFile, restarts>>

workerExits ==
    /\ display.worker = "running"
    /\ display' = [display EXCEPT !.worker = "exited"]
    /\ UNCHANGED <<listening, backlog, answer, scan, emitted, job, children,
                   lastJob, lastExit, led, vmFile, restarts>>

\* The VM file is replaced on Neo, by a file of the same size or another.
vmFileReplaced(size) ==
    /\ vmFile.ver < MaxVersions
    /\ vmFile' = [size |-> size, ver |-> vmFile.ver + 1]
    /\ UNCHANGED <<listening, backlog, answer, scan, emitted, job, children,
                   lastJob, lastExit, display, led, restarts>>

\* The service is restarted: its control group is killed, its connections reset.
restart ==
    /\ restarts < MaxRestarts
    /\ restarts' = restarts + 1
    /\ listening' = FALSE
    /\ backlog' = <<>>
    /\ scan' = NoScan
    /\ job' = NoJob
    /\ children' = NoChildren
    /\ lastJob' = 0
    /\ lastExit' = "-1"
    /\ display' = NoDisplay
    /\ led' \in {"unclaimed", "0"}
    /\ UNCHANGED <<answer, emitted, vmFile>>
=============================================================================
