----------------------------- MODULE NeoBridge -----------------------------
(***************************************************************************)
(* Iris and Neo together: the bridge of hw_neo_bridge.cpp, which runs in   *)
(* the ESP's single loop, against noob-neod.  One request is one TCP       *)
(* connection; connect and receive are bounded by two seconds each, and a  *)
(* request the bridge gives up on may still be waiting in Neo's backlog.   *)
(*                                                                         *)
(* NeoDisplayService keeps the wish (start an image, or stop) and repeats  *)
(* it every retry period.  vmDownload reads a file chunk by chunk, one     *)
(* request each, and stores it when the last chunk is in.                  *)
(***************************************************************************)
EXTENDS NeoDaemon

CONSTANTS
    MaxShots, \* bound: other display commands in a behaviour
    Families  \* bound: a behaviour uses the requests of one family

ASSUME FamiliesAssumption == Families \subseteq {"display", "scan", "file", "vm", "led"}

VARIABLES
    pc,        \* "idle", or what the loop is waiting for an answer to
    wanted, owned, stopPending, image,  \* display... of the bridge
    early,     \* int32_t(millis() - displayNextAttempt) < 0
    vmRunning, \* the VM is RUNNING or WAITING
    transfer,  \* vmDownload's [offset, expected, parts]
    steady,    \* the VM file has not changed since the transfer began
    stored,    \* what vmDownload last gave to storeBytes
    acked,     \* a DISPLAY_STOP was acknowledged after the last displayStart
    forgot,    \* the ESP rebooted after the last wish
    lastRead,  \* the last scan code the bridge returned
    shots, family

bridgeVars == <<pc, wanted, owned, stopPending, image, early, vmRunning,
                transfer, steady, stored, acked, forgot, lastRead, shots, family>>
vars == <<daemonVars, bridgeVars>>

displayVars == <<wanted, owned, stopPending, image, early, vmRunning>>
ghostVars == <<steady, stored, acked, forgot, lastRead, shots, family>>

NoTransfer == [offset |-> 0, expected |-> 0, parts |-> <<>>]
NoStored == [size |-> 0, parts |-> <<>>, steady |-> TRUE, file |-> 0]

Init ==
    /\ daemonInit
    /\ family \in Families
    /\ family # "vm" => vmFile.size = 0
    /\ family # "led" => led = "0"
    /\ pc = "idle"
    /\ wanted = FALSE
    /\ owned = FALSE
    /\ stopPending = FALSE
    /\ image = "none"
    /\ early = FALSE
    /\ vmRunning = FALSE
    /\ transfer = NoTransfer
    /\ steady = TRUE
    /\ stored = NoStored
    /\ acked = FALSE
    /\ forgot = FALSE
    /\ lastRead = 0
    /\ shots = 0

(***************************************************************************)
(* neoRequest                                                              *)
(***************************************************************************)
Request(op, arg) == [op |-> op, arg |-> arg, from |-> "bridge"]

\* The connection is made and the request line sent.
sent(r) ==
    /\ listening
    /\ Len(backlog) < Backlog
    /\ backlog' = Append(backlog, r)
    /\ UNCHANGED <<listening, answer, scan, emitted, job, children, lastJob,
                   lastExit, display, led, vmFile, restarts>>

\* Nothing comes back in time: the connection is closed, the request stays.
abandoned ==
    /\ answer = NoAnswer
    /\ backlog' = [i \in DOMAIN backlog |->
                     IF backlog[i].from = "bridge" THEN [backlog[i] EXCEPT !.from = "gone"]
                     ELSE backlog[i]]
    /\ UNCHANGED <<listening, answer, scan, emitted, job, children, lastJob,
                   lastExit, display, led, vmFile, restarts>>

\* The complete reply line is in.
received ==
    /\ answer # NoAnswer
    /\ answer' = NoAnswer
    /\ UNCHANGED <<listening, backlog, scan, emitted, job, children, lastJob,
                   lastExit, display, led, vmFile, restarts>>

(***************************************************************************)
(* The display wish                                                        *)
(*                                                                         *)
(* A new wish sets displayNextAttempt to 0.  While millis() is in the      *)
(* upper half of its range the signed comparison reads that as a time      *)
(* still to come, so a new wish may be due at once or only later.          *)
(***************************************************************************)
displayStart(i) ==
    /\ pc = "idle"
    /\ family = "display"
    /\ image' = i
    /\ wanted' = TRUE
    /\ stopPending' = FALSE
    /\ owned' = vmRunning
    /\ early' \in BOOLEAN
    /\ acked' = FALSE
    /\ forgot' = FALSE
    /\ UNCHANGED <<daemonVars, pc, vmRunning, transfer, steady, stored, lastRead, shots, family>>

\* displayImage is read only while an image is wanted: it counts as "none" here.
displayStop ==
    /\ pc = "idle"
    /\ family = "display"
    /\ image' = "none"
    /\ wanted' = FALSE
    /\ owned' = FALSE
    /\ stopPending' = TRUE
    /\ early' \in BOOLEAN
    /\ forgot' = FALSE
    /\ UNCHANGED <<daemonVars, pc, vmRunning, transfer, steady, stored, acked,
                   lastRead, shots, family>>

\* The first half of NeoDisplayService::tick: a wish made for a VM that no
\* longer runs becomes a stop.
wish ==
    LET ended == owned /\ ~vmRunning
    IN [wanted |-> wanted /\ ~ended, owned |-> owned /\ ~ended,
        stopPending |-> stopPending \/ ended,
        early |-> IF ended THEN BOOLEAN ELSE {early}]

\* Faulty variant of tick: a stop counts as done although Neo could not be reached.
tickOnce ==
    LET w == wish
    IN /\ pc = "idle"
       /\ family = "display"
       /\ wanted' = w.wanted
       /\ owned' = w.owned
       /\ image' = IF w.wanted THEN image ELSE "none"
       /\ \/ /\ early' \in w.early
             /\ early' \/ ~(w.wanted \/ w.stopPending)
             /\ stopPending' = w.stopPending
             /\ UNCHANGED <<daemonVars, pc>>
          \/ /\ FALSE \in w.early /\ (w.wanted \/ w.stopPending)
             /\ early' = TRUE
             /\ \/ /\ sent(Request(IF w.wanted THEN "DISPLAY_START" ELSE "DISPLAY_STOP", image'))
                   /\ stopPending' = w.stopPending
                   /\ pc' = "display"
                \/ /\ stopPending' = FALSE
                   /\ UNCHANGED <<daemonVars, pc>>
       /\ UNCHANGED <<vmRunning, transfer, ghostVars>>

\* One tick: nothing to do yet, an attempt that fails to connect, or an attempt
\* whose answer is now awaited.  An attempt sets displayNextAttempt ahead.
tick ==
    LET w == wish
    IN /\ pc = "idle"
       /\ family = "display"
       /\ wanted' = w.wanted
       /\ owned' = w.owned
       /\ stopPending' = w.stopPending
       /\ image' = IF w.wanted THEN image ELSE "none"
       /\ \/ /\ early' \in w.early
             /\ early' \/ ~(w.wanted \/ w.stopPending)
             /\ UNCHANGED <<daemonVars, pc>>
          \/ /\ FALSE \in w.early /\ (w.wanted \/ w.stopPending)
             /\ early' = TRUE
             /\ \/ /\ sent(Request(IF w.wanted THEN "DISPLAY_START" ELSE "DISPLAY_STOP", image'))
                   /\ pc' = "display"
                \/ UNCHANGED <<daemonVars, pc>>
       /\ UNCHANGED <<vmRunning, transfer, ghostVars>>

\* The rest of the tick: only an accepted request settles a pending stop.
tickDone ==
    /\ pc = "display"
    /\ pc' = "idle"
    /\ \/ /\ received
          /\ stopPending' = (stopPending /\ answer.status # "OK")
          /\ acked' = (acked \/ (stopPending /\ answer.status = "OK"))
       \/ /\ abandoned
          /\ UNCHANGED <<stopPending, acked>>
    /\ UNCHANGED <<wanted, owned, image, early, vmRunning, transfer,
                   steady, stored, forgot, lastRead, shots, family>>
(***************************************************************************)
(* Calls that only forward                                                 *)
(***************************************************************************)
Calls == [scan |-> {"IR_STATUS", "IR_SCAN_START", "IR_SCAN_STOP", "IR_SCAN_READ"} \X {"none"},
          file |-> {"FILE_STATUS", "FILE_DOWNLOAD"} \X {"none"},
          led |-> ({"LED_SET"} \X {"0", "1"}) \cup {<<"LED_STATUS", "none">>},
          display |-> {<<"OLED_TEXT", "none">>, <<"DISPLAY_STATUS", "none">>},
          vm |-> {}]

mayCall == family = "display" => shots < MaxShots
counted == shots' = IF family = "display" THEN shots + 1 ELSE shots

\* irScanStart, fileDownload, ledSet, oledText ...: one request, its result returned.
call(c) ==
    /\ pc = "idle"
    /\ mayCall
    /\ sent(Request(c[1], c[2]))
    /\ pc' = "call"
    /\ counted
    /\ UNCHANGED <<displayVars, transfer, steady, stored, acked, forgot, lastRead, family>>

callDone ==
    /\ pc = "call"
    /\ pc' = "idle"
    /\ \/ /\ received
          /\ lastRead' = IF family = "scan" /\ answer.code # 0
                         THEN answer.code ELSE lastRead
       \/ /\ abandoned
          /\ UNCHANGED lastRead
    /\ UNCHANGED <<displayVars, transfer, steady, stored, acked, forgot, shots, family>>

\* noob-neoctl on Neo itself: the same requests over connections of its own.
localCall(c) ==
    /\ family \in {"scan", "file"}
    /\ sent([op |-> c[1], arg |-> c[2], from |-> "local"])
    /\ UNCHANGED bridgeVars

(***************************************************************************)
(* vmDownload                                                              *)
(***************************************************************************)
vmDownload ==
    /\ pc = "idle"
    /\ family = "vm"
    /\ sent(Request("VM_READ", 0))
    /\ pc' = "vm"
    /\ transfer' = NoTransfer
    /\ steady' = TRUE
    /\ UNCHANGED <<displayVars, stored, acked, forgot, lastRead, shots, family>>

\* Faulty variant of vmChunkOk: a size that changed between chunks is accepted.
vmChunkOkAnySize(c) == transfer.offset + c.got <= c.size

\* The checks on one chunk; its size must be the one the first chunk announced.
vmChunkOk(c) ==
    /\ transfer.expected # 0 => transfer.expected = c.size
    /\ transfer.offset + c.got <= c.size

\* One VM_READ answered: the next chunk is asked for, or the transfer ends, with
\* the program stored only at the end of the file.
vmChunk ==
    /\ pc = "vm"
    /\ received
    /\ LET c == answer.chunk
           parts == [i \in 1..(transfer.offset + c.got) |->
                       IF i <= transfer.offset THEN transfer.parts[i]
                       ELSE [ver |-> c.ver, size |-> c.size]]
       IN IF answer.status # "OK" \/ ~vmChunkOk(c)
          THEN pc' = "idle" /\ transfer' = NoTransfer /\ UNCHANGED stored
          ELSE IF c.eof
          THEN /\ pc' = "idle"
               /\ transfer' = NoTransfer
               /\ stored' = [size |-> c.size, parts |-> parts, steady |-> steady, file |-> vmFile.ver]
          ELSE /\ pc' = "vm_next"
               /\ transfer' = [offset |-> transfer.offset + c.got, expected |-> c.size, parts |-> parts]
               /\ UNCHANGED stored
    /\ UNCHANGED <<displayVars, steady, acked, forgot, lastRead, shots, family>>

vmNext ==
    /\ pc = "vm_next"
    /\ \/ /\ sent(Request("VM_READ", transfer.offset))
          /\ pc' = "vm"
          /\ UNCHANGED transfer
       \/ /\ pc' = "idle"     \* the connection could not be made
          /\ transfer' = NoTransfer
          /\ UNCHANGED daemonVars
    /\ UNCHANGED <<displayVars, ghostVars>>

vmAbandoned ==
    /\ pc = "vm"
    /\ abandoned
    /\ pc' = "idle"
    /\ transfer' = NoTransfer
    /\ UNCHANGED <<displayVars, ghostVars>>

(***************************************************************************)
(* Around the bridge                                                       *)
(***************************************************************************)
\* millis() reaches displayNextAttempt.
retryDue ==
    /\ early
    /\ early' = FALSE
    /\ UNCHANGED <<daemonVars, pc, wanted, owned, stopPending, image, vmRunning,
                   transfer, ghostVars>>

\* The VM is started, or it halts, faults, is stopped or reset.
vmToggles ==
    /\ pc = "idle"
    /\ family = "display"
    /\ vmRunning' = ~vmRunning
    /\ UNCHANGED <<daemonVars, pc, wanted, owned, stopPending, image, early,
                   transfer, ghostVars>>

\* The ESP restarts: the wish is forgotten, Neo is not told.
espReboot ==
    /\ restarts < MaxRestarts
    /\ restarts' = restarts + 1
    /\ backlog' = [i \in DOMAIN backlog |->
                     IF backlog[i].from = "bridge" THEN [backlog[i] EXCEPT !.from = "gone"]
                     ELSE backlog[i]]
    /\ answer' = NoAnswer
    /\ pc' = "idle"
    /\ wanted' = FALSE
    /\ owned' = FALSE
    /\ stopPending' = FALSE
    /\ early' = FALSE
    /\ vmRunning' = FALSE
    /\ transfer' = NoTransfer
    /\ image' = "none"
    /\ forgot' = TRUE
    /\ UNCHANGED <<listening, scan, emitted, job, children, lastJob, lastExit, display,
                   led, vmFile, steady, stored, acked, lastRead, shots, family>>

daemonStep ==
    /\ \/ bind \/ poll \/ hw_command \/ file_command \/ hw_display_call \/ hw_led_call
       \/ scannerPrints \/ scannerExits \/ workerExits \/ restart
       \/ \E p \in DOMAIN children, e \in Exits : jobExits(p, e)
    /\ UNCHANGED bridgeVars

vmFileChanges ==
    /\ family = "vm"
    /\ \E n \in 0..MaxChunks + 1 : vmFileReplaced(n)
    /\ steady' = FALSE
    /\ UNCHANGED <<pc, displayVars, transfer, stored, acked, forgot, lastRead, shots, family>>

Next ==
    \/ daemonStep
    \/ vmFileChanges
    \/ \E i \in Images : displayStart(i)
    \/ displayStop
    \/ tick
    \/ tickDone
    \/ \E c \in Calls[family] : call(c) \/ localCall(c)
    \/ callDone
    \/ vmDownload
    \/ vmChunk
    \/ vmNext
    \/ vmAbandoned
    \/ retryDue
    \/ vmToggles
    \/ espReboot
\* Both loops keep running, the clock advances, every receive is bounded, a
\* one-shot display command ends; and of infinitely many attempts to connect,
\* or to fork the display worker, some succeed.  Only the display's requests
\* need fairness: nothing is promised about the others' progress.
showing == family = "display" /\ hw_display_call /\ UNCHANGED bridgeVars

Fairness ==
    /\ WF_vars(retryDue)
    /\ WF_vars(tickDone)
    /\ WF_vars(family = "display" /\ callDone)
    /\ WF_vars(family = "display" /\ bind /\ UNCHANGED bridgeVars)
    /\ WF_vars(showing)
    /\ WF_vars(~display.thread /\ workerExits /\ UNCHANGED bridgeVars)
    /\ SF_vars(tick /\ pc' = "display")
    /\ SF_vars(display.worker # "running" /\ showing /\ display'.worker = "running")

Spec == Init /\ [][Next]_vars /\ Fairness

(***************************************************************************)
(* Properties                                                              *)
(***************************************************************************)
ThreadShows(i) == display.worker = "running" /\ display.thread /\ display.image = i

\* Every variable keeps the shape noob-neod.c and hw_neo_bridge.cpp give it: the
\* scan-code queue and the listen backlog stay within their limits, and a wish
\* to show and a wish to stop are never pending together.
TypeOK ==
    /\ listening \in BOOLEAN
    /\ Len(backlog) <= Backlog
    /\ \A i \in DOMAIN backlog : backlog[i].from \in {"bridge", "local", "gone"}
    /\ answer.status \in {"none", "OK", "ERR"}
    /\ scan.child \in {"none", "running", "exited"}
    /\ Len(scan.queue) <= QueueSize
    /\ job.pid \in 0..MaxJobs /\ job.exit \in {"-1"} \cup Exits
    /\ display.worker \in {"none", "running", "exited"}
    /\ display.image \in Images \cup {"none"}
    /\ led \in {"unclaimed", "0", "1"}
    /\ pc \in {"idle", "display", "call", "vm", "vm_next"}
    /\ early \in BOOLEAN
    /\ ~(wanted /\ stopPending)
    /\ owned => wanted

\* Once Neo has acknowledged DISPLAY_STOP, no display thread runs and none will be
\* started by a request still on its way, until displayStart is called again: not
\* even a DISPLAY_START the bridge gave up on and Neo had not yet served.
StopIsFinal ==
    acked => /\ ~(display.worker = "running" /\ display.thread)
             /\ \A i \in DOMAIN backlog : backlog[i].op # "DISPLAY_START"

\* Scan codes reach Iris in the order the scanner printed them, none twice, over a
\* queue that drops its oldest entries, scanner restarts, a second reader and
\* replies nobody receives: every code still on its way is newer than the last
\* one returned, and they are in order.
ReadsInOrder ==
    LET way == scan.queue \o scan.pipe
    IN /\ \A i, j \in DOMAIN way : i < j => way[i] < way[j]
       /\ \A i \in DOMAIN way : lastRead < way[i]
       /\ (pc = "call" /\ family = "scan" /\ answer.code # 0) =>
             /\ lastRead < answer.code
             /\ \A i \in DOMAIN way : answer.code < way[i]

\* FILE_STATUS tells the truth about the job started last: at most one job lives,
\* it is the one file_pid names, and once file_pid is clear file_exit is how the
\* last job ended, whatever was refused or failed to start since.
JobTracked ==
    /\ DOMAIN children = {job.pid} \ {0}
    /\ job.pid # 0 => job.pid = lastJob /\ job.exit = "-1"
    /\ job.pid = 0 => job.exit = lastExit

\* vmDownload stores only a whole file: every chunk present and read at the size
\* stored, and all of one content when the file stayed unchanged meanwhile.
StoredIsWhole ==
    /\ Len(stored.parts) = stored.size
    /\ \A i \in DOMAIN stored.parts :
          /\ stored.parts[i].size = stored.size
          /\ stored.steady => stored.parts[i].ver = stored.file

\* The display follows the last wish: a stop, once wished for, ends the thread, and
\* an image wished for is shown, unless the wish changes (or the ESP reboots)
\* first; lost answers, a busy display and a restarted Neo only delay it.
DisplayFollows ==
    /\ stopPending ~> (wanted \/ forgot \/ ~(display.worker = "running" /\ display.thread))
    /\ \A i \in Images : (wanted /\ image = i) ~> (~wanted \/ image # i \/ ThreadShows(i))
=============================================================================
