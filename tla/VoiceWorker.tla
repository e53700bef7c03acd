---------------------------- MODULE VoiceWorker ----------------------------
(***************************************************************************)
(* rose-voice-worker: a listener that forks one child per connection, at   *)
(* most MaxChildren at a time.  It counts its children by hand: up after   *)
(* fork(), down in the SIGCHLD handler, which is blocked from before the   *)
(* fork until after the count.  A child receives its input, runs the       *)
(* stage, returns the result and removes its two files.                    *)
(***************************************************************************)
EXTENDS Naturals, Sequences, FiniteSets

CONSTANTS
    Clients,      \* who may hold a connection to the worker
    MaxChildren,  \* "at most four concurrent tasks"
    Slots         \* bound: children existing at once, reaped or not

VARIABLES
    wpc,      \* the listener's place in its loop
    current,  \* the connection accept() returned
    backlog,  \* connections waiting for accept()
    active,   \* active_children
    kids,     \* slot -> [peer, phase, files]
    conn      \* client -> what its connection has brought it

workerVars == <<wpc, current, backlog, active, kids, conn>>

Gone == "gone"   \* the client of a connection has closed it
ASSUME WorkerBounds == MaxChildren \in Nat \ {0} /\ IsFiniteSet(Slots) /\ Gone \notin Clients

Free == [peer |-> Gone, phase |-> "free", files |-> {}]
Zombies == {k \in Slots : kids[k].phase = "zombie"}

workerInit ==
    /\ wpc = "poll"
    /\ current = Gone
    /\ backlog = <<>>
    /\ active = 0
    /\ kids = [k \in Slots |-> Free]
    /\ conn = [c \in Clients |-> "none"]

\* The connection of client c ends without a result.
lost(c) == IF c = Gone THEN conn ELSE [conn EXCEPT ![c] = "failed"]

atLimit == active >= MaxChildren

\* accept(): a connection beyond the limit is closed at once.
accept ==
    /\ wpc = "poll"
    /\ backlog # <<>>
    /\ backlog' = Tail(backlog)
    /\ IF atLimit
       THEN /\ conn' = lost(Head(backlog))
            /\ UNCHANGED <<wpc, current>>
       ELSE /\ wpc' = "fork"
            /\ current' = Head(backlog)
            /\ UNCHANGED conn
    /\ UNCHANGED <<active, kids>>

\* SIGCHLD is blocked and the child forked, or fork() fails.
fork ==
    /\ wpc = "fork"
    /\ \/ \E k \in Slots :
            /\ kids[k] = Free
            /\ kids' = [kids EXCEPT ![k] = [peer |-> current, phase |-> "input", files |-> {}]]
            /\ wpc' = "count"
            /\ UNCHANGED conn
       \/ /\ wpc' = "poll"
          /\ conn' = lost(current)
          /\ UNCHANGED kids
    /\ current' = Gone
    /\ UNCHANGED <<backlog, active>>

count ==
    /\ wpc = "count"
    /\ active' = active + 1
    /\ wpc' = "poll"
    /\ UNCHANGED <<current, backlog, kids, conn>>

\* Faulty variant of masked: the signal is not blocked around the fork.
maskedNever == FALSE

\* Whether SIGCHLD is blocked.
masked == wpc = "count"

\* The handler collects every child that has exited.
reap_workers ==
    /\ ~masked
    /\ wpc # "stopped"
    /\ Zombies # {}
    /\ kids' = [k \in Slots |-> IF k \in Zombies THEN Free ELSE kids[k]]
    /\ LET n == Cardinality(Zombies) IN active' = IF active > n THEN active - n ELSE 0
    /\ UNCHANGED <<wpc, current, backlog, conn>>

\* SIGTERM: the listener is closed; children already forked carry on.
stop_worker ==
    /\ wpc = "poll"
    /\ wpc' = "stopped"
    /\ backlog' = <<>>
    /\ conn' = [c \in Clients |-> IF \E i \in DOMAIN backlog : backlog[i] = c
                                  THEN "failed" ELSE conn[c]]
    /\ UNCHANGED <<current, active, kids>>

exit(k) == [kids EXCEPT ![k] = [peer |-> Gone, phase |-> "zombie", files |-> {}]]

\* Anything that goes wrong in a child (identity, task, transfer, digest, stage,
\* timeout) ends it; the client sees an error or a broken connection.
handleFailed(k) ==
    /\ kids[k].phase \in {"input", "exec", "send"}
    /\ kids' = exit(k)
    /\ conn' = lost(kids[k].peer)
    /\ UNCHANGED <<wpc, current, backlog, active>>

\* The input is in, under the digest announced; then the output is made.
handleStep(k) ==
    /\ \/ /\ kids[k].phase = "input"
          /\ kids[k].peer # Gone
          /\ kids' = [kids EXCEPT ![k] = [peer |-> @.peer, phase |-> "exec", files |-> {"in"}]]
       \/ /\ kids[k].phase = "exec"
          /\ kids' = [kids EXCEPT ![k] = [peer |-> @.peer, phase |-> "send", files |-> {"in", "out"}]]
    /\ UNCHANGED <<wpc, current, backlog, active, conn>>

\* The result reaches the client whole: a stream that broke is handleFailed.
handleDone(k) ==
    /\ kids[k].phase = "send"
    /\ kids[k].peer # Gone
    /\ conn' = [conn EXCEPT ![kids[k].peer] = "result"]
    /\ kids' = exit(k)
    /\ UNCHANGED <<wpc, current, backlog, active>>

(***************************************************************************)
(* voice_remote_run, the client's side of a connection                     *)
(***************************************************************************)
connect(c) ==
    /\ wpc # "stopped"
    /\ conn[c] = "none"
    /\ backlog' = Append(backlog, c)
    /\ conn' = [conn EXCEPT ![c] = "open"]
    /\ UNCHANGED <<wpc, current, active, kids>>

\* The client closes its connection, with whatever it has brought.
disconnect(c) ==
    /\ conn' = [conn EXCEPT ![c] = "none"]
    /\ backlog' = [i \in DOMAIN backlog |-> IF backlog[i] = c THEN Gone ELSE backlog[i]]
    /\ current' = IF current = c THEN Gone ELSE current
    /\ kids' = [k \in Slots |-> IF kids[k].peer = c THEN [kids[k] EXCEPT !.peer = Gone]
                                ELSE kids[k]]
    /\ UNCHANGED <<wpc, active>>

workerStep ==
    \/ accept
    \/ fork
    \/ count
    \/ reap_workers
    \/ stop_worker
    \/ \E k \in Slots : handleFailed(k) \/ handleStep(k) \/ handleDone(k)
=============================================================================
