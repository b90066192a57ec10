------------------------------- MODULE Pulse --------------------------------
(***************************************************************************)
(* The program wat/programs/pulse.wat: three threads.  Main walks a bounded *)
(* candle stream inside a telemetry work unit; a console driver owns the    *)
(* .out file and a sqlite driver the database.  bare-walk.wat is the same   *)
(* without the database, smoke.wat without the walk.                        *)
(*                                                                         *)
(* From the runtime: a line to the console is a send on a bounded(1) queue  *)
(* that nobody acknowledges; a batch to the telemetry service is sent and   *)
(* then its acknowledgement awaited; a driver ends when its queue is empty  *)
(* and every sender of it is gone; closing a work unit sends one Metric row *)
(* per counter that was ever bumped.                                        *)
(* The planned count is a literal 1000 in the code, here any budget.        *)
(***************************************************************************)
EXTENDS CandleStream

VARIABLES
    pc,          \* where main is
    walked,      \* rows walk-step has counted
    counter,     \* the work unit's :candle counter
    conSender,   \* who holds the console's only sender
    sqlSender,   \* who holds the database's only sender
    conQueue,
    sqlQueue,
    acks,        \* acknowledgements main has not received
    outFile,     \* lines of the .out file
    database,    \* rows of the .db file
    conDriver,
    sqlDriver

senders == <<conSender, sqlSender>>
console == <<conQueue, outFile, conDriver>>
sqlite == <<sqlQueue, acks, database, sqlDriver>>
pulseVars ==
    <<streamVars, pc, walked, counter, senders, console, sqlite>>

PulseInit ==
    /\ StreamInit
    /\ pc = "spawn"
    /\ walked = 0 /\ counter = 0
    /\ conSender = "none" /\ sqlSender = "none"
    /\ conQueue = <<>> /\ sqlQueue = <<>> /\ acks = 0
    /\ outFile = <<>> /\ database = <<>>
    /\ conDriver = "none" /\ sqlDriver = "none"

-----------------------------------------------------------------------------
(* Main *)

\* Each driver starts with a pool of one sender.
Spawn ==
    /\ pc = "spawn" /\ pc' = "pop"
    /\ conDriver' = "running" /\ sqlDriver' = "running"
    /\ conSender' = "pool" /\ sqlSender' = "pool"
    /\ UNCHANGED <<streamVars, walked, counter, conQueue, outFile,
                   sqlQueue, acks, database>>

\* Variant: the database's sender is cloned, and the pool keeps one.
PopHandlesCopies ==
    /\ pc = "pop" /\ pc' = "started"
    /\ conSender' = "inner"
    /\ UNCHANGED <<streamVars, walked, counter, sqlSender, console, sqlite>>

\* inner takes both senders out of their pools and finishes the pools.
PopHandles ==
    /\ pc = "pop" /\ pc' = "started"
    /\ conSender' = "inner" /\ sqlSender' = "inner"
    /\ UNCHANGED <<streamVars, walked, counter, console, sqlite>>

LogStarted ==
    /\ pc = "started" /\ pc' = "walk"
    /\ conQueue = <<>>
    /\ conQueue' = <<[tag |-> "Started", n |-> limit]>>
    /\ UNCHANGED <<streamVars, walked, counter, senders, outFile, conDriver,
                   sqlite>>

\* One step of walk-step, up to the first None.
Walk ==
    /\ pc = "walk"
    /\ \/ NextRow /\ walked' = walked + 1 /\ counter' = counter + 1 /\ pc' = pc
       \/ NextEnd /\ UNCHANGED <<walked, counter>> /\ pc' = "log"
       \/ NextPanics /\ UNCHANGED <<walked, counter>> /\ pc' = "panicked"
    /\ UNCHANGED <<senders, console, sqlite>>

\* The RunSummary, while the work unit is still open.
LogSummary ==
    /\ pc = "log" /\ pc' = "logAck"
    /\ sqlQueue = <<>>
    /\ sqlQueue' = <<[table |-> "log", n |-> walked]>>
    /\ UNCHANGED <<streamVars, walked, counter, senders, console, acks,
                   database, sqlDriver>>

CloseScope ==
    /\ pc = "close"
    /\ IF counter = 0
       THEN pc' = "stopped" /\ UNCHANGED sqlQueue
       ELSE /\ pc' = "closeAck"
            /\ sqlQueue = <<>>
            /\ sqlQueue' = <<[table |-> "metric", n |-> counter]>>
    /\ UNCHANGED <<streamVars, walked, counter, senders, console, acks,
                   database, sqlDriver>>

\* Variant: main does not wait for the last acknowledgement.
AwaitAckOnce ==
    /\ \/ pc = "logAck" /\ acks > 0 /\ acks' = acks - 1 /\ pc' = "close"
       \/ pc = "closeAck" /\ UNCHANGED acks /\ pc' = "stopped"
    /\ UNCHANGED <<streamVars, walked, counter, senders, console, sqlQueue,
                   database, sqlDriver>>

AwaitAck ==
    /\ acks > 0 /\ acks' = acks - 1
    /\ \/ pc = "logAck" /\ pc' = "close"
       \/ pc = "closeAck" /\ pc' = "stopped"
    /\ UNCHANGED <<streamVars, walked, counter, senders, console, sqlQueue,
                   database, sqlDriver>>

LogStopped ==
    /\ pc = "stopped" /\ pc' = "return"
    /\ conQueue = <<>>
    /\ conQueue' = <<[tag |-> "Stopped", n |-> walked]>>
    /\ UNCHANGED <<streamVars, walked, counter, senders, outFile, conDriver,
                   sqlite>>

\* inner's scope ends, or unwinds: what it holds is dropped.
DropHandles ==
    /\ \/ pc = "return" /\ pc' = "joinSqlite"
       \/ pc = "panicked" /\ pc' = "dead"
    /\ conSender' = IF conSender = "inner" THEN "gone" ELSE conSender
    /\ sqlSender' = IF sqlSender = "inner" THEN "gone" ELSE sqlSender
    /\ UNCHANGED <<streamVars, walked, counter, console, sqlite>>

JoinSqlite ==
    /\ pc = "joinSqlite" /\ pc' = "joinConsole"
    /\ sqlDriver = "done"
    /\ UNCHANGED <<streamVars, walked, counter, senders, console, sqlite>>

JoinConsole ==
    /\ pc = "joinConsole" /\ pc' = "done"
    /\ conDriver = "done"
    /\ UNCHANGED <<streamVars, walked, counter, senders, console, sqlite>>

Main ==
    \/ Spawn \/ PopHandles \/ LogStarted \/ Walk \/ LogSummary
    \/ CloseScope \/ AwaitAck \/ LogStopped \/ DropHandles
    \/ JoinSqlite \/ JoinConsole

-----------------------------------------------------------------------------
(* The drivers *)

ConsoleWrite ==
    /\ conDriver = "running" /\ conQueue # <<>>
    /\ outFile' = outFile \o conQueue /\ conQueue' = <<>>
    /\ UNCHANGED <<streamVars, pc, walked, counter, senders, conDriver, sqlite>>

ConsoleExit ==
    /\ conDriver = "running" /\ conQueue = <<>> /\ conSender = "gone"
    /\ conDriver' = "done"
    /\ UNCHANGED <<streamVars, pc, walked, counter, senders, conQueue, outFile,
                   sqlite>>

SqliteFlush ==
    /\ sqlDriver = "running" /\ sqlQueue # <<>>
    /\ database' = database \o sqlQueue /\ sqlQueue' = <<>>
    /\ acks' = acks + 1
    /\ UNCHANGED <<streamVars, pc, walked, counter, senders, console, sqlDriver>>

SqliteExit ==
    /\ sqlDriver = "running" /\ sqlQueue = <<>> /\ sqlSender = "gone"
    /\ sqlDriver' = "done"
    /\ UNCHANGED <<streamVars, pc, walked, counter, senders, console, sqlQueue,
                   acks, database>>

Console == ConsoleWrite \/ ConsoleExit
Sqlite == SqliteFlush \/ SqliteExit

PulseNext == Main \/ Console \/ Sqlite

\* Three threads of the operating system, each of which gets to run.
PulseSpec ==
    /\ PulseInit /\ [][PulseNext]_pulseVars
    /\ WF_pulseVars(Main) /\ WF_pulseVars(Console) /\ WF_pulseVars(Sqlite)

-----------------------------------------------------------------------------
(* Properties *)

\* Whoever reads "Stopped n" in the .out file finds both rows of the run in
\* the database, about the same n, and n is what the budget and the file
\* allow (pulse.wat: "one row whose metric_name == :candle and metric_value
\* == N"; no row for a counter never bumped).  A run that died in the reader
\* has neither row and no Stopped.
RunRecorded ==
    /\ \A i \in DOMAIN outFile : outFile[i].tag = "Stopped" =>
          LET n == outFile[i].n
          IN  /\ outFile = <<[tag |-> "Started", n |-> limit],
                             [tag |-> "Stopped", n |-> n]>>
              /\ database = <<[table |-> "log", n |-> n]>> \o
                    (IF n = 0 THEN <<>> ELSE <<[table |-> "metric", n |-> n]>>)
              /\ n = Min({limit, Rows(ends)})
    /\ broken => database = <<>>

\* The program always ends, joins included: every driver sees its sender go,
\* and nothing queued is left behind; only a reader's panic stops it short.
PulseEnds ==
    <>[](/\ pc \in {"done", "dead"}
         /\ conDriver = "done" /\ sqlDriver = "done"
         /\ conQueue = <<>> /\ sqlQueue = <<>>
         /\ pc = "done" => Len(outFile) = 2
         /\ pc = "dead" => badBatch # 0)

=============================================================================
