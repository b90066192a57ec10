------------------------------ MODULE VmStdlib ------------------------------
(***************************************************************************)
(* The standard library of the reference machine at work: entities (market  *)
(* observers, regime observers, brokers) that encode through the shared     *)
(* cache, flush their metrics to the database and now and then print a      *)
(* line; the cache driver, itself a client of the database through its emit *)
(* closure; and main, which joins the drivers when the entities are done.   *)
(*                                                                         *)
(* Entity e holds cache handle e, database handle e and console handle e;   *)
(* the last database handle is the cache driver's, the last console handle  *)
(* main's.                                                                  *)
(***************************************************************************)
EXTENDS VmDatabase, VmCache, VmConsole, VmEncode

CONSTANTS
    Inputs,      \* per entity: the thoughts its inputs make it encode
    SayEvery     \* inputs between two lines of an entity, 1000 in the code

Entity == 1..CacheClients
CacheTx == DbClients
MainHandle == Producers

ASSUME StdlibAssumption ==
    /\ DbClients = CacheClients + 1
    /\ Producers = CacheClients + 1
    /\ Inputs \in [Entity -> Seq(Node \ Leaf)]
    /\ Keys = Node \ Leaf
    /\ Values = Node \cup {Garbled}
    /\ SayEvery \in Nat \ {0}

VARIABLES
    at,        \* per entity: where its loop is
    round,     \* inputs it has worked off
    l1,        \* its L1 map
    toSet,     \* what it has computed and not yet installed in L2
    astray,    \* history: whether encode has ever returned a wrong vector
    main,      \* "joinEntities", "joinCache", "joinDb", "joinConsole", "done"
    joined     \* entities main has joined

entityVars == <<at, round, l1, toSet, astray>>
mainVars == <<main, joined>>
vars == <<entityVars, mainVars, dbVars, cacheVars, consoleVars>>

Init ==
    /\ DbInit /\ CacheInit /\ ConsoleInit
    /\ at = [e \in Entity |-> "input"]
    /\ round = [e \in Entity |-> 0]
    /\ l1 = [e \in Entity |-> <<>>]
    /\ toSet = [e \in Entity |-> <<>>]
    /\ astray = FALSE
    /\ main = "joinEntities" /\ joined = 0

-----------------------------------------------------------------------------
(* An entity *)

\* The thought of the input e is working on.
Thought(e) == Inputs[e][round[e]]

\* Phases 3 and 4 up to the batch_set, with L1 as it is after phase 2.  With
\* nothing computed there is nothing to install and the metrics are next.
Compute(e, n, map) ==
    LET result == Computed(map, n) IN
    /\ l1' = [l1 EXCEPT ![e] = result.l1]
    /\ toSet' = [toSet EXCEPT ![e] = result.computed]
    /\ astray' = (astray \/ result.vector # n)
    /\ IF result.computed = <<>>
       THEN DbSend(e) /\ at' = [at EXCEPT ![e] = "flushed"]
       ELSE UNCHANGED dbVars /\ at' = [at EXCEPT ![e] = "set"]

\* An input arrives; encode walks it and asks L2 for what L1 misses.
Begin(e) ==
    /\ at[e] = "input"
    /\ round[e] < Len(Inputs[e])
    /\ round' = [round EXCEPT ![e] = @ + 1]
    /\ LET n == Inputs[e][round[e] + 1]
           walk == Misses(l1[e], n)
       IN IF walk.keys = <<>>
          THEN Compute(e, n, walk.l1) /\ UNCHANGED cacheVars
          ELSE /\ BatchGet(e, walk.keys)
               /\ l1' = [l1 EXCEPT ![e] = walk.l1]
               /\ at' = [at EXCEPT ![e] = "got"]
               /\ UNCHANGED <<toSet, astray, dbVars>>
    /\ UNCHANGED <<mainVars, consoleVars>>

Got(e) ==
    /\ at[e] = "got"
    /\ CacheReturn(e)
    /\ Compute(e, Thought(e), Populate(l1[e], Head(caResp[e]), Miss))
    /\ UNCHANGED <<round, mainVars, consoleVars>>

Install(e) ==
    /\ at[e] = "set"
    /\ BatchSet(e, toSet[e])
    /\ toSet' = [toSet EXCEPT ![e] = <<>>]
    /\ at' = [at EXCEPT ![e] = "acked"]
    /\ UNCHANGED <<round, l1, astray, mainVars, dbVars, consoleVars>>

\* The set is acknowledged; flush_metrics sends the round's rows.
FlushMetrics(e) ==
    /\ at[e] = "acked"
    /\ CacheReturn(e)
    /\ DbSend(e)
    /\ at' = [at EXCEPT ![e] = "flushed"]
    /\ UNCHANGED <<round, l1, toSet, astray, mainVars, consoleVars>>

\* batch_send comes back: with its acknowledgement, without one if the
\* driver has gone, at once if it was gone before.  Every SayEvery-th input
\* then prints a line.
Flushed(e) ==
    /\ at[e] = "flushed"
    /\ IF dbCall[e] = "waiting" THEN DbReturn(e) ELSE UNCHANGED dbVars
    /\ IF round[e] % SayEvery = 0 THEN Say(e, "out") ELSE UNCHANGED consoleVars
    /\ at' = [at EXCEPT ![e] = "input"]
    /\ UNCHANGED <<round, l1, toSet, astray, mainVars, cacheVars>>

\* The input side has gone: the thread returns and drops its handles.
Finish(e) ==
    /\ at[e] = "input" /\ round[e] = Len(Inputs[e])
    /\ at' = [at EXCEPT ![e] = "gone"]
    /\ CacheDrop(e) /\ DbDrop(e) /\ ConsoleDrop(e)
    /\ UNCHANGED <<round, l1, toSet, astray, mainVars>>

EntityStep(e) ==
    \/ Begin(e) \/ Got(e) \/ Install(e)
    \/ FlushMetrics(e) \/ Flushed(e) \/ Finish(e)

-----------------------------------------------------------------------------
(* The drivers and main *)

\* The cache's emit closure: flush_metrics on the cache's own handle.  The
\* cache thread is inside batch_send until the database lets it go.
Emit ==
    /\ CachePassEmit \/ CacheLast
    /\ DbSend(CacheTx)
    /\ UNCHANGED <<entityVars, mainVars, consoleVars>>

EmitReturns ==
    /\ cache.at \in {"emitting", "last"}
    /\ DbReturn(CacheTx)
    /\ UNCHANGED <<entityVars, mainVars, cacheVars, consoleVars>>

\* Variant: the thread leaves and the closure stays.
AfterEmitHolding ==
    /\ dbCall[CacheTx] = "idle"
    /\ CacheEmitted \/ CacheExit
    /\ UNCHANGED <<entityVars, mainVars, dbVars, consoleVars>>

\* Back from the closure; leaving the thread drops the closure and with it
\* the database handle it holds.
AfterEmit ==
    /\ dbCall[CacheTx] = "idle"
    /\ \/ CacheEmitted /\ UNCHANGED dbVars
       \/ CacheExit /\ DbDrop(CacheTx)
    /\ UNCHANGED <<entityVars, mainVars, consoleVars>>

CacheLocal ==
    CachePassShut /\ UNCHANGED <<entityVars, mainVars, dbVars, consoleVars>>

CacheThread == CacheLocal \/ Emit \/ EmitReturns \/ AfterEmit

DbThread == DbDriver /\ UNCHANGED <<entityVars, mainVars, cacheVars, consoleVars>>

MailboxThread == ConsoleFanIn /\ UNCHANGED <<entityVars, mainVars, cacheVars, dbVars>>

ConsoleThread ==
    ConsoleDriver /\ UNCHANGED <<entityVars, mainVars, cacheVars, dbVars>>

\* Main joins the entities one by one, with a line on stdout for each that
\* returned and on stderr for each that panicked; then the drivers, cache
\* before database, its own console handle going before the last.
Main ==
    /\ \/ /\ main = "joinEntities" /\ joined < CacheClients
          /\ at[joined + 1] = "gone"
          /\ \E stream \in {"out", "err"} : Say(MainHandle, stream)
          /\ joined' = joined + 1 /\ UNCHANGED main
       \/ /\ main = "joinEntities" /\ joined = CacheClients
          /\ main' = "joinCache" /\ UNCHANGED <<joined, consoleVars>>
       \/ /\ main = "joinCache" /\ cache.at = "exit"
          /\ main' = "joinDb" /\ UNCHANGED <<joined, consoleVars>>
       \/ /\ main = "joinDb" /\ DbGone
          /\ main' = "joinConsole" /\ ConsoleDrop(MainHandle)
          /\ UNCHANGED joined
       \/ /\ main = "joinConsole" /\ conAt = "exit"
          /\ main' = "done" /\ UNCHANGED <<joined, consoleVars>>
    /\ UNCHANGED <<entityVars, cacheVars, dbVars>>

Done == main = "done" /\ UNCHANGED vars

Next ==
    \/ \E e \in Entity : EntityStep(e)
    \/ CacheThread \/ DbThread \/ MailboxThread \/ ConsoleThread
    \/ Main
    \/ Done

\* Where a thread can go on.
EntityCan(e) ==
    \/ at[e] \in {"input", "set"}
    \/ at[e] \in {"got", "acked"} /\ caResp[e] # <<>>
    \/ /\ at[e] = "flushed"
       /\ dbCall[e] = "waiting" => dbAck[e] > 0 \/ DbGone
       /\ round[e] % SayEvery = 0 => wire[e, "out"] = <<>>

CacheCan ==
    \/ /\ cache.at = "select"
       /\ \/ CacheAsking \cup CacheLeaving # {}
          \/ cache.closed # {} /\ caEmitted.times < MaxEmits
          \/ cache.closed = CacheIds
    \/ /\ cache.at \in {"emitting", "last"}
       /\ dbCall[CacheTx] = "waiting" => dbAck[CacheTx] > 0 \/ DbGone

\* Each thread is scheduled.  For the two whose steps compute a lot weak
\* fairness is written out over the guards above.
Fairness ==
    /\ \A e \in Entity : []<>~EntityCan(e) \/ []<><<EntityStep(e)>>_vars
    /\ []<>~CacheCan \/ []<><<CacheThread>>_vars
    /\ WF_vars(DbThread)
    /\ WF_vars(MailboxThread) /\ WF_vars(ConsoleThread)
    /\ WF_vars(Main)

Spec == Init /\ [][Next]_vars /\ Fairness

-----------------------------------------------------------------------------
(* What the library promises to the machine *)

\* Whatever was in L1, in L2 or in flight, and whoever put it there, encode
\* returns the thought's own vector.
EncodesTrue == ~astray

\* Every encode, flush and report comes back, whether or not the database has
\* died: the entities finish, and main ends with every driver joined.
MainEnds == <>(main = "done")

\* The counters that were emitted, the cache's and the database's, leave
\* nothing out: at the end what was told is what was done.
TelemetryWhole ==
    /\ CacheTelemetryWhole
    /\ dbEmitted.rows + db.rows
         = SumFunction([c \in DbIds |-> Len(dbTable[c])])
    /\ db.at = "exit" => db.rows = 0

=============================================================================
