------------------------------ MODULE VmCache -------------------------------
(***************************************************************************)
(* programs/stdlib/cache.rs of the reference machine: one thread owns an    *)
(* LRU map and polls one bounded(1) request queue per client.  A pass       *)
(* drains every client in index order, serves all the sets it found, then   *)
(* all the gets, then lets the rate gate decide on telemetry.               *)
(*                                                                         *)
(* The driver's map is a sequence of [key, val] records, most recently used *)
(* first, as the lru crate keeps it.                                        *)
(***************************************************************************)
EXTENDS VmLru, FiniteSets

CONSTANTS
    CacheClients,   \* number of handles
    Capacity,       \* of the LRU map
    Keys, Values,
    MaxEmits        \* bound: how often the rate gate is let open

ASSUME CacheAssumption ==
    CacheClients \in Nat \ {0} /\ Capacity \in Nat \ {0} /\ MaxEmits \in Nat

CONSTANT Miss       \* the None of Option<V>
ASSUME MissAssumption == Miss \notin Values

CacheIds == 1..CacheClients

VARIABLES
    caCall,      \* per handle: "idle", "waiting" for its answer, "dropped"
    caReq,       \* request queues
    caResp,      \* response queues
    cache,       \* the driver: control state, closed clients, map
    stats,       \* what has been counted since the last emission
    caTotals,    \* the shared atomic hits and misses
    caEmitted,   \* sum of what has been emitted, and how often
    sure         \* history: per client, keys whose put had been acknowledged
                 \* to somebody when its call began

cacheVars == <<caCall, caReq, caResp, cache, stats, caTotals, caEmitted, sure>>

NoStats == [hits |-> 0, misses |-> 0, sets |-> 0, evictions |-> 0]

Plus(s, t) == [hits |-> s.hits + t.hits, misses |-> s.misses + t.misses,
               sets |-> s.sets + t.sets, evictions |-> s.evictions + t.evictions]

CacheInit ==
    /\ caCall = [c \in CacheIds |-> "idle"]
    /\ caReq = [c \in CacheIds |-> <<>>]
    /\ caResp = [c \in CacheIds |-> <<>>]
    /\ cache = [at |-> "select", closed |-> {}, lru |-> <<>>]
    /\ stats = NoStats
    /\ caTotals = [hits |-> 0, misses |-> 0]
    /\ caEmitted = [stats |-> NoStats, times |-> 0]
    /\ sure = [now |-> {}, asking |-> [c \in CacheIds |-> {}]]

-----------------------------------------------------------------------------
(* The handle *)

CacheAsk(c, kind, items) ==
    /\ caCall[c] = "idle"
    /\ caCall' = [caCall EXCEPT ![c] = "waiting"]
    /\ caReq' = [caReq EXCEPT
                    ![c] = Append(@, [client |-> c, kind |-> kind,
                                      items |-> items])]
    /\ sure' = [sure EXCEPT !.asking[c] =
                    IF kind = "get" THEN sure.now ELSE {e.key : e \in Range(items)}]
    /\ UNCHANGED <<caResp, cache, stats, caTotals, caEmitted>>

BatchGet(c, keys) == CacheAsk(c, "get", keys)

\* An empty batch is not sent.
BatchSet(c, entries) == entries # <<>> /\ CacheAsk(c, "set", entries)

\* The call comes back; after a set its keys are there for all to find.
CacheReturn(c) ==
    /\ caCall[c] = "waiting"
    /\ caResp[c] # <<>>
    /\ caCall' = [caCall EXCEPT ![c] = "idle"]
    /\ caResp' = [caResp EXCEPT ![c] = Tail(@)]
    /\ sure' = [now |-> sure.now \cup (IF Head(caResp[c]) = <<>>
                                       THEN sure.asking[c] ELSE {}),
                asking |-> [sure.asking EXCEPT ![c] = {}]]
    /\ UNCHANGED <<caReq, cache, stats, caTotals, caEmitted>>

CacheDrop(c) ==
    /\ caCall[c] = "idle"
    /\ caCall' = [caCall EXCEPT ![c] = "dropped"]
    /\ UNCHANGED <<caReq, caResp, cache, stats, caTotals, caEmitted, sure>>

-----------------------------------------------------------------------------
(* The driver *)

\* One put on the map.  evictions counts every put made on a full map, the
\* ones that only replace a value included.
PutOne(a, e) ==
    [lru |-> Put(a.lru, e, Capacity),
     stats |-> Plus(a.stats,
                    [hits |-> 0, misses |-> 0, sets |-> 1,
                     evictions |-> IF Len(a.lru) = Capacity THEN 1 ELSE 0]),
     resp |-> a.resp]

PutAll(acc, request) ==
    FoldLeft(LAMBDA a, e : PutOne(a, e), acc, request.items)

Looked(hit) == [hits |-> IF hit THEN 1 ELSE 0, misses |-> IF hit THEN 0 ELSE 1,
                sets |-> 0, evictions |-> 0]

\* What a get of k is answered with.
Answer(lru, k) == <<k, IF Has(lru, k) THEN Find(lru, k).val ELSE Miss>>

\* Variant: an answer takes the entry out of the map.
GetTakes(a, client, k) ==
    [lru |-> Without(a.lru, k),
     stats |-> Plus(a.stats, Looked(Has(a.lru, k))),
     resp |-> [a.resp EXCEPT ![client] = Append(@, Answer(a.lru, k))]]

\* One get: the answer pairs the key with what was found.
Get(a, client, k) ==
    [lru |-> Touch(a.lru, k),
     stats |-> Plus(a.stats, Looked(Has(a.lru, k))),
     resp |-> [a.resp EXCEPT ![client] = Append(@, Answer(a.lru, k))]]

GetAll(acc, request) ==
    FoldLeft(LAMBDA a, k : Get(a, request.client, k), acc, request.items)

\* Whether the drain finds a request of this kind in a client's queue.  A
\* queue never holds two: its client waits for the answer.
Pending(queue, kind) == queue # <<>> /\ Head(queue).kind = kind

CacheAsking == {c \in CacheIds : caReq[c] # <<>>}
CacheLeaving ==
    {c \in CacheIds \ cache.closed : caReq[c] = <<>> /\ caCall[c] = "dropped"}

\* One pass: every set that is pending and its acknowledgement, then every
\* get and its answer.  Whoever sends or drops behind the scan's back is
\* found by the next pass, as if it had acted after this one, and what a
\* client does with its answer cannot reach the driver before that.
Served ==
    LET start == [lru |-> cache.lru, stats |-> stats,
                  resp |-> [c \in CacheIds |-> <<>>]]
        written == FoldLeft(LAMBDA a, queue : IF Pending(queue, "set")
                                              THEN PutAll(a, Head(queue)) ELSE a,
                            start, caReq)
    IN FoldLeft(LAMBDA a, queue : IF Pending(queue, "get")
                                  THEN GetAll(a, Head(queue)) ELSE a,
                written, caReq)

CachePass ==
    /\ cache.at = "select"
    /\ cache.closed # CacheIds
    /\ CacheAsking \cup CacheLeaving \cup cache.closed # {}
    /\ caTotals' =
         [hits |-> caTotals.hits + Served.stats.hits - stats.hits,
          misses |-> caTotals.misses + Served.stats.misses - stats.misses]
    /\ caReq' = [c \in CacheIds |-> <<>>]
    /\ caResp' = [c \in CacheIds |->
                     IF c \in CacheAsking
                     THEN Append(caResp[c], Served.resp[c]) ELSE caResp[c]]
    /\ UNCHANGED <<caCall, sure>>

Passed(next) == [at |-> next, lru |-> Served.lru,
                 closed |-> cache.closed \cup CacheLeaving]

Emission(s) ==
    [stats |-> Plus(caEmitted.stats, s), times |-> caEmitted.times + 1]

\* At the end of a pass the rate gate, a clock, is open or shut, no matter
\* what there is to report.
CachePassShut ==
    /\ CachePass
    /\ stats' = Served.stats
    /\ cache' = Passed("select")
    /\ UNCHANGED caEmitted

\* emit takes the thread into whatever the closure does; "emitting" lasts
\* until that is over.
CachePassEmit ==
    /\ CachePass
    /\ caEmitted.times < MaxEmits
    /\ caEmitted' = Emission(Served.stats)
    /\ stats' = NoStats
    /\ cache' = Passed("emitting")

CacheEmitted ==
    /\ cache.at = "emitting"
    /\ cache' = [cache EXCEPT !.at = "select"]
    /\ UNCHANGED <<caCall, caReq, caResp, stats, caTotals, caEmitted, sure>>

Unreported == stats.hits > 0 \/ stats.misses > 0 \/ stats.sets > 0

\* Every client gone: emit what is left, if anything was served.
CacheLast ==
    /\ cache.at = "select"
    /\ cache.closed = CacheIds
    /\ Unreported
    /\ caEmitted' = Emission(stats)
    /\ stats' = NoStats
    /\ cache' = [cache EXCEPT !.at = "last"]
    /\ UNCHANGED <<caCall, caReq, caResp, caTotals, sure>>

CacheExit ==
    /\ \/ cache.at = "last"
       \/ cache.at = "select" /\ cache.closed = CacheIds /\ ~Unreported
    /\ cache' = [cache EXCEPT !.at = "exit"]
    /\ UNCHANGED <<caCall, caReq, caResp, stats, caTotals, caEmitted, sure>>

-----------------------------------------------------------------------------
(* What the cache promises *)

\* L2 shares work: a key whose put was acknowledged to any client before the
\* call is missing from the answer only if the cache has counted an eviction.
AnswersShared ==
    \A c \in CacheIds : \A n \in DOMAIN caResp[c] :
        \A i \in DOMAIN caResp[c][n] :
            caResp[c][n][i][2] = Miss /\ caResp[c][n][i][1] \in sure.asking[c]
              => caEmitted.stats.evictions + stats.evictions > 0

\* What was emitted and what is still counted are together every hit and
\* miss the shared counters know; a driver that has left its loop has
\* emitted all of it.
CacheTelemetryWhole ==
    /\ caEmitted.stats.hits + stats.hits = caTotals.hits
    /\ caEmitted.stats.misses + stats.misses = caTotals.misses
    /\ cache.at = "exit" => ~Unreported

=============================================================================
