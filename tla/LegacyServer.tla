---------------------------- MODULE LegacyServer ----------------------------
(***************************************************************************)
(* The message core of the older server.Server (src/server/server.go): the *)
(* dispatchers are created by name on first use (useDispatcher), a packet  *)
(* or shunt message picks its dispatcher through the static shuntMatcher,  *)
(* the system dispatcher is started by Run's init goroutine, and shutdown  *)
(* has no CAS: it is run by Run's goroutine on a signal and by the system  *)
(* worker for an Error message with MessageErrorActionShutdown, which the *)
(* transports push when Serve fails.  The dispatcher type is not under     *)
(* src/ and is modelled from spec.md 4.B, as in ShuntDispatch.             *)
(*                                                                         *)
(* Around the core: New's options that shape it, and Run's goroutines: the *)
(* connectionInitHandle goroutine that creates the message pool, the one   *)
(* it spawns to signal messageInitFinish and start the system dispatcher,  *)
(* the transport's serve goroutine, and Run's own goroutine, which waits   *)
(* for messageInitFinish and then for the signal that Shutdown() sends.    *)
(***************************************************************************)
EXTENDS Naturals, Integers, Sequences, FiniteSets
LOCAL INSTANCE SequencesExt

CONSTANTS
    Conns,      \* connections (model values)
    Names,      \* shunt names shuntMatcher can return
    SysName,    \* serverSystemDispatcher
    Matcher,    \* shuntMatcher: Conns -> Names
    MatcherOn,  \* WithShunt was given (shuntMatcher # nil)
    NoConn,     \* message.conn == nil
    NoMsg,      \* an idle worker
    Kinds,      \* the Push* kinds the environment uses
    BufCap,     \* capacity of a dispatcher queue
    DefaultAsyncPoolSize, \* ants pool size when none (or <= 0) is given
    Networks,   \* the network kinds New may be given
    OptionLists, \* the option lists New may be given
    MaxPush,    \* bound on messages pushed from outside
    MaxInst     \* bound on dispatchers ever created

DNames == {SysName} \cup Names
Insts == 1..MaxInst
NoInst == 0

PushKinds == {"Packet", "System", "Async", "ShuntAsync", "Error"}
CallbackKinds == {"AsyncCallback", "ShuntAsyncCallback"}
\* MessageErrorActionNone and MessageErrorActionShutdown
ErrActions == {"None", "Shutdown"}
AllKinds == PushKinds \cup CallbackKinds \cup {"Ticker"}
\* kinds pushMessage routes through shuntMatcher when there is one
ShuntKinds == {"Packet", "ShuntAsync", "ShuntAsyncCallback"}

ASSUME /\ Kinds \subseteq PushKinds /\ SysName \notin Names
       /\ Matcher \in [Conns -> Names] /\ MatcherOn \in BOOLEAN
       /\ BufCap \in Nat \ {0} /\ DefaultAsyncPoolSize \in Nat \ {0}
       /\ MaxPush \in Nat /\ MaxInst \in Nat
       /\ Networks \subseteq {"None", "Tcp", "Kcp", "Http", "Websocket", "GRPC"}

-----------------------------------------------------------------------------
(* New(network, options...) (server.go 33-78).  Of the options, those that *)
(* change the message core: the closures of options.go applied in order to *)
(* the server being built; the others only set transport data.             *)
WithDisableAsyncMessage(srv) == [srv EXCEPT !.disableAnts = TRUE]

WithAsyncPoolSize(srv, size) == [srv EXCEPT !.antsPoolSize = size]

\* autonomy: the ticker's caller pushes each timer as a Ticker message
WithTicker(srv, autonomy) == [srv EXCEPT !.ticker = TRUE, !.tickerAutonomy = autonomy]

ApplyOption(srv, opt) ==
    CASE opt.o = "DisableAsyncMessage" -> WithDisableAsyncMessage(srv)
      [] opt.o = "AsyncPoolSize"       -> WithAsyncPoolSize(srv, opt.size)
      [] opt.o = "Ticker"              -> WithTicker(srv, opt.autonomy)

(* The server New returns: its network, whether slf.ants was created and  *)
(* with how many workers, and whether a ticker pushes Ticker messages.     *)
New(network, opts) ==
    LET srv == FoldLeft(ApplyOption,
                        [disableAnts |-> FALSE, antsPoolSize |-> 0,
                         ticker |-> FALSE, tickerAutonomy |-> FALSE], opts)
    IN [net |-> network,
        antsOn |-> ~srv.disableAnts,
        poolSize |-> IF srv.antsPoolSize <= 0 THEN DefaultAsyncPoolSize
                     ELSE srv.antsPoolSize,
        tickerPush |-> srv.ticker /\ srv.tickerAutonomy]

(* org: the dispatcher that ran the async message a callback answers       *)
(* (a ghost field, NoInst for other messages).                             *)
Msg == [id : 1..MaxPush, t : AllKinds, conn : Conns \cup {NoConn},
        cb : BOOLEAN, org : Insts \cup {NoInst}, act : ErrActions]

VARIABLES
    inst,        \* slf.dispatchers: name -> the dispatcher registered under it
    ninst,       \* dispatchers created so far
    queue,       \* queue[i]: the buffer of dispatcher i
    busy,        \* busy[i]: the message the worker of i is executing
    iclosed,     \* iclosed[i]: dispatcher i was closed
    started,     \* dispatchers whose worker runs (go d.start())
    pending,     \* pushes counted, not yet put
    pool,        \* ants tasks
    antsOn,      \* slf.ants # nil
    counter,     \* slf.messageCounter
    pushed,      \* messages pushed from outside
    isShutdown,  \* slf.isShutdown
    sd,          \* sd[c]: where shutdown, as called by c, is
    crash,       \* "none", or the nil pool a panic that escaped came from
    conf,        \* the server New built (fixed)
    runPc,       \* Run's goroutine: "idle" (not called), "wait", "select",
                 \* "shutdown", "returned"
    initPc,      \* the connectionInitHandle goroutine
    sysPc,       \* the goroutine it spawns: "spawned", "sent", "started"
    servePc,     \* the transport's serve goroutine
    poolOn,      \* slf.messagePool # nil
    isRunning,   \* slf.isRunning
    sig,         \* Shutdown()'s SIGQUIT: "none", "sent", "taken"
    tickerOn     \* slf.ticker exists and is not released

lifeVars == <<conf, runPc, initPc, sysPc, servePc, poolOn, isRunning, sig, tickerOn>>

vars == <<inst, ninst, queue, busy, iclosed, started, pending, pool, antsOn,
          counter, pushed, isShutdown, sd, crash, lifeVars>>

crashed == crash # "none"

Callers == {"signal", "error"}   \* Run's goroutine; the system worker

-----------------------------------------------------------------------------
(* useDispatcher(name): the registered dispatcher, or a new one registered *)
(* now; created tells the caller it is new.                                *)
UseDispatcher(n) ==
    IF inst[n] # NoInst THEN [d |-> inst[n], created |-> FALSE]
                        ELSE [d |-> ninst + 1, created |-> TRUE]

\* the name pushMessage asks useDispatcher for
Target(m) ==
    IF m.t \in ShuntKinds /\ MatcherOn THEN Matcher[m.conn] ELSE SysName

(* The Push* helpers: PushShuntAsync / PushShuntAsyncCallback go through   *)
(* their system variant when there is no shuntMatcher.                     *)
PushedKind(t) ==
    IF ~MatcherOn /\ t = "ShuntAsync" THEN "Async"
    ELSE IF ~MatcherOn /\ t = "ShuntAsyncCallback" THEN "AsyncCallback" ELSE t

(* pushMessage up to the put: useDispatcher under the lock (a new shunt     *)
(* dispatcher is started, a new system one is not), then the count.  The   *)
(* put is a later step.                                                    *)
PushMessage(m, by) ==
    LET u == UseDispatcher(Target(m)) IN
    /\ u.created => ninst < MaxInst
    /\ inst' = [inst EXCEPT ![Target(m)] = u.d]
    /\ ninst' = IF u.created THEN ninst + 1 ELSE ninst
    /\ started' = IF u.created /\ Target(m) # SysName THEN started \cup {u.d}
                  ELSE started
    /\ counter' = counter + 1
    /\ pending' = pending \cup {[m |-> m, d |-> u.d, by |-> by]}

Init ==
    /\ inst = [n \in DNames |-> NoInst]
    /\ ninst = 0
    /\ queue = [i \in Insts |-> <<>>]
    /\ busy = [i \in Insts |-> NoMsg]
    /\ iclosed = [i \in Insts |-> FALSE]
    /\ started = {}
    /\ pending = {}
    /\ pool = {}
    /\ conf \in {New(n, o) : n \in Networks, o \in OptionLists}
    /\ antsOn = conf.antsOn
    /\ counter = 0
    /\ pushed = 0
    /\ isShutdown = FALSE
    /\ sd = [c \in Callers |-> "idle"]
    /\ crash = "none"
    /\ runPc = "idle"
    /\ initPc = "none"
    /\ sysPc = "none"
    /\ servePc = "none"
    /\ poolOn = FALSE
    /\ isRunning = FALSE
    /\ sig = "none"
    /\ tickerOn = conf.tickerPush

-----------------------------------------------------------------------------
(* Push*Message from outside, by handlers and connection readers, which   *)
(* run once the message pool exists; a reader pushes one at a time.       *)
Push ==
    /\ ~crashed
    /\ poolOn
    /\ pushed < MaxPush
    /\ \E t \in Kinds, c \in Conns \cup {NoConn}, cb \in BOOLEAN, a \in ErrActions :
          /\ (c = NoConn) <=> (t \notin ShuntKinds)
          /\ cb => t \in {"Async", "ShuntAsync"}
          /\ a = "Shutdown" => t = "Error"
          /\ ~\E p \in pending : p.by = "env" /\ p.m.conn = c
          /\ PushMessage([id |-> pushed + 1, t |-> PushedKind(t), conn |-> c,
                          cb |-> cb, org |-> NoInst, act |-> a], "env")
    /\ pushed' = pushed + 1
    /\ UNCHANGED <<queue, busy, iclosed, lifeVars, pool, antsOn, isShutdown,
                   sd, crash>>

\* mutant: the system goroutine registers the system dispatcher but never starts it
RunStartSystemNoStart ==
    LET u == UseDispatcher(SysName) IN
    /\ ~crashed /\ sysPc = "sent"
    /\ u.created => ninst < MaxInst
    /\ inst' = [inst EXCEPT ![SysName] = u.d]
    /\ ninst' = IF u.created THEN ninst + 1 ELSE ninst
    /\ sysPc' = "started"
    /\ UNCHANGED <<queue, busy, iclosed, started, pending, pool, antsOn, counter,
                   pushed, isShutdown, sd, crash, conf, runPc, initPc, servePc,
                   poolOn, isRunning, sig, tickerOn>>

(* The goroutine connectionInitHandle spawns, after its send on          *)
(* messageInitFinish: useDispatcher(system), d.start().                   *)
RunStartSystem ==
    LET u == UseDispatcher(SysName) IN
    /\ ~crashed /\ sysPc = "sent"
    /\ u.created => ninst < MaxInst
    /\ inst' = [inst EXCEPT ![SysName] = u.d]
    /\ ninst' = IF u.created THEN ninst + 1 ELSE ninst
    /\ started' = started \cup {u.d}
    /\ sysPc' = "started"
    /\ UNCHANGED <<queue, busy, iclosed, pending, pool, antsOn, counter, pushed,
                   isShutdown, sd, crash, conf, runPc, initPc, servePc, poolOn,
                   isRunning, sig, tickerOn>>

-----------------------------------------------------------------------------
(* Run(addr) (server.go 119-388) and the goroutines it starts.            *)

\* the networks whose connectionInitHandle is given a callback goroutine
InitWithCallback == conf.net \in {"None", "Tcp", "Kcp", "Websocket"}

(* Run called: by network, it starts connectionInitHandle (with or        *)
(* without a callback) and, for gRPC and HTTP, a serve goroutine of its   *)
(* own; HTTP's serve goroutine starts connectionInitHandle itself.  Run's *)
(* goroutine then waits on messageInitFinish.                              *)
RunBegin ==
    /\ ~crashed /\ runPc = "idle"
    /\ runPc' = "wait"
    /\ initPc' = IF conf.net = "Http" THEN "none" ELSE "spawned"
    /\ servePc' = IF conf.net \in {"Http", "GRPC"} THEN "spawned" ELSE "none"
    /\ UNCHANGED <<inst, ninst, queue, busy, iclosed, started, pending, pool,
                   antsOn, counter, pushed, isShutdown, sd, crash, conf, sysPc,
                   poolOn, isRunning, sig, tickerOn>>

\* gRPC's net.Listen or KCP's ListenWithOptions fails: Run returns err
RunListenFail ==
    /\ ~crashed /\ runPc = "idle"
    /\ conf.net \in {"Kcp", "GRPC"}
    /\ runPc' = "returned"
    /\ UNCHANGED <<inst, ninst, queue, busy, iclosed, started, pending, pool,
                   antsOn, counter, pushed, isShutdown, sd, crash, conf, initPc,
                   sysPc, servePc, poolOn, isRunning, sig, tickerOn>>

(* connectionInitHandle: create slf.messagePool under messageLock, then    *)
(* spawn the callback (the transport) and the system goroutine.           *)
InitHandle ==
    /\ ~crashed /\ initPc = "spawned"
    /\ poolOn' = TRUE
    /\ initPc' = "done"
    /\ sysPc' = "spawned"
    /\ servePc' = IF InitWithCallback THEN "spawned" ELSE servePc
    /\ UNCHANGED <<inst, ninst, queue, busy, iclosed, started, pending, pool,
                   antsOn, counter, pushed, isShutdown, sd, crash, conf, runPc,
                   isRunning, sig, tickerOn>>

\* the system goroutine's first statement: messageInitFinish <- struct{}{}
SysSignal ==
    /\ ~crashed /\ sysPc = "spawned"
    /\ sysPc' = "sent"
    /\ UNCHANGED <<inst, ninst, queue, busy, iclosed, started, pending, pool,
                   antsOn, counter, pushed, isShutdown, sd, crash, conf, runPc,
                   initPc, servePc, poolOn, isRunning, sig, tickerOn>>

(* Run's goroutine past <-messageInitFinish: OnStartFinishEvent, a second *)
(* of sleep, OnMessageReadyEvent unless shut down, then the select on     *)
(* systemSignal.                                                           *)
RunReady ==
    /\ ~crashed /\ runPc = "wait"
    /\ sysPc \in {"sent", "started"}
    /\ runPc' = "select"
    /\ UNCHANGED <<inst, ninst, queue, busy, iclosed, started, pending, pool,
                   antsOn, counter, pushed, isShutdown, sd, crash, conf, initPc,
                   sysPc, servePc, poolOn, isRunning, sig, tickerOn>>

(* The serve goroutine (or callback) starts: isRunning = true,            *)
(* OnStartBeforeEvent; HTTP's starts connectionInitHandle; it then serves *)
(* (NetworkNone's callback ends here).                                     *)
ServeStart ==
    /\ ~crashed /\ servePc = "spawned"
    /\ isRunning' = TRUE
    /\ servePc' = IF conf.net = "None" THEN "done" ELSE "serving"
    /\ initPc' = IF conf.net = "Http" THEN "spawned" ELSE initPc
    /\ UNCHANGED <<inst, ninst, queue, busy, iclosed, started, pending, pool,
                   antsOn, counter, pushed, isShutdown, sd, crash, conf, runPc,
                   sysPc, poolOn, sig, tickerOn>>

(* A Push*Message call: messagePool.Get() on a nil slf.messagePool panics *)
(* (no recover in the caller's goroutine); otherwise pushMessage.          *)
PushThroughPool(m, by) ==
    IF poolOn THEN /\ PushMessage(m, by)
                   /\ pushed' = pushed + 1
                   /\ UNCHANGED crash
    ELSE /\ crash' = "nilPool"
         /\ UNCHANGED <<inst, ninst, started, counter, pending, pushed>>

(* Serve / ListenAndServe returns an error: isRunning = false and          *)
(* PushErrorMessage(err, MessageErrorActionShutdown).  KCP's accept loop   *)
(* never returns.                                                          *)
ServeFail ==
    /\ ~crashed /\ servePc = "serving"
    /\ conf.net \in {"Tcp", "GRPC", "Http", "Websocket"}
    /\ pushed < MaxPush
    /\ isRunning' = FALSE
    /\ servePc' = "failed"
    /\ PushThroughPool([id |-> pushed + 1, t |-> "Error", conn |-> NoConn,
                        cb |-> FALSE, org |-> NoInst, act |-> "Shutdown"], "serve")
    /\ UNCHANGED <<queue, busy, iclosed, pool, antsOn, isShutdown, sd, conf,
                   runPc, initPc, sysPc, poolOn, sig, tickerOn>>

(* WithTicker(.., autonomy = true): a timer's caller PushTickerMessage,    *)
(* from the ticker's goroutine, at any time until shutdown releases it.    *)
TickerFire ==
    /\ ~crashed /\ tickerOn
    /\ pushed < MaxPush
    /\ PushThroughPool([id |-> pushed + 1, t |-> "Ticker", conn |-> NoConn,
                        cb |-> FALSE, org |-> NoInst, act |-> "None"], "ticker")
    /\ UNCHANGED <<queue, busy, iclosed, pool, antsOn, isShutdown, sd, lifeVars>>

\* the deferred tail of a pool task
PoolTaskDone(m) ==
    /\ pool' = {x \in pool : x.m # m}
    /\ counter' = counter - 1

\* dispatcher.put: dropped on a closed dispatcher, blocks on a full one.
Put(p) ==
    /\ ~crashed
    /\ p \in pending
    /\ \/ /\ iclosed[p.d]
          /\ UNCHANGED queue
       \/ /\ ~iclosed[p.d]
          /\ Len(queue[p.d]) < BufCap
          /\ queue' = [queue EXCEPT ![p.d] = Append(@, p.m)]
    /\ pending' = pending \ {p}
    /\ IF p.by = "pool"
       THEN \E x \in pool : x.ph = "cb" /\ x.m.id = p.m.id /\ PoolTaskDone(x.m)
       ELSE UNCHANGED <<pool, counter>>
    /\ UNCHANGED <<inst, ninst, busy, iclosed, started, lifeVars, antsOn,
                   pushed, isShutdown, sd, crash>>

\* the worker loop of a started dispatcher takes its next message
Take(i) ==
    /\ ~crashed
    /\ i \in started
    /\ busy[i] = NoMsg /\ queue[i] # <<>>
    /\ busy' = [busy EXCEPT ![i] = Head(queue[i])]
    /\ queue' = [queue EXCEPT ![i] = Tail(@)]
    /\ UNCHANGED <<inst, ninst, iclosed, started, lifeVars, pending, pool,
                   antsOn, counter, pushed, isShutdown, sd, crash>>

SyncDeferred(t) == t # "Async"

\* a synchronous message (packet events, ordinaryHandler, errHandler, and
\* the log.Panic of an Error with MessageErrorActionNone); the deferred
\* recovery counts it done, whether or not the handler panicked
Finish(i) ==
    LET m == busy[i] IN
    /\ ~crashed
    /\ m # NoMsg
    /\ \/ m.t \in {"Packet", "System", "Ticker"} \cup CallbackKinds
       \/ m.t = "Error" /\ m.act = "None"
    /\ counter' = counter - 1
    /\ busy' = [busy EXCEPT ![i] = NoMsg]
    /\ UNCHANGED <<inst, ninst, queue, iclosed, started, lifeVars, pending,
                   pool, antsOn, pushed, isShutdown, sd, crash>>

(* An Error message with MessageErrorActionShutdown: the worker itself     *)
(* calls shutdown(err), which sets isShutdown and starts waiting.          *)
ErrorShutdown(i) ==
    /\ ~crashed
    /\ busy[i] # NoMsg /\ busy[i].t = "Error" /\ busy[i].act = "Shutdown"
    /\ sd["error"] \in {"idle", "done"}
    /\ isShutdown' = TRUE
    /\ sd' = [sd EXCEPT !["error"] = "wait"]
    /\ UNCHANGED <<inst, ninst, queue, busy, iclosed, started, lifeVars,
                   pending, pool, antsOn, counter, pushed, crash>>

\* mutant: ants.Submit that never waits for a free worker
PoolHasRoomUnbounded(p) == TRUE

\* ants.Submit blocks until one of the pool's workers is free
PoolHasRoom(p) == Cardinality(p) < conf.poolSize

(* An async message: Submit on a nil slf.ants (after shutdown) panics,     *)
(* which only the deferred recovery of a ShuntAsync catches; otherwise the *)
(* task is handed to the pool, and for a ShuntAsync the deferred recovery  *)
(* counts the message done as dispatchMessage returns.                     *)
Submit(i) ==
    LET m == busy[i] IN
    /\ ~crashed
    /\ m # NoMsg
    /\ m.t \in {"Async", "ShuntAsync"}
    /\ \/ /\ ~antsOn
          /\ IF SyncDeferred(m.t)
             THEN /\ counter' = counter - 1
                  /\ busy' = [busy EXCEPT ![i] = NoMsg]
                  /\ UNCHANGED crash
             ELSE /\ crash' = "nilAnts"
                  /\ UNCHANGED <<busy, counter>>
          /\ UNCHANGED pool
       \/ /\ antsOn
          /\ PoolHasRoom(pool)
          /\ pool' = pool \cup {[m |-> m, d |-> i, ph |-> "call"]}
          /\ counter' = IF SyncDeferred(m.t) THEN counter - 1 ELSE counter
          /\ busy' = [busy EXCEPT ![i] = NoMsg]
          /\ UNCHANGED crash
    /\ UNCHANGED <<inst, ninst, queue, iclosed, started, lifeVars, pending,
                   antsOn, pushed, isShutdown, sd>>

\* the callback kind a pool task pushes
CallbackKind(m) ==
    IF m.conn = NoConn THEN "AsyncCallback" ELSE PushedKind("ShuntAsyncCallback")

\* the pool task: the caller returns and its callback message is pushed;
\* the put ends the task
CallCallback(x) ==
    /\ ~crashed
    /\ x \in pool /\ x.ph = "call"
    /\ x.m.cb
    /\ PushMessage([x.m EXCEPT !.t = CallbackKind(x.m), !.cb = FALSE, !.org = x.d], "pool")
    /\ pool' = (pool \ {x}) \cup {[x EXCEPT !.ph = "cb"]}
    /\ UNCHANGED <<queue, busy, iclosed, lifeVars, antsOn, pushed, isShutdown,
                   sd, crash>>

\* the pool task: no callback, or the caller panicked and was recovered
CallDone(x) ==
    /\ ~crashed
    /\ x \in pool /\ x.ph = "call"
    /\ PoolTaskDone(x.m)
    /\ UNCHANGED <<inst, ninst, queue, busy, iclosed, started, lifeVars,
                   pending, antsOn, pushed, isShutdown, sd, crash>>

Call(x) == CallCallback(x) \/ CallDone(x)

-----------------------------------------------------------------------------
(* Shutdown(): slf.systemSignal <- SIGQUIT, into the one-slot buffer.     *)
Shutdown ==
    /\ sig = "none"
    /\ sig' = "sent"
    /\ UNCHANGED <<inst, ninst, queue, busy, iclosed, started, pending, pool,
                   antsOn, counter, pushed, isShutdown, sd, crash, conf, runPc,
                   initPc, sysPc, servePc, poolOn, isRunning, tickerOn>>

(* Run's select receives the signal and calls shutdown(nil), which sets   *)
(* isShutdown and starts waiting.                                          *)
RunSignal ==
    /\ ~crashed
    /\ runPc = "select" /\ sig = "sent"
    /\ sig' = "taken"
    /\ runPc' = "shutdown"
    /\ isShutdown' = TRUE
    /\ sd' = [sd EXCEPT !["signal"] = "wait"]
    /\ UNCHANGED <<inst, ninst, queue, busy, iclosed, started, pending, pool,
                   antsOn, counter, pushed, crash, conf, initPc, sysPc, servePc,
                   poolOn, isRunning, tickerOn>>

\* for slf.messageCounter.Load() > 0 { sleep }
WaitOver(k) == k <= 0

(* What shutdown stops (464-491): the gnet engine (gServer is set for    *)
(* every network but HTTP, Websocket and gRPC; only Tcp runs one), the    *)
(* gRPC and the HTTP server, each only if isRunning.  Nothing stops KCP's *)
(* accept loop or Websocket's http.ListenAndServe.                         *)
StopsTransport == isRunning /\ conf.net \in {"Tcp", "GRPC", "Http"}

(* shutdown(nil) ends by sending on closeChannel (513), whose one slot is *)
(* free: only this call sends on it.  Run's goroutine, the one that made  *)
(* the call, then receives, closes the channel (375-377) and returns nil. *)
RunCloseHandshake == runPc' = "returned"

(* The wait loop of shutdown (451-455) sees messageCounter at zero and    *)
(* ends; OnStopEvent (456-458) changes nothing modelled.  pushMessage has *)
(* no shutdown check and the message pool is never closed, so pushes go  *)
(* on being counted and put until the teardown below.                     *)
ShutdownWaitOver(c) ==
    /\ ~crashed
    /\ sd[c] = "wait"
    /\ WaitOver(counter)
    /\ sd' = [sd EXCEPT ![c] = "teardown"]
    /\ UNCHANGED <<inst, ninst, queue, busy, iclosed, started, pending, pool,
                   antsOn, counter, pushed, isShutdown, crash, lifeVars>>

(* The rest of shutdown, past its wait (459-513): stop the gnet engine,   *)
(* release the ticker, release and drop the ants pool, close and delete   *)
(* every registered dispatcher, stop gRPC or HTTP.  Called with an       *)
(* error, it ends in log.Panic, which the Error message's deferred       *)
(* recovery catches and counts the message done; called with nil, it     *)
(* sends on closeChannel, which Run's goroutine receives and returns.     *)
ShutdownFinish(c) ==
    /\ ~crashed
    /\ sd[c] = "teardown"
    /\ sd' = [sd EXCEPT ![c] = "done"]
    /\ tickerOn' = FALSE
    /\ antsOn' = FALSE
    /\ iclosed' = [i \in Insts |-> iclosed[i] \/ \E n \in DNames : inst[n] = i]
    /\ inst' = [n \in DNames |-> NoInst]
    /\ servePc' = IF servePc = "serving" /\ StopsTransport THEN "stopped" ELSE servePc
    /\ IF c = "error"
       THEN /\ \E i \in Insts : /\ busy[i] # NoMsg /\ busy[i].t = "Error"
                                /\ busy[i].act = "Shutdown"
                                /\ busy' = [busy EXCEPT ![i] = NoMsg]
                                /\ counter' = counter - 1
            /\ UNCHANGED runPc
       ELSE /\ RunCloseHandshake
            /\ UNCHANGED <<busy, counter>>
    /\ UNCHANGED <<ninst, queue, started, pending, pool, pushed, isShutdown, crash,
                   conf, initPc, sysPc, poolOn, isRunning, sig>>

\* nothing is left to run
Quiescent ==
    \/ crashed
    \/ /\ pending = {} /\ pool = {}
       /\ \A i \in Insts : busy[i] = NoMsg /\ (queue[i] = <<>> \/ i \notin started)
       /\ \A c \in Callers : sd[c] \in {"idle", "done"}
       /\ initPc # "spawned" /\ sysPc \notin {"spawned", "sent"}
       /\ servePc # "spawned" /\ runPc # "wait"

Idle == Quiescent /\ UNCHANGED vars

Next ==
    \/ Push \/ TickerFire
    \/ RunBegin \/ RunListenFail \/ InitHandle \/ SysSignal \/ RunStartSystem
    \/ RunReady \/ ServeStart \/ ServeFail
    \/ \E p \in pending : Put(p)
    \/ \E i \in Insts : Take(i) \/ Finish(i) \/ ErrorShutdown(i) \/ Submit(i)
    \/ \E x \in pool : Call(x)
    \/ Shutdown \/ RunSignal
    \/ \E c \in Callers : ShutdownWaitOver(c) \/ ShutdownFinish(c)
    \/ Idle

(* As in ShuntDispatch: goroutines (workers, pool tasks, Run's goroutines, *)
(* the shutdown wait loop) keep running; blocked puts and Submits are      *)
(* woken once room appears.  Run's call, pushes, ticks, transport errors   *)
(* and the signal come from outside and are not assumed.                   *)
Fairness ==
    /\ \A i \in Insts : /\ WF_vars(Take(i)) /\ WF_vars(Finish(i))
                        /\ WF_vars(ErrorShutdown(i)) /\ SF_vars(Submit(i))
    /\ SF_vars(\E p \in pending : Put(p))
    /\ WF_vars(\E x \in pool : Call(x))
    /\ WF_vars(InitHandle) /\ WF_vars(SysSignal) /\ WF_vars(RunStartSystem)
    /\ WF_vars(RunReady) /\ WF_vars(ServeStart) /\ WF_vars(RunSignal)
    /\ \A c \in Callers : WF_vars(ShutdownWaitOver(c)) /\ WF_vars(ShutdownFinish(c))

Spec == Init /\ [][Next]_vars /\ Fairness

-----------------------------------------------------------------------------
(* Properties *)

\* the admitted messages not yet done, with the dispatcher each is bound to
Live ==
    {[m |-> p.m, d |-> p.d] : p \in pending}
    \cup UNION {{[m |-> queue[i][k], d |-> i] : k \in DOMAIN queue[i]} : i \in Insts}
    \cup {[m |-> busy[i], d |-> i] : i \in {j \in Insts : busy[j] # NoMsg}}
    \cup {[m |-> x.m, d |-> x.d] : x \in pool}

TypeOK ==
    /\ inst \in [DNames -> Insts \cup {NoInst}]
    /\ ninst \in 0..MaxInst
    /\ queue \in [Insts -> Seq(Msg)]
    /\ busy \in [Insts -> Msg \cup {NoMsg}]
    /\ iclosed \in [Insts -> BOOLEAN]
    /\ started \subseteq 1..ninst
    /\ \A p \in pending : p.m \in Msg /\ p.d \in 1..ninst /\ p.by \in {"env", "pool", "serve", "ticker"}
    /\ \A x \in pool : x.m \in Msg /\ x.d \in 1..ninst /\ x.ph \in {"call", "cb"}
    /\ Cardinality(pool) <= conf.poolSize
    /\ counter \in Int /\ pushed \in 0..MaxPush
    /\ sd \in [Callers -> {"idle", "wait", "teardown", "done"}]
    /\ crash \in {"none", "nilAnts", "nilPool"}
    /\ runPc \in {"idle", "wait", "select", "shutdown", "returned"}
    /\ initPc \in {"none", "spawned", "done"}
    /\ sysPc \in {"none", "spawned", "sent", "started"}
    /\ servePc \in {"none", "spawned", "serving", "done", "failed", "stopped"}
    /\ sig \in {"none", "sent", "taken"}

Awaited(c) == {x \in Live : c = "error" => ~(x.m.t = "Error" /\ x.m.act = "Shutdown")}

(* spec.md 5, shutdown "waits for the in-flight message counter to drain": *)
(* a shutdown leaves its wait only when no other admitted message is still *)
(* in flight.                                                              *)
ShutdownQuiesced ==
    [][\A c \in Callers : sd[c] = "wait" /\ sd'[c] = "teardown" => Awaited(c) = {}]_vars

(* spec.md 8 P3: the callback of a shunt async message is executed on the  *)
(* dispatcher that ran the async message (shuntMatcher is static here).    *)
CallbackOnOrigin ==
    \A x \in Live : x.m.t = "ShuntAsyncCallback" => x.d = x.m.org

(* spec.md 4.E/5: Shutdown() stops the server: once Run has been called  *)
(* and the signal sent, Run gets past messageInitFinish, takes the signal, *)
(* waits out the message counter, closes everything and returns - unless  *)
(* a goroutine crashed or an Error shutdown hangs the system worker       *)
(* (ErrorShutdownCompletes).                                               *)
RunReturns ==
    (sig = "sent" /\ runPc # "idle")
        ~> (runPc = "returned" \/ crashed \/ sd["error"] = "wait")

(* No Push*Message call reaches the nil message pool: every push made by  *)
(* Run's goroutines or the ticker comes after connectionInitHandle has    *)
(* created slf.messagePool.                                                *)
NoNilPoolPush == crash # "nilPool"

(* spec.md 5/7: an Error message with MessageErrorActionShutdown (pushed   *)
(* when a transport's Serve fails) stops the server.                       *)
ErrorShutdownCompletes == sd["error"] = "wait" ~> sd["error"] = "done"

=============================================================================
