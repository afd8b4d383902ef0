--------------------------- MODULE ShuntDispatch ---------------------------
(***************************************************************************)
(* The message dispatch core of server.Server (src/unnamed/part_002): the  *)
(* shunt registry (dispatchers, dispatcherMember, currDispatcher), the     *)
(* routing in pushMessage, the per-dispatcher worker running              *)
(* dispatchMessage, the ants pool running the caller phase of async        *)
(* messages, the unique-key coalescing, UseShunt / ReleaseShunt and        *)
(* shutdown.  The dispatcher type itself (put, start, close, unique,       *)
(* antiUnique, transfer) is not under src/ and is modelled from spec.md    *)
(* section 4.B.                                                            *)
(*                                                                         *)
(* Every goroutine step that another goroutine can observe is an action:  *)
(* a push is routed and counted in one step and put in a later one (the   *)
(* dispatcher read under RLock can be stale by then); a worker takes a    *)
(* message and finishes it in separate steps; a pool task runs its caller *)
(* and then pushes its callback.                                          *)
(***************************************************************************)
EXTENDS Naturals, Sequences, FiniteSets

CONSTANTS
    Conns,      \* connections (model values)
    Names,      \* shunt names a handler may pass to UseShunt (never "system")
    Keys,       \* unique keys of the Unique* messages
    NoConn,     \* message.conn == nil
    NoKey,      \* message.name of a message that is not unique
    NoDisp,     \* an absent map entry
    NoMsg,      \* a worker that is not executing a message
    Kinds,      \* the Push* kinds the environment uses
    BufCap,     \* dispatcherBufferSize: capacity of a dispatcher queue
    PoolSize,   \* antsPoolSize: workers of the async pool
    MaxPush,    \* bound on the messages pushed from outside
    MaxDisp     \* bound on shunt dispatchers ever created

SysD == 0                       \* srv.systemDispatcher
DispIds == 0 .. MaxDisp         \* SysD and the shunt dispatchers, by creation order

AsyncKinds == {"Async", "ShuntAsync", "UniqueAsync", "UniqueShuntAsync"}
UniqueKinds == {"UniqueAsync", "UniqueShuntAsync"}
UniqueCallbackKinds == {"UniqueAsyncCallback", "UniqueShuntAsyncCallback"}
CallbackKinds == {"AsyncCallback", "ShuntAsyncCallback"} \cup UniqueCallbackKinds
\* "Packet" stands for Packet, Shunt and ShuntTicker, "System" for System and
\* Ticker: each group is routed and executed by the same code.
PushKinds == {"Packet", "System"} \cup AsyncKinds
AllKinds == PushKinds \cup CallbackKinds
\* The kinds pushMessage routes through getConnDispatcher.
ConnRouted == {"Packet", "ShuntAsync", "UniqueShuntAsync",
               "ShuntAsyncCallback", "UniqueShuntAsyncCallback"}

ASSUME /\ Kinds \subseteq PushKinds
       /\ BufCap \in Nat \ {0} /\ PoolSize \in Nat \ {0}
       /\ MaxPush \in Nat /\ MaxDisp \in Nat

(* A message: id numbers the outside push it descends from; org is the    *)
(* dispatcher that ran the async message a callback answers (a ghost      *)
(* field, NoDisp for every other message).                                *)
Msg == [id : 1 .. MaxPush, t : AllKinds, conn : Conns \cup {NoConn},
        key : Keys \cup {NoKey}, cb : BOOLEAN, org : DispIds \cup {NoDisp}]

VARIABLES
    dispatchers,  \* srv.dispatchers: shunt name -> dispatcher
    member,       \* srv.dispatcherMember: shunt name -> connections
    curr,         \* srv.currDispatcher: connection -> dispatcher
    dname,        \* dname[d]: the name shunt dispatcher d was created with
    queue,        \* the FIFO buffer of each dispatcher
    busy,         \* the message each dispatcher's worker is executing
    dclosed,      \* the close state of each dispatcher
    uniq,         \* the in-flight unique keys of each dispatcher
    pending,      \* pushes routed and counted, not yet put
    pool,         \* tasks of the ants pool
    counter,      \* srv.messageCounter
    pushed,       \* messages pushed from outside so far
    srvClosed,    \* srv.closed, set by the CAS at the top of shutdown
    stopped,      \* shutdown has passed its wait and released everything
    crashed,      \* a panic escaped a goroutine: the process is gone
    announced     \* shunts announced by ShuntChannelCreated and not by ShuntChannelClosed

vars == <<dispatchers, member, curr, dname, queue, busy, dclosed, uniq,
          pending, pool, counter, pushed, srvClosed, stopped, crashed, announced>>

Allocated == 0 .. Len(dname)

-----------------------------------------------------------------------------
(* dispatcher operations (spec.md 4.B) *)

\* unique(key): the key was already in flight (test), else record it (set).
Unique(u, d, k) == [u EXCEPT ![d] = @ \cup {k}]

\* antiUnique(key)
AntiUnique(u, d, k) == [u EXCEPT ![d] = @ \ {k}]

\* transfer(other): the queued items of d move, in order, behind those of o.
Transfer(q, d, o) == [q EXCEPT ![o] = @ \o q[d], ![d] = <<>>]

-----------------------------------------------------------------------------
(* routing *)

\* getConnDispatcher: a connection without a current shunt uses the system one.
GetConnDispatcher(c) ==
    IF c = NoConn \/ curr[c] = NoDisp THEN SysD ELSE curr[c]

\* the dispatcher pushMessage selects for a message
Route(m) == IF m.t \in ConnRouted THEN GetConnDispatcher(m.conn) ELSE SysD

\* pushMessage up to the put: a unique message whose key is in flight on its
\* dispatcher is released; any other is counted (hitMessageStatistics) and
\* handed to the put.  by tells an outside producer from a pool task.
PushMessage(m, by) ==
    LET d == Route(m) IN
    IF m.t \in UniqueKinds /\ m.key \in uniq[d]
    THEN UNCHANGED <<uniq, counter, pending>>
    ELSE /\ uniq' = IF m.t \in UniqueKinds THEN Unique(uniq, d, m.key) ELSE uniq
         /\ counter' = counter + 1
         /\ pending' = pending \cup {[m |-> m, d |-> d, by |-> by]}

\* the callback message the pool task pushes for an async message
CallbackKind(m) ==
    IF m.conn = NoConn
    THEN IF m.t = "UniqueAsync" THEN "UniqueAsyncCallback" ELSE "AsyncCallback"
    ELSE IF m.t = "UniqueShuntAsync" THEN "UniqueShuntAsyncCallback"
                                     ELSE "ShuntAsyncCallback"

-----------------------------------------------------------------------------
Init ==
    /\ dispatchers = [n \in Names |-> NoDisp]
    /\ member = [n \in Names |-> {}]
    /\ curr = [c \in Conns |-> NoDisp]
    /\ dname = <<>>
    /\ queue = [d \in DispIds |-> <<>>]
    /\ busy = [d \in DispIds |-> NoMsg]
    /\ dclosed = [d \in DispIds |-> FALSE]
    /\ uniq = [d \in DispIds |-> {}]
    /\ pending = {}
    /\ pool = {}
    /\ counter = 0
    /\ pushed = 0
    /\ srvClosed = FALSE
    /\ stopped = FALSE
    /\ crashed = FALSE
    /\ announced = {}

-----------------------------------------------------------------------------
(* Push*Message from an outside goroutine: a connection's reader pushes   *)
(* its packets one after the other, so a source has one push in progress. *)
Push ==
    /\ ~crashed
    /\ pushed < MaxPush
    /\ \E t \in Kinds, c \in Conns \cup {NoConn}, k \in Keys \cup {NoKey},
          cb \in BOOLEAN :
          /\ (c = NoConn) <=> (t \notin ConnRouted)
          /\ (k = NoKey) <=> (t \notin UniqueKinds)
          /\ cb => t \in AsyncKinds
          /\ ~\E p \in pending : p.by = "env" /\ p.m.conn = c
          /\ PushMessage([id |-> pushed + 1, t |-> t, conn |-> c, key |-> k,
                          cb |-> cb, org |-> NoDisp], "env")
    /\ pushed' = pushed + 1
    /\ UNCHANGED <<dispatchers, member, curr, dname, queue, busy, dclosed,
                   pool, srvClosed, stopped, crashed, announced>>

\* mutant: the async message is counted done twice, as if the worker's
\* deferred recovery also ran for async kinds
PoolTaskDoneTwice(m) ==
    /\ pool' = {x \in pool : x.m # m}
    /\ counter' = counter - 2

\* mutant: the pool task's defer forgets messageCounter.Add(-1)
PoolTaskDoneUncounted(m) ==
    /\ pool' = {x \in pool : x.m # m}
    /\ counter' = counter

\* the deferred tail of a pool task: count the async message as done
PoolTaskDone(m) ==
    /\ pool' = {x \in pool : x.m # m}
    /\ counter' = counter - 1

\* dispatcher.put: dropped on a closed dispatcher, blocks on a full one.  A
\* pool task returns from its callback push and runs its deferred tail.
Put(p) ==
    /\ ~crashed
    /\ p \in pending
    /\ \/ /\ dclosed[p.d]
          /\ UNCHANGED queue
       \/ /\ ~dclosed[p.d]
          /\ Len(queue[p.d]) < BufCap
          /\ queue' = [queue EXCEPT ![p.d] = Append(@, p.m)]
    /\ pending' = pending \ {p}
    /\ IF p.by = "pool"
       THEN \E x \in pool : x.ph = "cb" /\ x.m.id = p.m.id /\ PoolTaskDone(x.m)
       ELSE UNCHANGED <<pool, counter>>
    /\ UNCHANGED <<dispatchers, member, curr, dname, busy, dclosed, uniq, pushed,
                   srvClosed, stopped, crashed, announced>>

\* the worker loop of dispatcher.start takes the next message
Take(d) ==
    /\ ~crashed
    /\ d \in Allocated
    /\ busy[d] = NoMsg
    /\ queue[d] # <<>>
    /\ busy' = [busy EXCEPT ![d] = Head(queue[d])]
    /\ queue' = [queue EXCEPT ![d] = Tail(@)]
    /\ UNCHANGED <<dispatchers, member, curr, dname, dclosed, uniq, pending, pool,
                   counter, pushed, srvClosed, stopped, crashed, announced>>

\* mutant: only the unique shunt callback releases its key
ReleaseCallbackKeyShuntOnly(u, d, m) ==
    IF m.t = "UniqueShuntAsyncCallback" THEN AntiUnique(u, d, m.key) ELSE u

\* the deferred antiUnique of a unique callback
ReleaseCallbackKey(u, d, m) ==
    IF m.t \in UniqueCallbackKinds THEN AntiUnique(u, d, m.key) ELSE u

\* dispatchMessage of a synchronous message: the handler (packet events,
\* ordinaryHandler or errHandler), then the deferred recovery, which
\* releases the key of a unique callback and counts the message done; a
\* panicking handler reaches the same defer.
Finish(d) ==
    LET m == busy[d] IN
    /\ ~crashed
    /\ m # NoMsg
    /\ m.t \notin AsyncKinds
    /\ uniq' = ReleaseCallbackKey(uniq, d, m)
    /\ counter' = counter - 1
    /\ busy' = [busy EXCEPT ![d] = NoMsg]
    /\ UNCHANGED <<dispatchers, member, curr, dname, queue, dclosed, pending, pool,
                   pushed, srvClosed, stopped, crashed, announced>>

\* mutant: ants.Submit that never waits for a free worker
PoolHasRoomUnbounded(p) == TRUE

\* ants.Submit blocks until one of the PoolSize workers is free
PoolHasRoom(p) == Cardinality(p) < PoolSize

\* dispatchMessage of an async message: ants.Submit blocks while the pool is
\* full; once shutdown has released the pool it fails and the panic leaves
\* dispatchMessage, which defers no recovery for async kinds.
Submit(d) ==
    LET m == busy[d] IN
    /\ ~crashed
    /\ m # NoMsg
    /\ m.t \in AsyncKinds
    /\ \/ /\ stopped
          /\ crashed' = TRUE
          /\ UNCHANGED <<busy, pool>>
       \/ /\ ~stopped
          /\ PoolHasRoom(pool)
          /\ pool' = pool \cup {[m |-> m, d |-> d, ph |-> "call"]}
          /\ busy' = [busy EXCEPT ![d] = NoMsg]
          /\ UNCHANGED crashed
    /\ UNCHANGED <<dispatchers, member, curr, dname, queue, dclosed, uniq, pending,
                   counter, pushed, srvClosed, stopped, announced>>

\* mutant: the recovery of a panicking caller forgets antiUnique
CallPanicKeepKey(x) ==
    /\ ~crashed
    /\ x \in pool /\ x.ph = "call"
    /\ PoolTaskDone(x.m)
    /\ UNCHANGED <<dispatchers, member, curr, dname, queue, busy, dclosed, uniq,
                   pending, pushed, srvClosed, stopped, crashed, announced>>

\* the pool task: the caller (exceptionHandler) panics; the recovery
\* releases the key of a unique message and counts the message done.
CallPanic(x) ==
    /\ ~crashed
    /\ x \in pool /\ x.ph = "call"
    /\ uniq' = IF x.m.t \in UniqueKinds THEN AntiUnique(uniq, x.d, x.m.key) ELSE uniq
    /\ PoolTaskDone(x.m)
    /\ UNCHANGED <<dispatchers, member, curr, dname, queue, busy, dclosed,
                   pending, pushed, srvClosed, stopped, crashed, announced>>

\* the pool task: the caller returns and the callback message is pushed
\* (the matching Push*CallbackMessage); Put ends the task.
CallCallback(x) ==
    /\ ~crashed
    /\ x \in pool /\ x.ph = "call"
    /\ x.m.cb
    /\ PushMessage([x.m EXCEPT !.t = CallbackKind(x.m), !.cb = FALSE, !.org = x.d], "pool")
    /\ pool' = (pool \ {x}) \cup {[x EXCEPT !.ph = "cb"]}
    /\ UNCHANGED <<dispatchers, member, curr, dname, queue, busy, dclosed, pushed,
                   srvClosed, stopped, crashed, announced>>

\* the pool task: the caller returns and there is no callback: the key is
\* released on the dispatcher that ran the message, which is counted done.
CallNoCallback(x) ==
    /\ ~crashed
    /\ x \in pool /\ x.ph = "call"
    /\ ~x.m.cb
    /\ uniq' = AntiUnique(uniq, x.d, x.m.key)
    /\ PoolTaskDone(x.m)
    /\ UNCHANGED <<dispatchers, member, curr, dname, queue, busy, dclosed,
                   pending, pushed, srvClosed, stopped, crashed, announced>>

Call(x) == CallPanic(x) \/ CallCallback(x) \/ CallNoCallback(x)

-----------------------------------------------------------------------------
(* shunt management, each under the dispatcherLock write lock *)

\* mutant: the old shunt is torn down even while other connections use it
ShuntEmptiedIgnoringMembers(cur, left) == cur # NoDisp

\* the previous shunt of the connection is left without members
ShuntEmptied(cur, left) == cur # NoDisp /\ left = {}

\* UseShunt(conn, name)
UseShunt(c, n) ==
    LET exist == dispatchers[n] # NoDisp
        d == IF exist THEN dispatchers[n] ELSE Len(dname) + 1
        cur == curr[c]
        ann == IF exist THEN announced ELSE announced \cup {n}
        disp == [dispatchers EXCEPT ![n] = d]
        old == IF cur = NoDisp THEN n ELSE dname[cur]
        left == member[old] \ {c}
        teardown == ShuntEmptied(cur, left)
    IN
    /\ ~crashed
    /\ exist \/ Len(dname) < MaxDisp
    /\ dname' = IF exist THEN dname ELSE Append(dname, n)
    /\ IF cur # NoDisp /\ old = n
       THEN /\ dispatchers' = disp
            /\ announced' = ann
            /\ UNCHANGED <<member, curr, queue, dclosed>>
       ELSE /\ dispatchers' = IF teardown THEN [disp EXCEPT ![old] = NoDisp] ELSE disp
            /\ queue' = IF teardown THEN Transfer(queue, cur, d) ELSE queue
            \* OnShuntChannelClosedEvent(d.name): the name of the new shunt
            /\ announced' = IF teardown THEN ann \ {n} ELSE ann
            /\ dclosed' = IF teardown THEN [dclosed EXCEPT ![cur] = TRUE] ELSE dclosed
            /\ curr' = [curr EXCEPT ![c] = d]
            /\ member' = IF cur = NoDisp
                         THEN [member EXCEPT ![n] = @ \cup {c}]
                         ELSE [member EXCEPT ![old] = left, ![n] = @ \cup {c}]
    /\ UNCHANGED <<busy, uniq, pending, pool, counter, pushed, srvClosed, stopped,
                   crashed>>

\* ReleaseShunt(conn) = releaseDispatcher(conn)
ReleaseShunt(c) ==
    LET d == curr[c]
        n == dname[d]
        left == member[n] \ {c}
    IN
    /\ ~crashed
    /\ d # NoDisp
    /\ member' = [member EXCEPT ![n] = left]
    /\ IF left = {}
       THEN /\ announced' = announced \ {n}
            /\ dclosed' = [dclosed EXCEPT ![d] = TRUE]
            /\ dispatchers' = [dispatchers EXCEPT ![n] = NoDisp]
       ELSE UNCHANGED <<announced, dclosed, dispatchers>>
    /\ curr' = [curr EXCEPT ![c] = NoDisp]
    /\ UNCHANGED <<dname, queue, busy, uniq, pending, pool, counter, pushed,
                   srvClosed, stopped, crashed>>

-----------------------------------------------------------------------------
(* shutdown *)

\* the CAS on srv.closed; a second shutdown returns at once
ShutdownBegin ==
    /\ ~crashed
    /\ ~srvClosed
    /\ srvClosed' = TRUE
    /\ UNCHANGED <<dispatchers, member, curr, dname, queue, busy, dclosed, uniq,
                   pending, pool, counter, pushed, stopped, crashed, announced>>

\* once messageCounter reads 0: cancel, release the ants pool, and close and
\* delete every dispatcher of the map (the system dispatcher is not in it)
ShutdownFinish ==
    LET live == {n \in Names : dispatchers[n] # NoDisp} IN
    /\ ~crashed
    /\ srvClosed /\ ~stopped
    /\ counter = 0
    /\ stopped' = TRUE
    /\ announced' = announced \ live
    /\ dclosed' = [d \in DispIds |->
                      dclosed[d] \/ \E n \in live : dispatchers[n] = d]
    /\ dispatchers' = [n \in Names |-> NoDisp]
    /\ UNCHANGED <<member, curr, dname, queue, busy, uniq, pending, pool, counter,
                   pushed, srvClosed, crashed>>

\* nothing is left to run: the process idles until it is stopped
Quiescent ==
    \/ crashed
    \/ /\ pending = {} /\ pool = {}
       /\ \A d \in DispIds : busy[d] = NoMsg /\ queue[d] = <<>>

Idle == Quiescent /\ UNCHANGED vars

-----------------------------------------------------------------------------
Next ==
    \/ Push
    \/ \E p \in pending : Put(p)
    \/ \E d \in DispIds : Take(d) \/ Finish(d) \/ Submit(d)
    \/ \E x \in pool : Call(x)
    \/ \E c \in Conns, n \in Names : UseShunt(c, n)
    \/ \E c \in Conns : ReleaseShunt(c)
    \/ ShutdownBegin
    \/ ShutdownFinish
    \/ Idle

(* Workers, pool tasks and blocked puts are goroutines that keep running:  *)
(* weak fairness for each.  A put blocked on a full channel and a Submit   *)
(* blocked on a full pool are woken by the Go runtime and by ants'         *)
(* condition variable once room appears: strong fairness.  Pushes are      *)
(* bounded, so progress of some put or some pool task is progress of each. *)
(* Pushes, shunt changes and the shutdown request come from outside and    *)
(* are not fair.                                                           *)
Fairness ==
    /\ \A d \in DispIds : WF_vars(Take(d)) /\ WF_vars(Finish(d)) /\ SF_vars(Submit(d))
    /\ SF_vars(\E p \in pending : Put(p))
    /\ WF_vars(\E x \in pool : Call(x))
    /\ WF_vars(ShutdownFinish)

Spec == Init /\ [][Next]_vars /\ Fairness

-----------------------------------------------------------------------------
(* Properties *)

\* the admitted messages not yet done, each with the dispatcher it is bound to
Live ==
    {[m |-> p.m, d |-> p.d] : p \in pending}
    \cup UNION {{[m |-> queue[d][i], d |-> d] : i \in DOMAIN queue[d]} : d \in DispIds}
    \cup {[m |-> busy[d], d |-> d] : d \in {e \in DispIds : busy[e] # NoMsg}}
    \cup {[m |-> x.m, d |-> x.d] : x \in pool}

TypeOK ==
    /\ dispatchers \in [Names -> DispIds \cup {NoDisp}]
    /\ member \in [Names -> SUBSET Conns]
    /\ curr \in [Conns -> DispIds \cup {NoDisp}]
    /\ dname \in Seq(Names) /\ Len(dname) <= MaxDisp
    /\ queue \in [DispIds -> Seq(Msg)]
    /\ busy \in [DispIds -> Msg \cup {NoMsg}]
    /\ dclosed \in [DispIds -> BOOLEAN]
    /\ uniq \in [DispIds -> SUBSET Keys]
    /\ \A p \in pending : p.m \in Msg /\ p.d \in DispIds /\ p.by \in {"env", "pool"}
    /\ \A x \in pool : x.m \in Msg /\ x.d \in DispIds /\ x.ph \in {"call", "cb"}
    /\ Cardinality(pool) <= PoolSize
    /\ counter \in Nat
    /\ pushed \in 0 .. MaxPush
    /\ announced \subseteq Names

(* spec.md 3, registry state: until shutdown, a connection's current shunt  *)
(* is the live, open dispatcher registered under its name and the          *)
(* connection is its member; every member's current shunt has that name;   *)
(* a registered shunt has a member.  UseShunt and ReleaseShunt keep the    *)
(* three maps in step.                                                      *)
RegistryConsistent ==
    ~stopped =>
        /\ \A c \in Conns : curr[c] # NoDisp =>
               /\ dispatchers[dname[curr[c]]] = curr[c]
               /\ c \in member[dname[curr[c]]]
               /\ ~dclosed[curr[c]]
        /\ \A n \in Names :
               /\ \A c \in member[n] : curr[c] # NoDisp /\ dname[curr[c]] = n
               /\ dispatchers[n] # NoDisp => member[n] # {} /\ dname[dispatchers[n]] = n

(* spec.md 8 P5, the half shutdown relies on: messageCounter never counts   *)
(* fewer messages than are admitted and not yet done, so shutdown cannot   *)
(* pass its wait while one of them still runs.  The async message stays    *)
(* counted while its pool task pushes the callback.                        *)
CounterCovers == counter >= Cardinality(Live)

(* spec.md 8 P5, exactly: messageCounter equals the number of admitted      *)
(* messages not yet done, so it returns to zero when they are done.        *)
CounterExact == counter = Cardinality(Live)

\* the admitted unique messages and unique callbacks with key k bound to d
UniqueLive(d, k) ==
    {x \in Live : x.d = d /\ x.m.key = k /\ x.m.t \in UniqueKinds \cup UniqueCallbackKinds}

(* spec.md 8 P2/P4: a key is in a dispatcher's in-flight set exactly while  *)
(* a unique message with that key, or its callback, is bound to that       *)
(* dispatcher: unique() sets it at admission, and antiUnique() runs on     *)
(* every way out (callback defer, caller panic, no callback).              *)
UniqueKeyOwned ==
    \A d \in DispIds, k \in Keys : (k \in uniq[d]) <=> (UniqueLive(d, k) # {})

(* spec.md 8 P2: at most one unique message with a given key (counting its *)
(* callback as the same one) is in flight on a dispatcher.                 *)
UniqueSingleFlight ==
    \A d \in DispIds, k \in Keys : Cardinality({x.m.id : x \in UniqueLive(d, k)}) <= 1

(* spec.md 8 P3: the callback of a shunt async message runs on the         *)
(* dispatcher that ran the async message.                                  *)
CallbackOnOrigin ==
    \A x \in Live : x.m.t \in {"ShuntAsyncCallback", "UniqueShuntAsyncCallback"} => x.d = x.m.org

(* spec.md 8 P1/P8: the packets of a connection, which its reader pushes    *)
(* one after the other, start only after every earlier one is done, also  *)
(* across UseShunt.                                                        *)
ConnFIFO ==
    \A d \in DispIds :
        busy[d] # NoMsg /\ busy[d].t = "Packet" =>
            ~\E x \in Live : /\ x.m.t = "Packet" /\ x.m.conn = busy[d].conn
                             /\ x.m.id < busy[d].id

(* spec.md 4.C: the ShuntChannelCreated / ShuntChannelClosed events tell a  *)
(* listener exactly which shunts exist.                                    *)
ShuntEventsMatch == announced = {n \in Names : dispatchers[n] # NoDisp}

(* spec.md 8 P4, liveness: a key in flight is released again, unless the  *)
(* process has died.                                                       *)
KeyReleased ==
    \A d \in DispIds, k \in Keys : (k \in uniq[d]) ~> (k \notin uniq[d] \/ crashed)

(* spec.md 8 P5, liveness: every admitted message is eventually done, so   *)
(* messageCounter drains and a shutdown that waits on it completes.        *)
Drains == (counter > 0) ~> (counter = 0 \/ crashed)

=============================================================================
