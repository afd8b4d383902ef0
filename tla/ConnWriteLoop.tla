---------------------------- MODULE ConnWriteLoop ----------------------------
(***************************************************************************)
(* The outbound half of a connection (src/server/conn.go): writers that    *)
(* call Write / WriteWithCallback, the single writeLoop goroutine that     *)
(* drains the batch onto the transport, and Close.                         *)
(*                                                                         *)
(* The batch slf.packets is a Go slice: a header <<array, len, cap>> over  *)
(* a backing array that several headers may share.  writeLoop snapshots    *)
(* the header and resets slf.packets to slf.packets[0:0], which keeps the  *)
(* same backing array, so the model keeps the arrays themselves (mem) and  *)
(* the headers (packets, and the loop's snapshot) apart.  Batch records    *)
(* (connPacket values) come from a pool that resets and may hand out a    *)
(* record again once it got it back.                                      *)
(***************************************************************************)
EXTENDS Naturals, Sequences, SequencesExt

CONSTANTS
    Writers,      \* goroutines calling Write on this connection
    MaxWrites,    \* bound on the number of Write calls
    SendCanFail,  \* whether the transport may return an error
    MaxReuse      \* bound on the number of Reuse calls

ASSUME MaxWrites \in Nat /\ SendCanFail \in BOOLEAN /\ MaxReuse \in Nat

Objs == 1..MaxWrites          \* batch records; 0 stands for nil
WriteIds == 1..MaxWrites      \* the n-th Write call; 0 stands for nil data

VARIABLES
    packets,   \* slf.packets: [arr |-> backing array (0 = nil), len, cap]
    mem,       \* the backing arrays allocated by append, each a Seq of Objs \cup {0}
    poolOn,    \* slf.packetPool # nil
    data,      \* data[o]: the packet of record o, as the id of its Write (0 = reset)
    callback,  \* callback[o]: the Write whose callback record o carries (0 = nil)
    free,      \* records the pool got back and may hand out again
    nobj,      \* records allocated so far
    writer,    \* writer[w]: [pc, id, cb, obj] of the Write call w is in
    loop,      \* the writeLoop goroutine: [pc, arr, n, i] with its snapshot
    stuck,     \* writeLoop returned while holding slf.mutex
    writes,    \* Write calls started
    appended,  \* ghost: Write ids in the order they were appended to the batch
    sent,      \* ghost: what reached the transport, as Write ids (0 = empty packet)
    called,    \* ghost: Write ids whose callback ran, in order
    reuser,    \* the goroutine calling slf.Reuse(other): idle, waiting, locked
    reuses     \* Reuse calls started

vars == <<packets, mem, poolOn, data, callback, free, nobj, writer, loop,
          stuck, writes, appended, sent, called, reuser, reuses>>

(* slf.mutex is free: writeLoop did not return holding it, and no Reuse   *)
(* is between its Lock and its deferred Unlock.                           *)
MutexFree == ~stuck /\ reuser # "locked"

NilSlice == [arr |-> 0, len |-> 0, cap |-> 0]

(* Capacity of the new backing array when append outgrows cap: growslice   *)
(* doubles a small slice of pointers (and rounds 0 up to 1).               *)
Grow(c) == IF c = 0 THEN 1 ELSE 2 * c

(* Mutant: the in-place branch taken one slot too late.                    *)
AppendPacketPastCap(o) ==
    IF packets.len <= packets.cap
    THEN /\ mem' = [mem EXCEPT ![packets.arr][packets.len + 1] = o]
         /\ packets' = [packets EXCEPT !.len = @ + 1]
    ELSE LET c   == Grow(packets.cap)
             old == IF packets.arr = 0 THEN <<>>
                    ELSE SubSeq(mem[packets.arr], 1, packets.len)
         IN  /\ mem' = Append(mem, old \o <<o>> \o
                                   [k \in 1..(c - packets.len - 1) |-> 0])
             /\ packets' = [arr |-> Len(mem) + 1, len |-> packets.len + 1,
                            cap |-> c]

(* slf.packets = append(slf.packets, o): in place while len < cap, which   *)
(* writes into an array another header may still be reading; otherwise a  *)
(* copy of the first len slots into a fresh array.                         *)
AppendPacket(o) ==
    IF packets.len < packets.cap
    THEN /\ mem' = [mem EXCEPT ![packets.arr][packets.len + 1] = o]
         /\ packets' = [packets EXCEPT !.len = @ + 1]
    ELSE LET c   == Grow(packets.cap)
             old == IF packets.arr = 0 THEN <<>>
                    ELSE SubSeq(mem[packets.arr], 1, packets.len)
         IN  /\ mem' = Append(mem, old \o <<o>> \o
                                   [k \in 1..(c - packets.len - 1) |-> 0])
             /\ packets' = [arr |-> Len(mem) + 1, len |-> packets.len + 1,
                            cap |-> c]

(* Mutant: a reset function that forgets data.callback = nil.              *)
ResetRecordKeepCallback(o) ==
    /\ data' = [data EXCEPT ![o] = 0]
    /\ callback' = callback

(* The pool's reset function, run by packetPool.Release.                   *)
ResetRecord(o) ==
    /\ data' = [data EXCEPT ![o] = 0]
    /\ callback' = [callback EXCEPT ![o] = 0]

(* writeLoop starts with the pool created and an empty (nil) batch.        *)
Init ==
    /\ packets = NilSlice
    /\ mem = <<>>
    /\ poolOn = TRUE
    /\ data = [o \in Objs |-> 0]
    /\ callback = [o \in Objs |-> 0]
    /\ free = {}
    /\ nobj = 0
    /\ writer = [w \in Writers |-> [pc |-> "idle", id |-> 0, cb |-> FALSE, obj |-> 0]]
    /\ loop = [pc |-> "top", arr |-> 0, n |-> 0, i |-> 0]
    /\ stuck = FALSE
    /\ writes = 0
    /\ appended = <<>>
    /\ sent = <<>>
    /\ called = <<>>
    /\ reuser = "idle"
    /\ reuses = 0

-----------------------------------------------------------------------------
(* Write / WriteWithCallback, first step: the unlocked nil check of the    *)
(* pool.  When the pool is already nil the call returns with no effect,    *)
(* so only the call that passes the check is a step.  cb tells             *)
(* WriteWithCallback (with a callback) from Write.                         *)
WriteCheck(w) ==
    /\ writer[w].pc = "idle"
    /\ writes < MaxWrites
    /\ poolOn
    /\ \E cb \in BOOLEAN :
         writer' = [writer EXCEPT ![w] = [pc |-> "checked", id |-> writes + 1,
                                          cb |-> cb, obj |-> 0]]
    /\ writes' = writes + 1
    /\ UNCHANGED <<reuser, reuses, packets, mem, poolOn, data, callback, free, nobj, loop,
                   stuck, appended, sent, called>>

(* Second step: slf.packetPool.Get() re-reads the field.  If a Close got   *)
(* in since the check, the call dereferences nil and panics in the         *)
(* writer's goroutine; otherwise the record is a released one or a new one *)
(* and gets the packet and the callback.                                   *)
WriteGet(w) ==
    /\ writer[w].pc = "checked"
    /\ IF ~poolOn
       THEN /\ writer' = [writer EXCEPT ![w].pc = "idle"]
            /\ UNCHANGED <<reuser, reuses, data, callback, free, nobj>>
       ELSE \E o \in free \cup (IF nobj < MaxWrites THEN {nobj + 1} ELSE {}) :
              /\ free' = free \ {o}
              /\ nobj' = IF o > nobj THEN o ELSE nobj
              /\ data' = [data EXCEPT ![o] = writer[w].id]
              /\ callback' = [callback EXCEPT ![o] = IF writer[w].cb
                                                      THEN writer[w].id ELSE 0]
              /\ writer' = [writer EXCEPT ![w].pc = "ready", ![w].obj = o]
    /\ UNCHANGED <<reuser, reuses, packets, mem, poolOn, loop, stuck, writes, appended, sent,
                   called>>

(* Third step: append under slf.mutex, which blocks for good once          *)
(* writeLoop has returned without unlocking it.                            *)
WriteAppend(w) ==
    /\ writer[w].pc = "ready"
    /\ MutexFree
    /\ AppendPacket(writer[w].obj)
    /\ appended' = Append(appended, writer[w].id)
    /\ writer' = [writer EXCEPT ![w] = [pc |-> "idle", id |-> 0, cb |-> FALSE,
                                        obj |-> 0]]
    /\ UNCHANGED <<reuser, reuses, poolOn, data, callback, free, nobj, loop, stuck, writes,
                   sent, called>>

-----------------------------------------------------------------------------
(* writeLoop, top of the loop with slf.mutex held: return (leaving the     *)
(* mutex locked) when the pool is nil.                                     *)
LoopReturn ==
    /\ loop.pc = "top" /\ MutexFree
    /\ ~poolOn
    /\ stuck' = TRUE
    /\ loop' = [loop EXCEPT !.pc = "gone"]
    /\ UNCHANGED <<reuser, reuses, packets, mem, poolOn, data, callback, free, nobj, writer,
                   writes, appended, sent, called>>

(* Empty batch: unlock, sleep 50ms, continue.                              *)
LoopIdle ==
    /\ loop.pc = "top" /\ MutexFree
    /\ poolOn /\ packets.len = 0
    /\ UNCHANGED vars

(* The snapshot, as the loop takes it.                                     *)
Snapshot == [pc |-> "send", arr |-> packets.arr, n |-> packets.len, i |-> 0]

(* packets := slf.packets[0:]; slf.packets = slf.packets[0:0]; unlock.     *)
LoopTake ==
    /\ loop.pc = "top" /\ MutexFree
    /\ poolOn /\ packets.len > 0
    /\ loop' = Snapshot
    /\ packets' = [packets EXCEPT !.len = 0]
    /\ UNCHANGED <<reuser, reuses, mem, poolOn, data, callback, free, nobj, writer, stuck,
                   writes, appended, sent, called>>

(* One iteration of the send loop: data := packets[i], read from the       *)
(* backing array now; send it; take its callback; release the record to    *)
(* the pool (which resets it); run the callback with the error.  On an     *)
(* error the loop panics, and the deferred recover calls Close.  Release   *)
(* re-reads slf.packetPool: after a concurrent Close it is nil, the call   *)
(* panics before the callback runs, and the recover ends the loop.         *)
LoopSend ==
    /\ loop.pc = "send"
    /\ LET o == mem[loop.arr][loop.i + 1]
       IN  /\ sent' = Append(sent, data[o])
           /\ IF poolOn
              THEN /\ called' = IF callback[o] # 0 THEN Append(called, callback[o])
                                ELSE called
                   /\ ResetRecord(o)
                   /\ free' = free \cup {o}
                   /\ \/ /\ loop' = IF loop.i + 1 = loop.n
                                    THEN [loop EXCEPT !.pc = "top"]
                                    ELSE [loop EXCEPT !.i = @ + 1]
                         /\ UNCHANGED <<reuser, reuses, packets, poolOn>>
                      \/ /\ SendCanFail
                         /\ loop' = [loop EXCEPT !.pc = "gone"]
                         /\ poolOn' = FALSE
                         /\ packets' = NilSlice
              ELSE /\ loop' = [loop EXCEPT !.pc = "gone"]
                   /\ packets' = NilSlice
                   /\ UNCHANGED <<reuser, reuses, poolOn, data, callback, free, called>>
    /\ UNCHANGED <<reuser, reuses, mem, nobj, writer, stuck, writes, appended>>

(* Close from outside (connection closed), without taking slf.mutex: the   *)
(* transport is closed, the pool closed and dropped, the batch dropped.    *)
Close ==
    /\ poolOn
    /\ poolOn' = FALSE
    /\ packets' = NilSlice
    /\ UNCHANGED <<reuser, reuses, mem, data, callback, free, nobj, writer, loop, stuck,
                   writes, appended, sent, called>>

-----------------------------------------------------------------------------
(* slf.Reuse(other), called from a goroutine of its own: it first locks    *)
(* slf.mutex, then other's (which nothing modelled here holds).           *)
ReuseCall ==
    /\ reuser = "idle" /\ reuses < MaxReuse
    /\ reuser' = "waiting"
    /\ reuses' = reuses + 1
    /\ UNCHANGED <<packets, mem, poolOn, data, callback, free, nobj, writer,
                   loop, stuck, writes, appended, sent, called>>

(* Both mutexes held: slf.Close() drops the pool and the batch.  writeLoop *)
(* does not take the mutex while it sends, so it can see the nil pool.     *)
ReuseClose ==
    /\ reuser = "waiting" /\ MutexFree
    /\ reuser' = "locked"
    /\ poolOn' = FALSE
    /\ packets' = NilSlice
    /\ UNCHANGED <<reuses, mem, data, callback, free, nobj, writer, loop,
                   stuck, writes, appended, sent, called>>

(* The copies from other, then the deferred unlocks.  other is a new       *)
(* connection: its pool has handed out and got back nothing, and its      *)
(* batch is still nil.  No writeLoop is started for slf.                   *)
ReuseCopy ==
    /\ reuser = "locked"
    /\ reuser' = "idle"
    /\ poolOn' = TRUE
    /\ free' = {}
    /\ packets' = NilSlice
    /\ UNCHANGED <<reuses, mem, data, callback, nobj, writer, loop, stuck,
                   writes, appended, sent, called>>

Next ==
    \/ \E w \in Writers : WriteCheck(w) \/ WriteGet(w) \/ WriteAppend(w)
    \/ LoopReturn \/ LoopIdle \/ LoopTake \/ LoopSend
    \/ Close
    \/ ReuseCall \/ ReuseClose \/ ReuseCopy

(* Each writer, and the Reuse caller, is a goroutine that finishes the    *)
(* call it started, and the loop is a goroutine of its own; the closing   *)
(* side and new calls need no fairness.                                    *)
Fairness ==
    /\ \A w \in Writers : WF_vars(WriteGet(w)) /\ WF_vars(WriteAppend(w))
    /\ WF_vars(LoopReturn) /\ WF_vars(LoopTake) /\ WF_vars(LoopSend)
    /\ WF_vars(ReuseClose) /\ WF_vars(ReuseCopy)

Spec == Init /\ [][Next]_vars /\ Fairness

-----------------------------------------------------------------------------
TypeOK ==
    /\ packets \in [arr : 0..Len(mem), len : 0..MaxWrites, cap : 0..2 * MaxWrites]
    /\ packets.len <= packets.cap
    /\ poolOn \in BOOLEAN /\ stuck \in BOOLEAN
    /\ data \in [Objs -> 0..MaxWrites] /\ callback \in [Objs -> 0..MaxWrites]
    /\ free \subseteq 1..nobj /\ nobj \in 0..MaxWrites
    /\ loop.pc \in {"top", "send", "gone"} /\ (loop.pc = "send" => loop.i < loop.n)
    /\ \A w \in Writers : writer[w].pc \in {"idle", "checked", "ready"}
    /\ writes \in 0..MaxWrites
    /\ reuser \in {"idle", "waiting", "locked"} /\ reuses \in 0..MaxReuse

(* Occurrences of Write id in the ghost sequence s.                         *)
Times(s, id) == Len(SelectSeq(s, LAMBDA x : x = id))

(* P6: the packets reach the transport in the order they were appended to  *)
(* the batch, each once and none empty: what writeLoop has sent is a       *)
(* prefix of what the writers appended.                                    *)
SentInWriteOrder == IsPrefix(sent, appended)

(* The callback of a WriteWithCallback runs at most once, even when the    *)
(* shared backing array makes writeLoop send the same record twice and the *)
(* pool hands a released record to another Write.                          *)
CallbackAtMostOnce == \A id \in WriteIds : Times(called, id) <= 1

(* The reconnect flow of Reuse: a Reuse call returns, and after it has    *)
(* returned, what is written to the open connection is eventually taken   *)
(* for sending (or the connection is closed again).                        *)
ReuseReconnects ==
    /\ reuser # "idle" ~> reuser = "idle"
    /\ (reuses > 0 /\ reuser = "idle" /\ poolOn /\ packets.len > 0)
          ~> (packets.len = 0 \/ ~poolOn)

=============================================================================
