--------------------------- MODULE MCLegacyServer ---------------------------
(* Model values, kind subsets and option lists for checking LegacyServer. *)
EXTENDS LegacyServer, TLC

\* every connection is matched to the first shunt name
MatchAll == [c \in Conns |-> CHOOSE n \in Names : TRUE]

CoreKinds == {"Packet", "Async", "System", "Error"}
ShuntAsyncKinds == {"ShuntAsync"}
ErrorKinds == {"Error"}
NoKinds == {}

AllNetworks == {"None", "Tcp", "Kcp", "Http", "Websocket", "GRPC"}

\* New's options: an autonomous ticker; async messages disabled
\* (after a pool size of 0, which the disable makes moot)
NoOptions == {<<>>}
CoreOptions ==
    { <<[o |-> "Ticker", autonomy |-> TRUE]>>,
      <<[o |-> "AsyncPoolSize", size |-> 0], [o |-> "DisableAsyncMessage"]>> }
=============================================================================
