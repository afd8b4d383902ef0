-------------------------- MODULE MCShuntDispatch --------------------------
(* Instantiation of ShuntDispatch for TLC: the message kinds each run lets *)
(* the environment push.                                                    *)
EXTENDS ShuntDispatch, TLC

\* packets, shunt asyncs and system-routed unique asyncs, but no unique
\* shunt asyncs (whose keys a migration loses, see UniqueMigrationKinds)
CoreKinds == {"Packet", "ShuntAsync", "UniqueAsync"}

\* a server that never calls UseShunt: system and async messages only
SystemKinds == {"System", "Async", "UniqueAsync"}

\* unique shunt asyncs alone
UniqueMigrationKinds == {"UniqueShuntAsync"}

\* packets alone
PacketKinds == {"Packet"}

\* shunt asyncs alone
ShuntAsyncKinds == {"ShuntAsync"}

\* connections are interchangeable: safety runs check one representative of
\* each permutation
ConnSymmetry == Permutations(Conns)
=============================================================================
