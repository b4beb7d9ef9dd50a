----------------------------- MODULE UpdateSocket -----------------------------
(***************************************************************************)
(* The SocketTransport of a client, under names that leave those of the    *)
(* HTTP transport free: the two share no state, and what is proved about   *)
(* them is proved side by side (NetworkProofs).                            *)
(***************************************************************************)
EXTENDS Naturals

CONSTANTS Caller, closer, Reconnect, Socket, nothing, MaxCalls, MaxLosses, MaxFails, MaxCancels

VARIABLES
    socket, current, reconnectTask, closed, connected,
    ws, waits, lock, raised, disposed, link, helper,
    step,  \* the pc of SocketTransport
    spent

Ws == INSTANCE SocketTransport WITH pc <- step, none <- nothing

ASSUME NameAssumption ==
    /\ closer \notin Caller \cup Reconnect /\ Caller \cap Reconnect = {}
    /\ nothing \notin Socket \cup Ws!Task \cup Ws!Helper /\ Reconnect \cap Ws!Helper = {}

ASSUME BoundAssumption == {MaxCalls, MaxLosses, MaxFails, MaxCancels} \subseteq Nat

SocketSpec == Ws!FairSpec

(* A transport that was closed is at rest.                                 *)
ClosedIsQuiet == Ws!ClosedIsQuiet

(* Every call of connect() and close() returns.                            *)
CallsReturn == Ws!CallsReturn

(* A socket that is gone or lost is replaced.                              *)
Recovers == Ws!Recovers
=============================================================================
