------------------------------- MODULE Calls --------------------------------
(***************************************************************************)
(* What a client keeps right although its calls fail halfway, each on its  *)
(* own: an action of the membership worker, a file transfer, a walk        *)
(* through a chat, the status callbacks of a job, and the DC configuration *)
(* every request relies on.  They share the program counter, for one of    *)
(* them is under way, and nothing else.                                    *)
(***************************************************************************)
EXTENDS Naturals

CONSTANTS
    Attempts, MaxSize, ChunkSize, PageSize, Limits, AtFirst, MaxChange, MaxRetries, MaxDeaths,
    Defaults, Dcs, Suggestions, Custom, Discover, none

ASSUME AttemptsAssumption == Attempts \in Nat \ {0}
ASSUME TransferAssumption == MaxSize \in Nat /\ ChunkSize \in Nat \ {0}
ASSUME WalkAssumption ==
    /\ {PageSize, AtFirst} \subseteq Nat \ {0}
    /\ Limits \subseteq Nat
    /\ MaxChange \in Nat
ASSUME CallbackAssumption == {MaxRetries, MaxDeaths} \subseteq Nat

VARIABLES
    pc,
    order, member, acted, request, result, told,
    way, size, known, step, chunk, left, there, spoilt, failed,
    kind, limit, list, next, below, page, more, yielded, constant,
    status, task, fresh, panel, deaths,
    repo, saved, http, socket, asking

Actions == INSTANCE RubikaActions
Transfer == INSTANCE FileTransfer
Walk == INSTANCE ChatWalk
Callbacks == INSTANCE StatusCallbacks
DcConfig == INSTANCE DcRepository

ASSUME UrlAssumption ==
    /\ DOMAIN Defaults = DcConfig!Type
    /\ \A d \in Dcs : DOMAIN d \subseteq DcConfig!Type /\ \A t \in DOMAIN d : d[t] # <<>>
    /\ Discover \in BOOLEAN /\ none \notin DcConfig!Url

actionVars == <<order, member, acted, request, result, told>>
transferVars == <<way, size, known, step, chunk, left, there, spoilt, failed>>
walkVars == <<kind, limit, list, next, below, page, more, yielded, constant>>
callbackVars == <<status, task, fresh, panel, deaths>>
dcVars == <<repo, saved, http, socket, asking>>

Init == Actions!Init /\ Transfer!Init /\ Walk!Init /\ Callbacks!Init /\ DcConfig!Init

Next ==
    \/ Actions!Next /\ UNCHANGED <<transferVars, walkVars, callbackVars, dcVars>>
    \/ Transfer!Next /\ UNCHANGED <<actionVars, walkVars, callbackVars, dcVars>>
    \/ Walk!Next /\ UNCHANGED <<actionVars, transferVars, callbackVars, dcVars>>
    \/ Callbacks!Next /\ UNCHANGED <<actionVars, transferVars, walkVars, dcVars>>
    \/ DcConfig!Next /\ UNCHANGED <<actionVars, transferVars, walkVars, callbackVars>>

vars == <<pc, actionVars, transferVars, walkVars, callbackVars, dcVars>>

Spec == Init /\ [][Next]_vars /\ Callbacks!Fairness

-----------------------------------------------------------------------------
(* A join, leave or view is answered so that the answer can be acted upon.  *)
ImplementsCall == Actions!ImplementsCall

(* A transfer that reports success moved every byte once and in order.      *)
TransferIsWhole == Transfer!TransferIsWhole

(* The panel ends up with the verdict of the job.                           *)
PanelLearnsTheVerdict == Callbacks!PanelLearnsTheVerdict

(* A walk gives every entry at most once, and all those that stay.          *)
WalkIsComplete == Walk!WalkIsComplete

(* Nobody is sent to a URL that has been replaced.                          *)
PoolsFollow == DcConfig!PoolsFollow
=============================================================================
