------------------------------ MODULE MCDesktop ------------------------------
(***************************************************************************)
(* Between the frontend and the bridge: the supervisor, the router, the    *)
(* gate of status checks and the download of the last hour, side by side   *)
(* for TLC.  Each behaviour is one of one of them.                         *)
(***************************************************************************)
EXTENDS Supervisor, TLC

CONSTANTS
  Calls, Restarts, Catalogues, Models, Asks, Expiring, None, MaxBridges,
  Selections, MaxRequests, MaxToken,
  Checkers, Limit

VARIABLES
  part,         (* the module the behaviour is one of                       *)
  bridge, live, phase, closing, call, to, reply,
  cache, callAt, asked, got, restart, toClear, fresh, since, crossed,
  token, progress, selection, rendered, total, index, done, failed, loop,
  checkAt, statusChecks, raced

routerVars ==
  <<bridge, live, phase, closing, call, to, reply,
    cache, callAt, asked, got, restart, toClear, fresh, since, crossed>>
historyVars == <<token, progress, selection, rendered, total, index, done, failed, loop>>
checkVars == <<checkAt, statusChecks, raced>>

\* The list of models, which expires, and the map catalogue of a model or of one run.
MCAsks ==
  {[catalogue |-> "models", model |-> "any", timed |-> FALSE],
   [catalogue |-> "map", model |-> "m1", timed |-> TRUE]} \cup
  {[catalogue |-> "map", model |-> m, timed |-> FALSE] : m \in {"m1", "m2"}}

Routing == INSTANCE Router WITH at <- callAt
History == INSTANCE LiveHistory WITH generation <- token, at <- loop
Checks == INSTANCE StatusChecks WITH Callers <- Checkers, at <- checkAt

ASSUME DesktopAssumption ==
  Routing!RouterAssumption /\ History!HistoryAssumption /\ Checks!CheckAssumption

\* The calls ask for the list of models, or one for the map catalogue of m1 and the
\* others for another map catalogue: what one caches the others find or look past.
AllAskForModels == \A c \in Calls : asked[c].catalogue = "models"
AskedTogether ==
  \/ AllAskForModels
  \/ /\ part = "router"
     /\ \E one \in Calls :
          LET mapOf1 == [catalogue |-> "map", model |-> "m1", timed |-> FALSE] IN
          /\ asked[one] = mapOf1
          /\ \A c \in Calls \ {one} : asked[c].catalogue = "map" /\ asked[c] # mapOf1

MCInit ==
  /\ part \in {"supervisor", "router", "history", "checks"}
  /\ Init /\ Routing!Init /\ History!Init /\ Checks!Init
  /\ AskedTogether
  /\ part # "history" => selection = CHOOSE s \in Selections : TRUE

SupervisorStep ==
  part = "supervisor" /\ Next /\ UNCHANGED <<part, routerVars, historyVars, checkVars>>
\* Restarts meet each other where all calls ask for the list of models.
RouterStep ==
  /\ part = "router" /\ Routing!Next /\ UNCHANGED <<part, vars, historyVars, checkVars>>
  /\ AllAskForModels \/ Cardinality({r \in Restarts : restart'[r] # "idle"}) <= 1
HistoryStep ==
  part = "history" /\ History!Next /\ UNCHANGED <<part, vars, routerVars, checkVars>>
CheckStep ==
  part = "checks" /\ Checks!Next /\ UNCHANGED <<part, vars, routerVars, historyVars>>

MCSpec ==
  MCInit /\ [][SupervisorStep \/ RouterStep \/ HistoryStep \/ CheckStep]_
                 <<part, vars, routerVars, historyVars, checkVars>>

Interchangeable == Permutations(Restarts)

\* Router: a catalogue given is the one asked for, of the bridge since the last restart.
GivenIsCurrent == Routing!GivenIsCurrent

\* LiveHistory: what is shown of a download is true.
ProgressIsHonest == History!ProgressIsHonest

\* StatusChecks: status checks leave workers of the bridge free, and none is forgotten.
ChecksAreGated == Checks!ChecksAreGated
=============================================================================
