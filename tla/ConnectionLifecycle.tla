------------------------ MODULE ConnectionLifecycle ------------------------
(***************************************************************************)
(* What the dispatcher promises about a connection id: it is free, or a    *)
(* live connection has it, or it waits.  A connection that ends leaves its *)
(* id waiting, so that stray packets of it cannot reach or create another  *)
(* connection, and a waiting id is free again only when its period is over *)
(* or when it is the oldest of a full list.                                *)
(***************************************************************************)
EXTENDS Integers, FiniteSets

CONSTANTS
  ConnectionIds,
  Period,        \* how long an id waits
  Capacity       \* how many ids can wait, < 0: no limit

VARIABLES
  time,
  state,         \* ConnectionIds -> "free", "live" or "waiting"
  since          \* of a waiting id, the time it began to wait

abstractVars == <<time, state, since>>

Waiting == {id \in ConnectionIds : state[id] = "waiting"}

AbstractInit ==
  /\ time = 0
  /\ state = [id \in ConnectionIds |-> "free"]
  /\ since = [id \in ConnectionIds |-> 0]

Stays(id) == state'[id] = state[id] /\ since'[id] = since[id]

Opens(id) == state[id] = "free" /\ state'[id] = "live" /\ since'[id] = 0

Waits(id) ==
  /\ state[id] \in {"free", "live"}
  /\ state'[id] = "waiting"
  /\ since'[id] = time

MayForget(id) ==
  \/ time - since[id] >= Period
  \/ /\ Cardinality(Waiting) = Capacity
     /\ \A other \in Waiting : since[id] <= since[other]

Forgotten(id) ==
  /\ state[id] = "waiting"
  /\ MayForget(id)
  /\ state'[id] = "free"
  /\ since'[id] = 0

\* Ids change together: to make room for an id, another one is forgotten.
AbstractNext ==
  /\ time' >= time
  /\ DOMAIN state' = ConnectionIds
  /\ DOMAIN since' = ConnectionIds
  /\ \A id \in ConnectionIds : Stays(id) \/ Opens(id) \/ Waits(id) \/ Forgotten(id)

AbstractSpec == AbstractInit /\ [][AbstractNext]_abstractVars
=============================================================================
