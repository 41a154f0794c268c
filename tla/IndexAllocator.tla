---------------------------- MODULE IndexAllocator ----------------------------
(***************************************************************************)
(* What the node may rely on when it asks for the index of an outgoing     *)
(* ticket: no index is given twice in a process life, and none that a save *)
(* has made durable is given in a later life.  Only the value at which an  *)
(* index saturates repeats.  Once the next epoch's first index was given,  *)
(* nothing is promised of an epoch that is over, for the rest of the life. *)
(***************************************************************************)
EXTENDS Integers

CONSTANTS Channels, MaxEpoch, MAX_TICKET_INDEX

VARIABLES
    given,    \* given[k][i]: how often an index was given in this life
    over,     \* epochs that are over
    durable   \* indices given before a save that succeeded, in any life

allocatorVars == <<given, over, durable>>

Keys    == Channels \X (1..MaxEpoch)
Indices == 0..MAX_TICKET_INDEX
NothingGiven == [k \in Keys |-> [i \in Indices |-> 0]]

Init == given = NothingGiven /\ over = {} /\ durable = [k \in Keys |-> {}]

\* The first index of an epoch may end the one before.
Give(k, i) ==
    /\ i < MAX_TICKET_INDEX /\ k \notin over => given[k][i] = 0 /\ i \notin durable[k]
    /\ given' = [given EXCEPT ![k][i] = @ + 1]
    /\ over' = over \/ (i = 0 /\ over' = over \cup {<<k[1], k[2] - 1>>})
    /\ UNCHANGED durable

\* A save covers indices that were given, and takes none back.
Save ==
    /\ durable' \in [Keys -> SUBSET Indices]
    /\ \A k \in Keys : durable[k] \subseteq durable'[k]
                       /\ \A i \in durable'[k] \ durable[k] : given[k][i] > 0
    /\ UNCHANGED <<given, over>>

\* The process stops and starts again: what was not saved is forgotten.
Restart == given' = NothingGiven /\ over' = {} /\ UNCHANGED durable

Next == Save \/ Restart \/ \E k \in Keys, i \in Indices : Give(k, i)

Spec == Init /\ [][Next]_allocatorVars
=============================================================================
