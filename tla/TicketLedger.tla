----------------------------- MODULE TicketLedger -----------------------------
(***************************************************************************)
(* What the node may rely on for the tickets it is given in a channel:     *)
(* each is held until it is returned, over restarts, in the order in which *)
(* the chain takes tickets; and a ticket is redeemed at most once, after   *)
(* it was received, and never at the cost of another that is still held.   *)
(***************************************************************************)
EXTENDS Integers

CONSTANT Tickets   \* [epoch, index, ...]

VARIABLES held,      \* tickets in hand
          returned,  \* tickets given back: neglected, or answered by the chain
          redeemed   \* tickets the chain has taken

ledgerVars == <<held, returned, redeemed>>

Precedes(t, u) == t.epoch < u.epoch \/ (t.epoch = u.epoch /\ t.index < u.index)

Init == held = {} /\ returned = {} /\ redeemed = {}

\* Tickets of an epoch come in order.  Only the newest epoch stays in hand.
Receive(t) ==
    /\ \A u \in held \cup returned \cup redeemed : u.epoch = t.epoch => u.index < t.index
    /\ held' = {u \in held \cup {t} : \A v \in held \cup {t} : v.epoch <= u.epoch}
    /\ returned' = returned \cup ((held \cup {t}) \ held')
    /\ UNCHANGED redeemed

Return(S) ==
    /\ \A t \in S, u \in held \ S : Precedes(t, u)
    /\ held' = held \ S
    /\ returned' = returned \cup S
    /\ UNCHANGED redeemed

\* The chain takes no ticket behind the last one it took.  What is still in hand
\* of the epoch is ahead; a ticket of an older epoch was worth nothing before.
Redeem(t) ==
    /\ t \in held \cup returned
    /\ \A u \in redeemed : Precedes(u, t)
    /\ \A u \in held \ {t} : u.epoch = t.epoch => Precedes(t, u)
    /\ redeemed' = redeemed \cup {t}
    /\ UNCHANGED <<held, returned>>

Next == \/ \E t \in Tickets : Receive(t) \/ Redeem(t)
        \/ \E S \in SUBSET held : Return(S)

Spec == Init /\ [][Next]_ledgerVars
=============================================================================
