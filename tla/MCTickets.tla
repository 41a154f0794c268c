------------------------------ MODULE MCTickets ------------------------------
(***************************************************************************)
(* The ticket manager and the stores below it, for TLC.  A behaviour is    *)
(* either one of the manager or one of the stores.                         *)
(***************************************************************************)
EXTENDS MCTicketManager, TicketStores

VARIABLE part

\* Two epochs and a second ticket with the index of the first.
TicketsToStore == {Ticket(1, 1, 0, 1), Ticket(2, 1, 1, 2), Ticket(3, 2, 0, 4), Ticket(4, 1, 0, 3)}

AnyInit == Init /\ StoresInit /\ part \in {"manager", "stores"}

ManagerNext == part = "manager" /\ Next /\ UNCHANGED <<storeVars, part>>
StoresPart == part = "stores" /\ StoresNext /\ UNCHANGED <<vars, part>>

AnySpec == AnyInit /\ [][ManagerNext \/ StoresPart]_<<vars, storeVars, part>>
=============================================================================
