--------------------------- MODULE MCTicketManager ---------------------------
(* TicketManager for TLC. *)
EXTENDS TicketManager, TLC

Ticket(id, epoch, index, amount) ==
    [id |-> id, epoch |-> epoch, index |-> index, amount |-> amount]

\* Two epochs; the first ticket is below MinAmount = 2.
ThreeTickets == {Ticket(1, 1, 0, 1), Ticket(2, 1, 1, 2), Ticket(3, 2, 0, 3)}
FourTickets == ThreeTickets \cup {Ticket(4, 1, 2, 4)}

StreamsSymmetry == Permutations(Streams)
=============================================================================
