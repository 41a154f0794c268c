----------------------------- MODULE ChainValues -----------------------------
(***************************************************************************)
(* The chain-wide values of the connector: the chain info cached without   *)
(* expiry, the pair of ticket values that incoming tickets are checked     *)
(* against, and the handler of ticket parameter updates that keeps both.   *)
(***************************************************************************)
EXTENDS EventStream, Integers

CONSTANTS Prices, Probabilities,    \* of tickets, as naturals
          DefaultProbability,       \* what an unknown probability counts as
          MaxParamChanges,
          NoParams                  \* nothing cached, or nothing delivered

Params == [price : Prices, prob : Probabilities]

ASSUME ParamAssumption ==
    /\ {"ticket_price", "win_prob"} \subseteq Topics
    /\ NoParams \notin Params

VARIABLES params,         \* external: the parameters on chain
          paramChanges,
          connected,      \* do_connect() has read the initial values
          values,         \* the cached chain info
          ticketValues,   \* (winning probability, price) kept for ticket checks
          query,          \* a chain info query under way: its answer, and whether
                          \* an update was handled meanwhile
          update,         \* the parameter update between its two handler stages
          due,            \* external: the feed has something to deliver
          outdated        \* (history) the cached info came from an overtaken query

valueVars == <<params, paramChanges, connected, values, ticketValues, query, update, due, outdated>>

NoQuery == [answer |-> NoParams, overtaken |-> FALSE]

ValueInit ==
    /\ params \in Params /\ paramChanges = 0 /\ connected = FALSE
    /\ values = NoParams /\ ticketValues = NoParams /\ query = NoQuery
    /\ update = NoParams /\ due = TRUE /\ outdated = FALSE

ParamsChange ==
    /\ paramChanges < MaxParamChanges /\ paramChanges' = paramChanges + 1
    /\ params' \in Params \ {params} /\ due' = TRUE
    /\ UNCHANGED <<connected, values, ticketValues, query, update, outdated>>

\* query_cached_chain_info() on a miss; callers that miss meanwhile share it.
QueryBegins ==
    /\ values = NoParams /\ query = NoQuery
    /\ query' = [answer |-> params, overtaken |-> FALSE]
    /\ UNCHANGED <<params, paramChanges, connected, values, ticketValues, update, due, outdated>>

QueryEnds ==
    /\ query # NoQuery /\ query' = NoQuery
    /\ \/ /\ values' = query.answer /\ outdated' = query.overtaken
       \/ UNCHANGED <<values, outdated>>      \* the query failed
    /\ UNCHANGED <<params, paramChanges, connected, ticketValues, update, due>>

\* do_connect() takes the cached info, however old, before it subscribes.
ConnectReads ==
    /\ ~connected /\ values # NoParams /\ connected' = TRUE
    /\ ticketValues' = values
    /\ UNCHANGED <<params, paramChanges, values, query, update, due, outdated>>

\* invalidate_caches()
InvalidateValues ==
    /\ values # NoParams /\ values' = NoParams /\ outdated' = FALSE
    /\ UNCHANGED <<params, paramChanges, connected, ticketValues, query, update, due>>

\* Mutant: a change of both fields takes over the price alone.
TicketPriceOnly(current, new) ==
    IF current = NoParams THEN current
    ELSE IF current.price # new.price THEN [current EXCEPT !.price = new.price]
    ELSE [current EXCEPT !.prob = new.prob]

\* The pair follows the update, field by field, if it was ever set.
NewTicketValues(current, new) ==
    IF current = NoParams THEN current
    ELSE IF current.price # new.price /\ current.prob # new.prob THEN new
    ELSE IF current.price # new.price THEN [current EXCEPT !.price = new.price]
    ELSE [current EXCEPT !.prob = new.prob]

\* The feed starts with the current parameters; it may skip, but not swallow, a
\* change.
ParamsReceived ==
    /\ connected /\ update = NoParams /\ due
    /\ update' = params /\ due' = FALSE
    /\ ticketValues' = NewTicketValues(ticketValues, params)
    /\ UNCHANGED <<params, paramChanges, connected, values, query, outdated>>

\* What is told: a changed price, and a probability that went up or down.
ParamEvents(old, new) ==
    LET price == IF old = NoParams \/ old.price # new.price
                 THEN <<[id |-> "ticket_price", entry |-> new.price]>> ELSE <<>>
        before == IF old = NoParams THEN DefaultProbability ELSE old.prob
        prob == IF new.prob # before THEN <<[id |-> "win_prob", entry |-> new.prob]>> ELSE <<>>
    IN  price \o prob

\* Mutant: the cached info is left as it was.
NotPatched(old, new) == old

\* The cached info is updated in place; one that is not there stays away, also
\* when a query is about to fill it.
Patched(old, new) == IF old = NoParams THEN NoParams ELSE new

ParamsHandled ==
    /\ update # NoParams /\ update' = NoParams
    /\ values' = Patched(values, update)
    /\ outdated' = (outdated /\ values = NoParams)
    /\ query' = IF query = NoQuery THEN query ELSE [query EXCEPT !.overtaken = TRUE]
    /\ Broadcast(ParamEvents(values, update))
    /\ UNCHANGED <<params, paramChanges, connected, ticketValues, due>>

ValueStep ==
    \/ /\ \/ ParamsChange \/ QueryBegins \/ QueryEnds \/ ConnectReads \/ InvalidateValues \/ ParamsReceived
       /\ UNCHANGED streamVars
    \/ ParamsHandled

\* A value asked of the read-only connector is queried each time,
ReaderValues == params

\* of the connector it comes from the cached chain info, queried on a miss,
ServedValues == IF values = NoParams THEN params ELSE values

\* and the pair for ticket checks is refused until there is one.
IncomingTicketValues == IF connected THEN ticketValues ELSE NoParams
--------------------------------------------------------------------------------
(* Properties *)

\* Once the feed has caught up, incoming tickets are checked against the
\* parameters on chain, and the connector serves what the read-only one would
\* read afresh, unless the query that filled its cache was overtaken by an
\* update: that info has no expiry.
ValuesFollowTheChain ==
    connected /\ update = NoParams /\ ~due =>
        /\ IncomingTicketValues = ReaderValues
        /\ ~outdated => ServedValues = ReaderValues
=============================================================================
