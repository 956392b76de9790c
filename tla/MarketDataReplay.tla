-------------------------- MODULE MarketDataReplay --------------------------
(***************************************************************************)
(* MarketDataReplay (src/md/market_data_replay.cpp): loads the events of a  *)
(* CSV file, or makes up some.  A line is a record of what trimming and     *)
(* splitting leaves of it: whether it is blank, whether it contains the     *)
(* word "sequence", the number of its fields, and the fields, in lower case *)
(* where they are words and as integers where they are numbers.            *)
(***************************************************************************)
EXTENDS Integers, Sequences

CONSTANTS NotANumber,  \* a field that is no number
          U64Modulus   \* 2^64: how many values sequence numbers, ids and times have

ASSUME ReplayAssumption == U64Modulus \in Nat \ {0}

VARIABLES events,                \* events_
          invalid_line_count,    \* invalid_line_count_
          sequence_order_valid   \* sequence_order_valid_

replayVars == <<events, invalid_line_count, sequence_order_valid>>

\* clear()
ReplayInit == events = <<>> /\ invalid_line_count = 0 /\ sequence_order_valid = TRUE

looks_like_header(line) == line.header

\* std::stoull reads what fits into 64 bits, and negates it after a minus sign.
FitsU64(number) == number # NotANumber /\ number > -U64Modulus /\ number < U64Modulus

parse_u64(number) == number % U64Modulus

\* parse_i64
FitsI64(number) ==
    number # NotANumber /\ number \in -(U64Modulus \div 2) .. (U64Modulus \div 2) - 1

\* parse_i32 reads a non-negative 32-bit number.
FitsI32(number) == number # NotANumber /\ number >= 0 /\ number <= 2147483647

EventTypes == [add |-> "Add", modify |-> "Modify", cancel |-> "Cancel", trade |-> "Trade"]

SideNames == [buy |-> "Buy", bid |-> "Buy", sell |-> "Sell", ask |-> "Sell"]

\* parse_market_data_line returns true.
parses(line) ==
    /\ line.count = 8
    /\ FitsU64(line.sequence) /\ FitsU64(line.timestamp) /\ FitsU64(line.id)
    /\ FitsI64(line.price)
    /\ line.symbol # ""
    /\ line.type \in DOMAIN EventTypes /\ line.side \in DOMAIN SideNames
    /\ FitsI32(line.quantity)

\* The MarketDataEvent of a line that parses; both its timestamps are the line's.
Parsed(line) ==
    [sequence |-> parse_u64(line.sequence), time |-> parse_u64(line.timestamp),
     type |-> EventTypes[line.type], id |-> parse_u64(line.id),
     side |-> SideNames[line.side], price |-> line.price, quantity |-> line.quantity]

\* previous_sequence and have_previous_sequence: the event stored last.
InOrder(event) ==
    events # <<>> => event.sequence > events[Len(events)].sequence

OrderFlag(event) == sequence_order_valid /\ InOrder(event)

\* One turn of the loop of load_csv.
ReadLine(line) ==
    IF line.blank \/ (events = <<>> /\ looks_like_header(line)) THEN UNCHANGED replayVars
    ELSE IF ~parses(line)
    THEN /\ invalid_line_count' = invalid_line_count + 1
         /\ UNCHANGED <<events, sequence_order_valid>>
    ELSE /\ sequence_order_valid' = OrderFlag(Parsed(line))
         /\ events' = Append(events, Parsed(line))
         /\ UNCHANGED invalid_line_count

\* Event i of generate_synthetic, counted from 0.
Synthetic(i) ==
    [sequence |-> i + 1, id |-> i + 1, time |-> 1000000 + i + 1,
     type |-> IF i % 5 = 4 THEN "Trade" ELSE "Add",
     side |-> IF i % 2 = 0 THEN "Buy" ELSE "Sell",
     price |-> 10000 + (i % 10), quantity |-> 10 + (i % 5)]

generate_synthetic(event_count) ==
    /\ events' = [k \in 1 .. event_count |-> Synthetic(k - 1)]
    /\ invalid_line_count' = 0 /\ sequence_order_valid' = TRUE

=============================================================================
