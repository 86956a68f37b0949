----------------------------- MODULE OrderQuery -----------------------------
(***************************************************************************)
(* Orders, from the builder to the query string that is signed and sent:   *)
(* OrderBuilder (src/src/orderbuilder.h), OrderParams (src/src/types.h),   *)
(* and buildQuery and sendOrder of src/src/policies/binancepolicy.h.       *)
(*                                                                         *)
(* A query is the set of its name-value pairs; wording and order of the    *)
(* parameters are left out.  An amount is <<digits, exponent>>, a decimal  *)
(* number with so many significant digits before that power of ten: 100000 *)
(* is <<1, 5>> and 0.25 is <<2, -2>>.                                      *)
(***************************************************************************)
EXTENDS Integers

CONSTANTS Amount,      \* the amounts a program sets
          TimeInForce  \* the policies it sets, besides the default GTC

ASSUME OrderAssumption ==
    /\ Amount \subseteq (Nat \ {0}) \X Int
    /\ TimeInForce \subseteq {"GTC", "IOC", "FOK"}

OrderType == {"MARKET", "LIMIT", "STOP_LOSS_LIMIT", "STOP_LOSS", "TAKE_PROFIT_LIMIT",
              "TAKE_PROFIT", "LIMIT_MAKER", "CANCEL", "OCO", "UNKNOWN"}
Zero == <<0, 0>>

VARIABLES market,  \* the template parameter, "SPOT" or "FUTURES"
          params,  \* of the builder
          clean,   \* the builder was reset, or created with empty parameters
          chosen,  \* the fields given a value since the builder was created or reset
          query    \* what the last step sent, {} if nothing

vars == <<market, params, clean, chosen, query>>

\* OrderParams: the fields a builder of this market has, and what their setters
\* take, the values that stand for an absent one included: no amount, no
\* position side, a timestamp of 0 ("0 = auto-generate"), an empty string.
Amounts == {"price", "quantity"} \cup
           IF market = "SPOT" THEN {"stop_price", "stop_limit_price", "quote_quantity"} ELSE {}
Domain(f) ==
    CASE f \in Amounts -> Amount \cup {Zero}
      [] f = "type" -> OrderType
      [] f = "side" -> {"BUY", "SELL"}
      [] f \in {"time_in_force", "stop_limit_time_in_force"} -> TimeInForce \cup {"GTC"}
      [] f = "position_side" -> {"LONG", "SHORT", "BOTH", "NONE"}
      [] OTHER -> {"set", "unset"}  \* symbol, timestamp, new_client_order_id, reduce_only
Field == Amounts \cup
         {"symbol", "type", "side", "time_in_force", "timestamp", "new_client_order_id"} \cup
         IF market = "SPOT" THEN {"stop_limit_time_in_force"} ELSE {"reduce_only", "position_side"}

\* OrderParams<M>{}: the two enumerations without an initialiser are zero.
Empty == [f \in Field |->
    CASE f \in Amounts -> Zero
      [] f = "type" -> "MARKET"
      [] f = "side" -> "BUY"
      [] f \in {"time_in_force", "stop_limit_time_in_force"} -> "GTC"
      [] f = "position_side" -> "NONE"
      [] OTHER -> "unset"]

-----------------------------------------------------------------------------
(* The conversions. *)

\* appendNumber: std::to_chars writes the shorter of the two notations ...
FixedLength(n, k) == IF k >= 0 THEN n + k ELSE IF n > -k THEN n + 1 ELSE 2 - k
Exponent(n, k) == n - 1 + k
ScientificLength(n, k) ==
    (IF n = 1 THEN 1 ELSE n + 1) + (IF Exponent(n, k) \in -99..99 THEN 4 ELSE 5)

\* Mutant: ties go to the notation with an exponent.
NotationTie(v) ==
    IF FixedLength(v[1], v[2]) < ScientificLength(v[1], v[2]) THEN "fixed"
    ELSE IF Exponent(v[1], v[2]) < 0 THEN "e-" ELSE "e+"

\* ... and the fixed one if they are equally long.
Notation(v) ==
    IF FixedLength(v[1], v[2]) <= ScientificLength(v[1], v[2]) THEN "fixed"
    ELSE IF Exponent(v[1], v[2]) < 0 THEN "e-" ELSE "e+"

Number(name, v) == {<<name, v, Notation(v)>>}
Word(name, v) == {<<name, v, "">>}
Positive(name, v) == IF v # Zero THEN Number(name, v) ELSE {}

\* sideToString[s], orderTypeToString[t]: operator[] enters an empty string
\* for a value the map lacks.
Text(v) == IF v = "garbage" THEN "" ELSE v

Common(p) ==
    Word("symbol", p.symbol) \cup Word("side", Text(p.side))

\* What buildQuery appends for the type of a spot order.
SpotDetails(p) ==
    LET type == Word("type", p.type)
        tif == Word("timeInForce", p.time_in_force)
        price == Number("price", p.price)
        stop == Number("stopPrice", p.stop_price)
    IN CASE p.type = "LIMIT" -> type \cup tif \cup price \cup Number("quantity", p.quantity)
         [] p.type = "MARKET" ->
              type \cup IF p.quantity # Zero THEN Number("quantity", p.quantity)
                        ELSE Positive("quoteOrderQty", p.quote_quantity)
         [] p.type \in {"STOP_LOSS", "TAKE_PROFIT"} ->
              type \cup stop \cup Positive("quantity", p.quantity)
         [] p.type \in {"STOP_LOSS_LIMIT", "TAKE_PROFIT_LIMIT"} ->
              type \cup stop \cup price \cup tif \cup Positive("quantity", p.quantity)
         [] p.type = "OCO" ->
              price \cup stop \cup Number("stopLimitPrice", p.stop_limit_price)
                \cup Word("stopLimitTimeInForce", p.stop_limit_time_in_force)
                \cup Positive("quantity", p.quantity)

\* The other types throw.
Supported(p) == p.type \in {"MARKET", "LIMIT", "STOP_LOSS", "STOP_LOSS_LIMIT", "TAKE_PROFIT",
                            "TAKE_PROFIT_LIMIT", "OCO"}

ClientId(p) ==
    IF p.new_client_order_id = "set" THEN Word("newClientOrderId", "set") ELSE {}

\* Mutant: without a timestamp of the caller, the field is sent as it is.
SpotQueryUntimed(p) ==
    Common(p) \cup ClientId(p) \cup SpotDetails(p) \cup Word("timestamp", p.timestamp)

\* Mutant: the time of the query is added to that of the caller.
SpotQueryTwoTimes(p) ==
    Common(p) \cup ClientId(p) \cup SpotDetails(p) \cup Word("timestamp", "now")
      \cup IF p.timestamp = "set" THEN Word("timestamp", "set") ELSE {}

SpotQuery(p) ==
    Common(p) \cup ClientId(p) \cup SpotDetails(p)
      \cup Word("timestamp", IF p.timestamp = "set" THEN "set" ELSE "now")

FuturesQuery(p) ==
    Common(p) \cup Word("type", Text(p.type))
      \cup Positive("quantity", p.quantity) \cup Positive("price", p.price)
      \cup (IF p.time_in_force # "GTC" /\ p.type # "MARKET"
            THEN Word("timeInForce", p.time_in_force) ELSE {})
      \cup (IF p.reduce_only = "set" THEN Word("reduceOnly", "set") ELSE {})
      \cup (IF p.position_side # "NONE" THEN Word("positionSide", p.position_side) ELSE {})
      \cup (IF p.timestamp = "set" THEN Word("timestamp", "set") ELSE {})

-----------------------------------------------------------------------------
(* The builder and sendOrder. *)

\* A builder created with () or {} is zeroed; in one that is only declared the
\* two enumerations are indeterminate.
Init ==
    /\ market \in {"SPOT", "FUTURES"}
    /\ \/ clean = TRUE /\ params = Empty
       \/ /\ clean = FALSE
          /\ \E t \in OrderType \cup {"garbage"}, s \in {"BUY", "SELL", "garbage"} :
                params = [Empty EXCEPT !.type = t, !.side = s]
    /\ chosen = {} /\ query = {}

\* A setter called with the value that stands for an absent one takes back
\* what was set; side and type have no such value.
Withdraws(f, v) == f \notin {"type", "side"} /\ v = Empty[f]

\* Every setter assigns its field.
Set(f, v) ==
    /\ params' = [params EXCEPT ![f] = v]
    /\ chosen' = IF Withdraws(f, v) THEN chosen \ {f} ELSE chosen \cup {f}
    /\ query' = {}
    /\ UNCHANGED <<market, clean>>

\* Mutant: reset forgets the price.
ResetPartly ==
    /\ params' = [Empty EXCEPT !.price = params.price]
    /\ clean' = TRUE /\ chosen' = {} /\ query' = {}
    /\ UNCHANGED market

Reset ==
    /\ params' = Empty
    /\ clean' = TRUE /\ chosen' = {} /\ query' = {}
    /\ UNCHANGED market

\* build and sendOrder: the whole query is signed and sent ...
SendSpot ==
    /\ market = "SPOT" /\ Supported(params) /\ query' = SpotQuery(params)
    /\ UNCHANGED <<market, params, clean, chosen>>

SendFutures ==
    /\ market = "FUTURES" /\ query' = FuturesQuery(params)
    /\ UNCHANGED <<market, params, clean, chosen>>

\* ... unless buildQuery throws std::logic_error.
SendThrows ==
    /\ market = "SPOT" /\ ~Supported(params) /\ query' = {}
    /\ UNCHANGED <<market, params, clean, chosen>>

Next ==
    \/ \E f \in Field : \E v \in Domain(f) : Set(f, v)
    \/ Reset \/ SendSpot \/ SendFutures \/ SendThrows

Spec == Init /\ [][Next]_vars

-----------------------------------------------------------------------------
(* Properties. *)

\* The field each parameter of a query is read from.
Source == [symbol |-> "symbol", side |-> "side", type |-> "type",
           price |-> "price", quantity |-> "quantity", stopPrice |-> "stop_price",
           stopLimitPrice |-> "stop_limit_price", quoteOrderQty |-> "quote_quantity",
           timeInForce |-> "time_in_force", stopLimitTimeInForce |-> "stop_limit_time_in_force",
           newClientOrderId |-> "new_client_order_id", reduceOnly |-> "reduce_only",
           positionSide |-> "position_side", timestamp |-> "timestamp"]

\* What is sent for a field that has no value of the program's.
Default(f) == IF f = "timestamp" THEN "now" ELSE Empty[f]

\* The values of the variables; what stands for an absent value (no timestamp, no
\* position side, no client id) is never sent, but for the symbol.
TypeOK ==
    /\ market \in {"SPOT", "FUTURES"} /\ clean \in BOOLEAN
    /\ DOMAIN params = Field /\ chosen \subseteq Field
    /\ \A f \in Field : \/ params[f] \in Domain(f) \/ params[f] = Empty[f]
                        \/ f \in {"type", "side"} /\ params[f] \in OrderType \cup {"garbage"}
    /\ \A q \in query : /\ q[1] \in DOMAIN Source /\ Source[q[1]] \in Field
                         /\ q[3] = "" /\ q[2] \in {"unset", "NONE"} => q[1] = "symbol"

\* A value in the query that the builder's empty parameters do not have was
\* set by a setter, in its own field, since the last reset, and not taken back.
Chosen(q) ==
    \/ q[2] = Default(Source[q[1]])
    \/ Source[q[1]] \in chosen /\ q[2] = params[Source[q[1]]]

\* A builder that is used again after reset sends nothing of an earlier order,
\* and one that was only declared nothing indeterminate once its side and its
\* type have been set.
ValuesChosen == clean \/ {"side", "type"} \subseteq chosen => \A q \in query : Chosen(q)

\* The same of any builder ("initializes with empty parameters", orderbuilder.h).
StartsEmpty == \A q \in query : Chosen(q)

\* An amount of 0.001 or more that does not end in five or more zeros is
\* written without an exponent, whose plus sign the query does not encode.
PlainInRange ==
    \A q \in query : q[3] # "" /\ q[2] # Zero /\ Exponent(q[2][1], q[2][2]) >= -3 /\ q[2][2] <= 4
        => q[3] = "fixed"

\* A spot query has one timestamp ("Always add timestamp", binancepolicy.h):
\* the one this order was given, never that of an order the builder was used
\* for before, and the time of sending if it was given none, or 0 after it.
SpotTimestampedOnce ==
    market = "SPOT" /\ query # {} =>
        {q[2] : q \in {p \in query : p[1] = "timestamp"}}
            = {IF "timestamp" \in chosen THEN "set" ELSE "now"}

\* Both overloads of buildQuery are said to add a timestamp themselves.
Timestamped == query # {} => \E q \in query : q[1] = "timestamp"

=============================================================================
