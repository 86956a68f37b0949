-------------------------- MODULE OrderQueryProofs --------------------------
(***************************************************************************)
(* What a query contains, for every amount and every sequence of setters.  *)
(***************************************************************************)
EXTENDS OrderQuery, TLAPS

(* The parameters of one step: each is a word or a number read from its    *)
(* field, or the time at which the query was built.                        *)

WordOf(q) == /\ q[3] = "" /\ q[2] = params[Source[q[1]]]
             /\ q[2] \in {"unset", "NONE"} => q[1] = "symbol"
TextOf(q) == q[1] \in {"side", "type"} /\ q[3] = "" /\ q[2] = Text(params[Source[q[1]]])
NumberOf(q) == q[2] = params[Source[q[1]]] /\ q[3] = Notation(q[2])
             /\ Source[q[1]] \in Amounts
Now(q) == q = <<"timestamp", "now", "">>

Read(q) == /\ q[1] \in DOMAIN Source /\ Source[q[1]] \in Field
           /\ WordOf(q) \/ TextOf(q) \/ NumberOf(q) \/ Now(q)

\* Only the side and the type of a builder that was not cleaned are ever
\* indeterminate, until they are set: no setter stores such a value.
ParamsOK ==
    /\ market \in {"SPOT", "FUTURES"} /\ clean \in BOOLEAN
    /\ DOMAIN params = Field /\ chosen \subseteq Field
    /\ \A f \in Field : \/ params[f] \in Domain(f) \/ params[f] = Empty[f]
                        \/ f \in {"type", "side"} /\ params[f] \in OrderType \cup {"garbage"}
    /\ \A f \in Field : params[f] = Empty[f] \/ f \in chosen \/ (~clean /\ f \in {"type", "side"})
    /\ \A f \in {"type", "side"} : params[f] = "garbage" => ~clean /\ f \notin chosen

\* Nothing in the builder is indeterminate.
Sound == clean \/ {"side", "type"} \subseteq chosen

\* A parameter of the last query: numbers keep their notation, and a value of
\* a sound builder is a default or was chosen.
ParamOK(q) ==
    /\ q[1] \in DOMAIN Source /\ Source[q[1]] \in Field
    /\ q[3] = "" /\ q[2] \in {"unset", "NONE"} => q[1] = "symbol"
    /\ q[3] # "" => q[2] \in Amount \cup {Zero} /\ q[3] = Notation(q[2])
    /\ Sound => Chosen(q)

OrderInv == ParamsOK /\ \A q \in query : ParamOK(q)

-----------------------------------------------------------------------------

LEMMA NotationWord == ASSUME NEW v PROVE Notation(v) \in {"fixed", "e+", "e-"}
BY DEF Notation

\* The arithmetic behind the range: of a number with fewer than five zeros at
\* its end and no more than two after its point, the fixed notation is never
\* the longer one.
LEMMA PlainNotation ==
    ASSUME NEW v \in (Nat \ {0}) \X Int, Exponent(v[1], v[2]) >= -3, v[2] <= 4
    PROVE  Notation(v) = "fixed"
<1>1. v[1] \in Nat \ {0} /\ v[2] \in Int
    OBVIOUS
<1>2. v[1] - 1 + v[2] >= -3 /\ v[2] <= 4
    BY <1>1 DEF Exponent
<1>3. ScientificLength(v[1], v[2]) >= IF v[1] = 1 THEN 5 ELSE v[1] + 5
    BY <1>1 DEF ScientificLength
<1>4. FixedLength(v[1], v[2]) <= ScientificLength(v[1], v[2])
    BY <1>1, <1>2, <1>3 DEF FixedLength, ScientificLength
<1> QED BY <1>4 DEF Notation

\* The field of each parameter.
LEMMA Sources ==
    /\ DOMAIN Source = {"symbol", "side", "type", "price", "quantity", "stopPrice",
          "stopLimitPrice", "quoteOrderQty", "timeInForce", "stopLimitTimeInForce",
          "newClientOrderId", "reduceOnly", "positionSide", "timestamp"}
    /\ Source["symbol"] = "symbol" /\ Source["side"] = "side" /\ Source["type"] = "type"
    /\ Source["price"] = "price" /\ Source["quantity"] = "quantity"
    /\ Source["stopPrice"] = "stop_price" /\ Source["stopLimitPrice"] = "stop_limit_price"
    /\ Source["quoteOrderQty"] = "quote_quantity"
    /\ Source["timeInForce"] = "time_in_force"
    /\ Source["stopLimitTimeInForce"] = "stop_limit_time_in_force"
    /\ Source["newClientOrderId"] = "new_client_order_id"
    /\ Source["reduceOnly"] = "reduce_only" /\ Source["positionSide"] = "position_side"
    /\ Source["timestamp"] = "timestamp"
BY DEF Source

\* A pair of a word or a number of its field is read from it.
LEMMA WordRead ==
    ASSUME NEW n \in DOMAIN Source, Source[n] \in Field, NEW v, v = params[Source[n]],
           v \in {"unset", "NONE"} => n = "symbol", NEW q, q = <<n, v, "">>
    PROVE  Read(q)
BY DEF Read, WordOf

LEMMA NumberRead ==
    ASSUME NEW n \in DOMAIN Source, Source[n] \in Amounts, NEW q,
           q = <<n, params[Source[n]], Notation(params[Source[n]])>>
    PROVE  Read(q)
BY DEF Read, NumberOf, Field

LEMMA CommonRead ==
    ASSUME NEW q \in Common(params)
    PROVE  Read(q)
<1>1. CASE q = <<"symbol", params["symbol"], "">>
    <2> "symbol" \in Field
        BY DEF Field
    <2> QED BY <1>1, Sources, WordRead
<1>2. CASE q = <<"side", Text(params["side"]), "">>
    <2>1. "side" \in Field
        BY DEF Field
    <2>2. q[1] = "side" /\ q[2] = Text(params["side"]) /\ q[3] = ""
        BY <1>2
    <2> QED BY <2>1, <2>2, Sources DEF Read, TextOf
<1> QED BY <1>1, <1>2 DEF Common, Word

LEMMA SpotRead ==
    ASSUME ParamsOK, market = "SPOT", Supported(params), NEW q \in SpotQuery(params)
    PROVE  Read(q)
<1>1. CASE q \in Common(params)
    BY <1>1, CommonRead
<1>2. CASE q \in ClientId(params)
    <2>1. q = <<"newClientOrderId", params["new_client_order_id"], "">>
          /\ params["new_client_order_id"] = "set"
        BY <1>2 DEF ClientId, Word
    <2>2. "new_client_order_id" \in Field
        BY DEF Field
    <2> QED BY <2>1, <2>2, Sources, WordRead
<1>3. CASE q \in SpotDetails(params)
    <2>1. params["type"] \notin {"unset", "NONE"}
        BY DEF Supported
    <2>2. /\ "time_in_force" \in Field /\ "stop_limit_time_in_force" \in Field
          /\ "type" \in Field
        BY DEF Field
    <2>3. /\ params["time_in_force"] \notin {"unset", "NONE"}
          /\ params["stop_limit_time_in_force"] \notin {"unset", "NONE"}
        BY <2>2, OrderAssumption DEF ParamsOK, Domain, Empty, Amounts
    <2>4. {"price", "quantity", "stop_price", "stop_limit_price", "quote_quantity"}
             \subseteq Amounts
        BY DEF Amounts
    <2>5. CASE q = <<"type", params["type"], "">>
        BY <2>5, <2>1, <2>2, Sources, WordRead
    <2>6. CASE q = <<"timeInForce", params["time_in_force"], "">>
        BY <2>6, <2>2, <2>3, Sources, WordRead
    <2>7. CASE q = <<"stopLimitTimeInForce", params["stop_limit_time_in_force"], "">>
        BY <2>7, <2>2, <2>3, Sources, WordRead
    <2>8. CASE q = <<"price", params["price"], Notation(params["price"])>>
        BY <2>8, <2>4, Sources, NumberRead
    <2>9. CASE q = <<"quantity", params["quantity"], Notation(params["quantity"])>>
        BY <2>9, <2>4, Sources, NumberRead
    <2>10. CASE q = <<"stopPrice", params["stop_price"], Notation(params["stop_price"])>>
        BY <2>10, <2>4, Sources, NumberRead
    <2>11. CASE q = <<"stopLimitPrice", params["stop_limit_price"],
                      Notation(params["stop_limit_price"])>>
        BY <2>11, <2>4, Sources, NumberRead
    <2>12. CASE q = <<"quoteOrderQty", params["quote_quantity"],
                      Notation(params["quote_quantity"])>>
        BY <2>12, <2>4, Sources, NumberRead
    <2> DEFINE type == Word("type", params["type"])
               tif == Word("timeInForce", params["time_in_force"])
               price == Number("price", params["price"])
               stop == Number("stopPrice", params["stop_price"])
               quantity == Number("quantity", params["quantity"])
    <2>13. \/ q \in type \/ q \in tif \/ q \in price \/ q \in stop \/ q \in quantity
           \/ q \in Number("stopLimitPrice", params["stop_limit_price"])
           \/ q \in Word("stopLimitTimeInForce", params["stop_limit_time_in_force"])
           \/ q \in Number("quoteOrderQty", params["quote_quantity"])
        <3>1. \A n, v : Positive(n, v) \subseteq Number(n, v)
            BY DEF Positive
        <3> HIDE DEF type, tif, price, stop, quantity
        <3>2. CASE params["type"] = "LIMIT"
            BY <1>3, <3>2 DEF SpotDetails, type, tif, price, quantity
        <3>3. CASE params["type"] = "MARKET"
            BY <1>3, <3>1, <3>3 DEF SpotDetails, type, quantity
        <3>4. CASE params["type"] \in {"STOP_LOSS", "TAKE_PROFIT"}
            BY <1>3, <3>1, <3>4 DEF SpotDetails, type, stop, quantity
        <3>5. CASE params["type"] \in {"STOP_LOSS_LIMIT", "TAKE_PROFIT_LIMIT"}
            BY <1>3, <3>1, <3>5 DEF SpotDetails, type, tif, price, stop, quantity
        <3>6. CASE params["type"] = "OCO"
            BY <1>3, <3>1, <3>6 DEF SpotDetails, price, stop, quantity
        <3> QED BY <3>2, <3>3, <3>4, <3>5, <3>6 DEF Supported
    <2> QED
        BY <2>5, <2>6, <2>7, <2>8, <2>9, <2>10, <2>11, <2>12, <2>13 DEF Word, Number
<1>4. CASE q \in Word("timestamp", IF params["timestamp"] = "set" THEN "set" ELSE "now")
    <2>1. "timestamp" \in Field
        BY DEF Field
    <2>2. CASE params["timestamp"] = "set"
        <3>1. q = <<"timestamp", params["timestamp"], "">>
            BY <1>4, <2>2 DEF Word
        <3> QED BY <3>1, <2>1, <2>2, Sources, WordRead
    <2>3. CASE params["timestamp"] # "set"
        <3>1. q = <<"timestamp", "now", "">>
            BY <1>4, <2>3 DEF Word
        <3>2. q[1] = "timestamp"
            BY <3>1
        <3> QED BY <3>1, <3>2, <2>1, Sources DEF Read, Now
    <2> QED BY <2>2, <2>3
<1> QED BY <1>1, <1>2, <1>3, <1>4 DEF SpotQuery

LEMMA FuturesRead ==
    ASSUME ParamsOK, market = "FUTURES", NEW q \in FuturesQuery(params)
    PROVE  Read(q)
<1>1. /\ {"type", "time_in_force", "reduce_only", "position_side", "timestamp"} \subseteq Field
      /\ {"price", "quantity"} \subseteq Amounts
    BY DEF Field, Amounts
<1>2. params["time_in_force"] \notin {"unset", "NONE"}
    BY <1>1, OrderAssumption DEF ParamsOK, Domain, Empty, Amounts
<1>3. params["position_side"] # "unset"
    BY <1>1 DEF ParamsOK, Domain, Empty, Amounts
<1>4. CASE q \in Common(params)
    BY <1>4, CommonRead
<1>5. CASE q = <<"type", Text(params["type"]), "">>
    <2>1. q[1] = "type" /\ q[2] = Text(params["type"]) /\ q[3] = ""
        BY <1>5
    <2> QED BY <1>1, <2>1, Sources DEF Read, TextOf
<1>6. CASE q = <<"quantity", params["quantity"], Notation(params["quantity"])>>
    BY <1>1, <1>6, Sources, NumberRead
<1>7. CASE q = <<"price", params["price"], Notation(params["price"])>>
    BY <1>1, <1>7, Sources, NumberRead
<1>8. CASE q = <<"timeInForce", params["time_in_force"], "">>
    BY <1>1, <1>2, <1>8, Sources, WordRead
<1>9. CASE q = <<"reduceOnly", params["reduce_only"], "">> /\ params["reduce_only"] = "set"
    BY <1>1, <1>9, Sources, WordRead
<1>10. CASE /\ q = <<"positionSide", params["position_side"], "">>
            /\ params["position_side"] # "NONE"
    BY <1>1, <1>3, <1>10, Sources, WordRead
<1>11. CASE q = <<"timestamp", params["timestamp"], "">> /\ params["timestamp"] = "set"
    BY <1>1, <1>11, Sources, WordRead
<1> QED
    BY <1>4, <1>5, <1>6, <1>7, <1>8, <1>9, <1>10, <1>11
       DEF FuturesQuery, Word, Number, Positive

-----------------------------------------------------------------------------

\* What is read from a builder whose parameters are in order is in order.
LEMMA ReadOK ==
    ASSUME ParamsOK, NEW q, Read(q)
    PROVE  ParamOK(q)
<1> DEFINE f == Source[q[1]]
<1> USE DEF Read
<1>1. q[1] = "timestamp" <=> f = "timestamp"
    BY Sources
<1>2. CASE WordOf(q)
    <2>1. Sound => Chosen(q)
        <3>1. CASE f \in chosen
            BY <1>2, <3>1 DEF WordOf, Chosen
        <3>2. CASE Sound /\ f \notin chosen
            <4>1. params[f] = Empty[f]
                BY <3>2 DEF ParamsOK, Sound
            <4>2. f # "timestamp"
                BY <4>1, <1>1, <1>2 DEF WordOf, Empty, Field, Amounts
            <4> QED BY <4>1, <4>2, <1>2 DEF WordOf, Chosen, Default
        <3> QED BY <3>1, <3>2
    <2> QED BY <1>2, <2>1 DEF WordOf, ParamOK
<1>3. CASE TextOf(q)
    <2>1. f \in {"side", "type"}
        BY <1>3, Sources DEF TextOf
    <2>2. q[2] \notin {"unset", "NONE"}
        BY <1>3, <2>1 DEF TextOf, Text, ParamsOK, Domain, Empty, Amounts, OrderType
    <2>3. Sound => q[2] = params[f]
        BY <1>3, <2>1 DEF TextOf, Text, ParamsOK, Sound
    <2>4. Sound => Chosen(q)
        BY <2>1, <2>3 DEF ParamsOK, Chosen, Default, Sound
    <2> QED BY <1>3, <2>2, <2>4 DEF TextOf, ParamOK
<1>4. CASE NumberOf(q)
    <2>1. f \in Amounts
        BY <1>4 DEF NumberOf
    <2>2. params[f] \in Amount \cup {Zero}
        BY <2>1 DEF ParamsOK, Domain, Empty, Amounts, Zero
    <2>3. f # "timestamp"
        BY <2>1 DEF Amounts
    <2>4. Sound => Chosen(q)
        BY <1>4, <2>3 DEF NumberOf, ParamsOK, Chosen, Default, Amounts, Sound
    <2>5. q[3] \in {"fixed", "e+", "e-"}
        BY <1>4, NotationWord DEF NumberOf
    <2> QED BY <1>4, <2>2, <2>4, <2>5 DEF NumberOf, ParamOK
<1>5. CASE Now(q)
    BY <1>5, Sources DEF Now, ParamOK, Chosen, Default
<1> QED BY <1>2, <1>3, <1>4, <1>5

\* Every step keeps the builder's parameters in order; what a send reads is.
THEOREM OrderInvariance == Spec => []OrderInv
<1>1. Init => OrderInv
    <2> SUFFICES ASSUME Init PROVE ParamsOK
        BY DEF Init, OrderInv
    <2>1. CASE clean = TRUE /\ params = Empty
        BY <2>1 DEF Init, ParamsOK, Empty, Field, Amounts
    <2>2. CASE clean = FALSE /\ \E t \in OrderType \cup {"garbage"},
                                  s \in {"BUY", "SELL", "garbage"} :
                                  params = [Empty EXCEPT !.type = t, !.side = s]
        <3> PICK t \in OrderType \cup {"garbage"}, s \in {"BUY", "SELL", "garbage"} :
                  params = [Empty EXCEPT !.type = t, !.side = s]
            BY <2>2
        <3>1. DOMAIN params = Field
            BY DEF Empty
        <3>2. params["side"] = s /\ params["type"] = t
            BY DEF Empty, Field
        <3>3. \A f \in Field \ {"type", "side"} : params[f] = Empty[f]
            BY DEF Empty
        <3>4. Domain("side") = {"BUY", "SELL"}
            BY DEF Domain, Amounts
        <3> QED BY <2>2, <3>1, <3>2, <3>3, <3>4 DEF Init, ParamsOK
    <2> QED BY <2>1, <2>2 DEF Init
<1>2. OrderInv /\ [Next]_vars => OrderInv'
    <2> SUFFICES ASSUME OrderInv, [Next]_vars PROVE OrderInv'
        OBVIOUS
    <2>1. ASSUME NEW f \in Field, NEW v \in Domain(f), Set(f, v) PROVE OrderInv'
        <3>1. Field' = Field /\ Empty' = Empty /\ Amounts' = Amounts
            BY <2>1 DEF Set, Field, Amounts, Empty
        <3>2. \A g \in Field : Domain(g)' = Domain(g)
            BY <2>1 DEF Set, Domain, Amounts
        <3>3. /\ DOMAIN params' = Field /\ params'[f] = v
              /\ \A g \in Field \ {f} : params'[g] = params[g]
            BY <2>1 DEF Set, OrderInv, ParamsOK
        <3>4. f \in {"type", "side"} => v # "garbage"
            BY <2>1 DEF Domain, Amounts, OrderType
        <3>5. {"type", "side"} \subseteq Field
            BY DEF Field
        <3>6. /\ DOMAIN params' = Field' /\ chosen' \subseteq Field'
              /\ market' \in {"SPOT", "FUTURES"} /\ clean' \in BOOLEAN /\ query' = {}
            BY <2>1, <3>1, <3>3 DEF Set, OrderInv, ParamsOK
        <3>7. \A g \in Field' : \/ params'[g] \in Domain(g)' \/ params'[g] = Empty'[g]
                                \/ g \in {"type", "side"} /\ params'[g] \in OrderType \cup {"garbage"}
            BY <3>1, <3>2, <3>3 DEF OrderInv, ParamsOK
        <3>8. /\ \A g \in Field' : params'[g] = Empty'[g] \/ g \in chosen'
                                      \/ (~clean' /\ g \in {"type", "side"})
              /\ \A g \in {"type", "side"} : params'[g] = "garbage" => ~clean' /\ g \notin chosen'
            BY <2>1, <3>1, <3>3, <3>4, <3>5 DEF Set, Withdraws, OrderInv, ParamsOK
        <3> QED BY <3>6, <3>7, <3>8 DEF OrderInv, ParamsOK
    <2>2. CASE Reset
        <3>1. Field' = Field /\ Empty' = Empty
            BY <2>2 DEF Reset, Field, Amounts, Empty
        <3>2. Empty["type"] = "MARKET" /\ Empty["side"] = "BUY" /\ DOMAIN Empty = Field
            BY DEF Empty, Field, Amounts
        <3> QED BY <2>2, <3>1, <3>2 DEF Reset, OrderInv, ParamsOK
    <2>3. ASSUME UNCHANGED <<market, params, clean, chosen>>,
                 \A q \in query' : q \in query \/ Read(q)
          PROVE  OrderInv'
        <3>1. ParamsOK'
            BY <2>3 DEF OrderInv, ParamsOK, Field, Amounts, Domain, Empty
        <3>2. \A q \in query' : ParamOK(q)
            BY <2>3, ReadOK DEF OrderInv
        <3>3. ASSUME NEW q \in query' PROVE ParamOK(q)'
            BY <2>3, <3>2 DEF ParamOK, Chosen, Default, Empty, Field, Amounts, Sound
        <3> QED BY <3>1, <3>3 DEF OrderInv
    <2>4. CASE SendSpot
        BY <2>3, <2>4, SpotRead DEF SendSpot, OrderInv
    <2>5. CASE SendFutures
        BY <2>3, <2>5, FuturesRead DEF SendFutures, OrderInv
    <2>6. CASE SendThrows
        BY <2>3, <2>6 DEF SendThrows
    <2>7. CASE UNCHANGED vars
        BY <2>3, <2>7 DEF vars
    <2> QED BY <2>1, <2>2, <2>4, <2>5, <2>6, <2>7 DEF Next
<1> QED BY <1>1, <1>2, PTL DEF Spec

\* The values of the variables, for every set of amounts: an absent value (no
\* timestamp, no position side, no client id) is never sent.
THEOREM OrderTypeCorrect == Spec => []TypeOK
<1>1. OrderInv => TypeOK
    BY DEF OrderInv, ParamsOK, ParamOK, TypeOK
<1> QED BY <1>1, OrderInvariance, PTL

\* After reset, or from empty parameters, no parameter of an earlier order is
\* sent, whatever was set, sent and reset before; nor, without either, is an
\* indeterminate one, once side and type were set.
THEOREM OnlyChosenSent == Spec => []ValuesChosen
<1>1. OrderInv => ValuesChosen
    BY DEF OrderInv, ParamOK, ValuesChosen, Sound
<1> QED BY <1>1, OrderInvariance, PTL

\* Every amount of 0.001 or more that does not end in five zeros is sent
\* without an exponent, however many digits it has.
THEOREM PlainNumbers == Spec => []PlainInRange
<1>1. OrderInv => PlainInRange
    <2> SUFFICES ASSUME OrderInv, NEW q \in query, q[3] # "", q[2] # Zero,
                        Exponent(q[2][1], q[2][2]) >= -3, q[2][2] <= 4
                 PROVE  q[3] = "fixed"
        BY DEF PlainInRange
    <2>1. q[2] \in Amount /\ q[3] = Notation(q[2])
        BY DEF OrderInv, ParamOK
    <2> QED BY <2>1, PlainNotation, OrderAssumption
<1> QED BY <1>1, OrderInvariance, PTL

-----------------------------------------------------------------------------
(* The timestamp of a spot order. *)

\* Each pair has the name it is built with.
LEMMA Named ==
    ASSUME NEW n, NEW v
    PROVE  /\ \A q \in Word(n, v) : q[1] = n
           /\ \A q \in Number(n, v) : q[1] = n
           /\ \A q \in Positive(n, v) : q[1] = n
BY DEF Word, Number, Positive

\* No other part of a spot query is called timestamp.
LEMMA OtherNames ==
    ASSUME Supported(params), NEW q \in Common(params) \cup ClientId(params) \cup SpotDetails(params)
    PROVE  q[1] # "timestamp"
<1>1. CASE q \in Common(params) \cup ClientId(params)
    BY <1>1, Named DEF Common, ClientId
<1>2. CASE q \in SpotDetails(params)
    <2>1. CASE params["type"] = "LIMIT"
        BY <1>2, <2>1, Named DEF SpotDetails
    <2>2. CASE params["type"] = "MARKET"
        BY <1>2, <2>2, Named DEF SpotDetails
    <2>3. CASE params["type"] \in {"STOP_LOSS", "TAKE_PROFIT"}
        BY <1>2, <2>3, Named DEF SpotDetails
    <2>4. CASE params["type"] \in {"STOP_LOSS_LIMIT", "TAKE_PROFIT_LIMIT"}
        BY <1>2, <2>4, Named DEF SpotDetails
    <2>5. CASE params["type"] = "OCO"
        BY <1>2, <2>5, Named DEF SpotDetails
    <2> QED BY <2>1, <2>2, <2>3, <2>4, <2>5 DEF Supported
<1> QED BY <1>1, <1>2

LEMMA OneTimestamp ==
    ASSUME Supported(params)
    PROVE  {q[2] : q \in {p \in SpotQuery(params) : p[1] = "timestamp"}}
              = {IF params["timestamp"] = "set" THEN "set" ELSE "now"}
<1> DEFINE t == IF params["timestamp"] = "set" THEN "set" ELSE "now"
           stamp == <<"timestamp", t, "">>
           others == Common(params) \cup ClientId(params) \cup SpotDetails(params)
<1>1. SpotQuery(params) = others \cup {stamp}
    BY DEF SpotQuery, Word
<1>2. \A q \in others : q[1] # "timestamp"
    BY OtherNames
<1>3. stamp[1] = "timestamp" /\ stamp[2] = t
    OBVIOUS
<1> HIDE DEF others, stamp, t
<1>4. {p \in SpotQuery(params) : p[1] = "timestamp"} = {stamp}
    BY <1>1, <1>2, <1>3
<1>5. {q[2] : q \in {stamp}} = {t}
    BY <1>3
<1> QED BY <1>4, <1>5 DEF t

\* The builder holds a timestamp exactly if this order was given one.
StampInv ==
    /\ params["timestamp"] = IF "timestamp" \in chosen THEN "set" ELSE "unset"
    /\ SpotTimestampedOnce

\* Every spot order is sent with one timestamp, its own or the time of sending.
THEOREM SpotTimestamps == Spec => []SpotTimestampedOnce
<1> "timestamp" \in Field
    BY DEF Field
<1>1. Init => StampInv
    <2>1. Empty["timestamp"] = "unset"
        BY DEF Empty, Field, Amounts
    <2>2. ASSUME NEW t, NEW s
          PROVE  [Empty EXCEPT !.type = t, !.side = s]["timestamp"] = "unset"
        BY <2>1 DEF Empty
    <2> QED BY <2>1, <2>2 DEF Init, StampInv, SpotTimestampedOnce
<1>2. ASSUME OrderInv, StampInv, [Next]_vars PROVE StampInv'
    <2> USE <1>2 DEF StampInv
    <2>1. ASSUME NEW f \in Field, NEW v \in Domain(f), Set(f, v) PROVE StampInv'
        <3>1. f = "timestamp" => v \in {"set", "unset"} /\ (Withdraws(f, v) <=> v = "unset")
            BY DEF Domain, Amounts, Withdraws, Empty, Field
        <3>2. params'["timestamp"] = IF f = "timestamp" THEN v ELSE params["timestamp"]
            BY <2>1 DEF Set, OrderInv, ParamsOK
        <3>3. /\ chosen' = IF Withdraws(f, v) THEN chosen \ {f} ELSE chosen \cup {f}
              /\ query' = {}
            BY <2>1 DEF Set
        <3> QED BY <3>1, <3>2, <3>3 DEF SpotTimestampedOnce
    <2>2. CASE Reset
        <3>1. Empty["timestamp"] = "unset"
            BY DEF Empty, Field, Amounts
        <3> QED BY <2>2, <3>1 DEF Reset, SpotTimestampedOnce
    <2>3. CASE SendSpot
        <3>1. /\ query' = SpotQuery(params) /\ Supported(params)
              /\ UNCHANGED <<params, chosen>>
            BY <2>3 DEF SendSpot
        <3> QED BY <3>1, OneTimestamp DEF SpotTimestampedOnce
    <2>4. CASE SendFutures
        BY <2>4 DEF SendFutures, SpotTimestampedOnce
    <2>5. CASE SendThrows \/ UNCHANGED vars
        BY <2>5 DEF SendThrows, vars, SpotTimestampedOnce
    <2> QED BY <1>2, <2>1, <2>2, <2>3, <2>4, <2>5 DEF Next
<1>3. StampInv => SpotTimestampedOnce
    BY DEF StampInv
<1> QED BY <1>1, <1>2, <1>3, OrderInvariance, PTL DEF Spec

=============================================================================
