--------------------------- MODULE ExchangeAdapters ---------------------------
(***************************************************************************)
(* What the four adapters of horizon/internal/exchange/ make of what an    *)
(* exchange does with an order: each operator gives the set of results     *)
(* the order manager can get.  An adapter keeps no state that matters      *)
(* between two calls (only its HTTP session), so there are no variables    *)
(* here; OrderManager calls these operators in its steps.                  *)
(***************************************************************************)

Kinds == {"binance", "htx", "bitget", "hyperliquid"}

-----------------------------------------------------------------------------
(* HTTP: the exchange's answer, and what _request makes of it *)

\* How an exchange says no: with an HTTP status of 400 or more ("error"), or with an error
\* in the body of a 200 ("errorBody").
Refusals(kind) == IF kind = "binance" THEN {"error"} ELSE {"error", "errorBody"}

\* Whatever the exchange did, its answer can get lost or be unreadable ("nothing").
Answers(kind, done) == {"nothing"} \cup IF done THEN {"result"} ELSE Refusals(kind)

\* Raises on an HTTP status of 400 or more, a client error, or a body that is not JSON.
BinanceRequest(answer) == IF answer \in {"error", "nothing"} THEN "raises" ELSE answer

\* Raises on a body with status "error", too.
HtxRequest(answer) == IF answer = "result" THEN answer ELSE "raises"

\* The code in the body is not looked at: an error in a 200 is handed on as a result.
BitgetRequest(answer) == IF answer \in {"error", "nothing"} THEN "raises" ELSE answer

-----------------------------------------------------------------------------
(* place_market_order, place_limit_order: an id, an empty id, or an exception *)

\* _parse_order_result needs an orderId.
BinancePlace(taken) ==
    {IF BinanceRequest(a) = "result" THEN "id" ELSE "raises" : a \in Answers("binance", taken)}

HtxPlace(taken) ==
    {IF HtxRequest(a) = "result" THEN "id" ELSE "raises" : a \in Answers("htx", taken)}

\* response.get("data", {}) and get("orderId", ""): an error body makes an empty id.
BitgetPlaced(r) == IF r = "result" THEN "id" ELSE IF r = "errorBody" THEN "noId" ELSE r
BitgetPlace(taken) == {BitgetPlaced(BitgetRequest(a)) : a \in Answers("bitget", taken)}

\* Not implemented: nothing is sent, the result has no id and the status "rejected".
HyperliquidPlace(taken) == IF taken THEN {} ELSE {"noId"}

PlaceResults(kind, taken) ==
    CASE kind = "binance"     -> BinancePlace(taken)
      [] kind = "htx"         -> HtxPlace(taken)
      [] kind = "bitget"      -> BitgetPlace(taken)
      [] kind = "hyperliquid" -> HyperliquidPlace(taken)

-----------------------------------------------------------------------------
(* cancel_order: TRUE for a True, FALSE for a False or an exception *)

\* Binance and HTX: True unless _request raises.
BinanceCancel(done) == {BinanceRequest(a) # "raises" : a \in Answers("binance", done)}
HtxCancel(done) == {HtxRequest(a) # "raises" : a \in Answers("htx", done)}

\* So here, too, but _request does not raise on a refusal in a 200.
BitgetCancel(done) == {BitgetRequest(a) # "raises" : a \in Answers("bitget", done)}

\* Not implemented: nothing is sent.
HyperliquidCancel(done) == IF done THEN {} ELSE {FALSE}

CancelResults(kind, done) ==
    CASE kind = "binance"     -> BinanceCancel(done)
      [] kind = "htx"         -> HtxCancel(done)
      [] kind = "bitget"      -> BitgetCancel(done)
      [] kind = "hyperliquid" -> HyperliquidCancel(done)

-----------------------------------------------------------------------------
(* fetch_open_orders: the status an order at the exchange is listed with *)

\* The status _parse_order_result makes of a live order.  "odd" is one the CHECK of the
\* orders table does not know: "unknown", or the exchange's own word handed on.
\* (Binance's "pending" counts as "submitted": the order manager treats them alike.)
Known(state) == IF state = "partial" THEN "partially_filled" ELSE "submitted"

BinanceStatus(state) == {Known(state), "odd"}
HtxStatus(state) == {Known(state), "odd"}
BitgetStatus(state) == {Known(state), "odd"}

\* What is listed, "none" for what is not.  HTX is asked for two states, both known.
IsListed(state) == state \in {"open", "partial"}

BinanceOpenOrders(state) == IF IsListed(state) THEN BinanceStatus(state) ELSE {"none"}
HtxOpenOrders(state) == IF IsListed(state) THEN HtxStatus(state) \ {"odd"} ELSE {"none"}
BitgetOpenOrders(state) == IF IsListed(state) THEN BitgetStatus(state) ELSE {"none"}

\* Always "submitted", however much is filled.
HyperliquidOpenOrders(state) == IF IsListed(state) THEN {"submitted"} ELSE {"none"}

ListedStatuses(kind, state) ==
    CASE kind = "binance"     -> BinanceOpenOrders(state)
      [] kind = "htx"         -> HtxOpenOrders(state)
      [] kind = "bitget"      -> BitgetOpenOrders(state)
      [] kind = "hyperliquid" -> HyperliquidOpenOrders(state)

\* response.get("data", []): Bitget's error body is an empty list of orders.
ListsErrorAsEmpty(kind) == kind = "bitget"

-----------------------------------------------------------------------------

\* Whether "submitted", "cancelled" and "not listed" mean what they say: the adapter does
\* not answer a placement or a cancellation that did not happen with a result, nor a
\* refused listing with an empty one.
TellsTruth(kind) ==
    /\ PlaceResults(kind, FALSE) \subseteq {"raises"}
    /\ CancelResults(kind, FALSE) \subseteq {FALSE}
    /\ ~ListsErrorAsEmpty(kind)
=============================================================================
