--------------------------- MODULE BinanceParser ---------------------------
(***************************************************************************)
(* ParseEvent and ParseOrderBookSnapshot (lib/binance/parser.cpp).  A JSON *)
(* reader reads a message token by token and calls back a handler, which   *)
(* may refuse; a message that was read to its end is released.  The        *)
(* handlers are static: they are reset before each message, whatever the   *)
(* last one left in them.                                                  *)
(*                                                                         *)
(* An event is wrapped into an object that names its stream; the handler   *)
(* of the wrapper (CombinedSaxHandler) passes what is inside "data" on to  *)
(* the handler of depth events or of trades.                               *)
(*                                                                         *)
(* The root of a message is an object, which is a sequence of fields, or a *)
(* bare value, that of its only field.  Tokens says what the reader calls  *)
(* for a message.  The times of events are left out.                       *)
(***************************************************************************)
EXTENDS FixedDecimal

CONSTANTS
  Symbols, Row0Cap, MaxLevels,  \* see DepthSaxHandler
  BookDepth,                    \* kOrderBookDepth
  Messages,                     \* messages that may come
  FirstMessages,                \* bound: those that may come first
  MaxMessages                   \* bound: messages in a behaviour

\* A row is an array of strings: the two of a level and, at most, one short one behind.
Rows == {row \in Seq(Seq(STRING)) : Len(row) <= 3 /\ (Len(row) = 3 => Len(row[3]) <= Row0Cap)}

\* A field is a key with a value of one of these types: String, Number, Bool, Other (null
\* or a fraction), rows, and what no message should have, an object (nested) or an array
\* of arrays of arrays (deep).
Fields ==
       [key : STRING, type : {"String"}, value : Seq(STRING)]
  \cup [key : STRING, type : {"Number", "Other", "nested", "deep"}, value : Nat]
  \cup [key : STRING, type : {"Bool"}, value : BOOLEAN]
  \cup [key : STRING, type : {"rows"}, value : Seq(Rows)]

\* A key occurs once in an object.
Distinct(fields) == \A i, j \in DOMAIN fields : fields[i].key = fields[j].key => i = j

Objects == {fields \in Seq(Fields) : Distinct(fields)}

\* The data of an event, which has no rows where a trade has a string, and the wrapper,
\* in which no object but the data has fields.
DataObjects ==
  {fields \in Objects : \A i \in DOMAIN fields :
                          fields[i].type = "rows" => fields[i].key \notin {"e", "s", "p", "q"}}
EventFields == Fields \cup [key : {"data"}, type : {"object"}, value : DataObjects]
Events ==
  {fields \in Seq(EventFields) :
     /\ Distinct(fields)
     /\ \A i \in DOMAIN fields : fields[i].key \in {"stream", "data"} => fields[i].type # "nested"}

ASSUME ParserAssumption ==
  /\ Row0Cap \in Nat /\ MaxLevels \in Nat /\ BookDepth \in Nat /\ MaxMessages \in Nat
  /\ \A m \in FirstMessages \union Messages :
        /\ \/ m.call = "ParseEvent" /\ m.fields \in Events
           \/ m.call = "ParseOrderBookSnapshot" /\ m.fields \in Objects
        /\ \/ m.root = "object"
           \/ m.root = "value" /\ Len(m.fields) = 1 /\ m.fields[1].type \notin {"object", "nested"}

VARIABLES
  wrapper, depth, trade, snapshot,  \* the handlers
  accepted,                         \* what the last callback returned
  message,                          \* the message of the last call
  reading, rest,                    \* the call goes on, tokens still to be read
  result, released,                 \* what it returned and called back
  cut,                              \* history: the message was no JSON
  messages                          \* number of messages so far

DepthHandler    == INSTANCE DepthSaxHandler
TradeHandler    == INSTANCE TradeSaxHandler
SnapshotHandler == INSTANCE SnapshotSaxHandler

outcome == <<result, released>>
parser  == <<wrapper, depth, trade, snapshot, accepted, message, reading, rest, outcome,
             cut, messages>>

-----------------------------------------------------------------------------
(* Messages and their tokens.                                              *)

Token(call, value) == [call |-> call, value |-> value]

TokensOfRow(row) ==
  <<Token("StartArray", 0)>> \o [i \in DOMAIN row |-> Token("String", row[i])]
    \o <<Token("EndArray", 0)>>

TokensOfValue(field) ==
  CASE field.type = "rows" ->
         <<Token("StartArray", 0)>>
           \o FlattenSeq([i \in DOMAIN field.value |-> TokensOfRow(field.value[i])])
           \o <<Token("EndArray", 0)>>
    [] field.type = "nested" -> <<Token("StartObject", 0), Token("EndObject", 0)>>
    [] field.type = "deep" ->
         <<Token("StartArray", 0), Token("StartArray", 0), Token("StartArray", 0),
           Token("EndArray", 0), Token("EndArray", 0), Token("EndArray", 0)>>
    [] field.type \notin {"rows", "nested", "deep"} -> <<Token(field.type, field.value)>>

TokensOfFields(fields) ==
  <<Token("StartObject", 0)>>
    \o FlattenSeq([i \in DOMAIN fields |->
                     <<Token("Key", fields[i].key)>> \o TokensOfValue(fields[i])])
    \o <<Token("EndObject", 0)>>

TokensOfWrapped(field) ==
  IF field.type = "object" THEN TokensOfFields(field.value) ELSE TokensOfValue(field)

Tokens(m) ==
  IF m.root = "value" THEN TokensOfValue(m.fields[1])
  ELSE IF m.call = "ParseOrderBookSnapshot" THEN TokensOfFields(m.fields)
  ELSE <<Token("StartObject", 0)>>
         \o FlattenSeq([i \in DOMAIN m.fields |->
                          <<Token("Key", m.fields[i].key)>> \o TokensOfWrapped(m.fields[i])])
         \o <<Token("EndObject", 0)>>

-----------------------------------------------------------------------------
(* The handler of the wrapper.                                             *)

Fresh ==
  [pendingStream |-> FALSE, stream |-> <<>>, expectData |-> FALSE, sawData |-> FALSE,
   inData |-> FALSE, isDepth |-> FALSE, release |-> FALSE, releaseDepth |-> FALSE]

CombinedReset ==
  /\ wrapper' = Fresh
  /\ DepthHandler!DepthReset /\ TradeHandler!TradeReset

Wrap(members, answer) ==
  wrapper' = members /\ accepted' = answer /\ UNCHANGED <<depth, trade>>

\* The callback goes to the handler of the data.
ToDepth(action) == wrapper.isDepth /\ action /\ UNCHANGED <<wrapper, trade>>
ToTrade(action) == ~wrapper.isDepth /\ action /\ UNCHANGED <<wrapper, depth>>

CombinedString(string) ==
  \/ /\ wrapper.expectData
     /\ Wrap(wrapper, FALSE)
  \/ /\ ~wrapper.expectData /\ wrapper.inData
     /\ \/ ToDepth(DepthHandler!DepthString(string))
        \/ ToTrade(TradeHandler!TradeString(string))
  \/ /\ ~wrapper.expectData /\ ~wrapper.inData
     /\ Wrap(IF wrapper.pendingStream
             THEN [wrapper EXCEPT !.pendingStream = FALSE, !.stream = string]
             ELSE wrapper, TRUE)

CombinedNumber(number) ==
  \/ /\ wrapper.expectData \/ ~wrapper.inData
     /\ Wrap(wrapper, FALSE)
  \/ /\ ~wrapper.expectData /\ wrapper.inData
     /\ \/ ToDepth(DepthHandler!DepthNumber(number))
        \/ ToTrade(TradeHandler!TradeNumber)

CombinedBool(bool) ==
  \/ /\ wrapper.expectData \/ ~wrapper.inData \/ wrapper.isDepth
     /\ Wrap(wrapper, FALSE)
  \/ /\ ~wrapper.expectData /\ wrapper.inData
     /\ ToTrade(TradeHandler!TradeBool(bool))

\* Null and Double.
CombinedOther == Wrap(wrapper, FALSE)

CombinedKey(key) ==
  \/ /\ wrapper.inData
     /\ \/ ToDepth(DepthHandler!DepthKey(key))
        \/ ToTrade(TradeHandler!TradeKey(key))
  \/ /\ ~wrapper.inData
     /\ Wrap([wrapper EXCEPT !.pendingStream = @ \/ key = "stream",
                             !.expectData = @ \/ key = "data"], TRUE)

\* IsDepthStream and IsTradeStream of the names that are of interest.
Streams == {<<"@depth">>, <<"@trade">>}

\* The object of the data, the object of the message, or one that is ignored.
CombinedStartObject ==
  \/ /\ wrapper.expectData /\ wrapper.stream \notin Streams
     /\ Wrap([wrapper EXCEPT !.expectData = FALSE], FALSE)
  \/ /\ wrapper.expectData /\ wrapper.stream \in Streams
     /\ wrapper' = [wrapper EXCEPT !.expectData = FALSE, !.sawData = TRUE, !.inData = TRUE,
                                   !.isDepth = (wrapper.stream = <<"@depth">>)]
     /\ \/ wrapper'.isDepth /\ DepthHandler!DepthStartObject /\ UNCHANGED trade
        \/ ~wrapper'.isDepth /\ TradeHandler!TradeStartObject /\ UNCHANGED depth
  \/ /\ ~wrapper.expectData
     /\ Wrap(wrapper, ~wrapper.inData)

\* The end of the data is what makes it ready for release.
CombinedEndObject ==
  \/ /\ wrapper.inData
     /\ \/ wrapper.isDepth /\ DepthHandler!DepthEndObject /\ UNCHANGED trade
        \/ ~wrapper.isDepth /\ TradeHandler!TradeEndObject /\ UNCHANGED depth
     /\ wrapper' = IF accepted' THEN [wrapper EXCEPT !.release = TRUE, !.inData = FALSE,
                                                     !.releaseDepth = wrapper.isDepth]
                                ELSE wrapper
  \/ /\ ~wrapper.inData
     /\ Wrap(wrapper, TRUE)

CombinedStartArray ==
  \/ /\ wrapper.expectData \/ ~wrapper.inData
     /\ Wrap(wrapper, FALSE)
  \/ /\ ~wrapper.expectData /\ wrapper.inData
     /\ ToDepth(DepthHandler!DepthStartArray) \/ ToTrade(TradeHandler!TradeArray)

CombinedEndArray ==
  \/ /\ ~wrapper.inData
     /\ Wrap(wrapper, FALSE)
  \/ /\ wrapper.inData
     /\ ToDepth(DepthHandler!DepthEndArray) \/ ToTrade(TradeHandler!TradeArray)

-----------------------------------------------------------------------------
(* A call reads a message to its end or to the first token that a handler  *)
(* refuses or that is no JSON.                                             *)

ParserInit ==
  /\ wrapper = Fresh /\ DepthHandler!DepthInit /\ TradeHandler!TradeInit
  /\ SnapshotHandler!SnapshotInit /\ accepted = TRUE
  /\ message = [call |-> "none", root |-> "value", fields |-> <<>>] /\ reading = FALSE /\ rest = <<>>
  /\ result = FALSE /\ released = <<>> /\ cut = FALSE /\ messages = 0

IsEvent == message.call = "ParseEvent"

\* Bound: the functions have handlers of their own and do not meet, so a
\* behaviour calls one of them only.
MayCome ==
  IF messages = 0 THEN FirstMessages ELSE {m \in Messages : m.call = message.call}

\* JsonRootIsObject, which only ParseOrderBookSnapshot asks.
RootIsObject(m) == m.root = "object"

Begin(m) ==
  /\ messages' = messages + 1 /\ message' = m /\ cut' = FALSE
  /\ result' = FALSE /\ released' = <<>>
  /\ \/ /\ m.call = "ParseEvent"
        /\ reading' = TRUE /\ rest' = Tokens(m)
        /\ CombinedReset /\ UNCHANGED snapshot
     \/ /\ m.call = "ParseOrderBookSnapshot" /\ RootIsObject(m)
        /\ reading' = TRUE /\ rest' = Tokens(m)
        /\ SnapshotHandler!SnapshotReset /\ UNCHANGED <<wrapper, depth, trade>>
     \/ /\ m.call = "ParseOrderBookSnapshot" /\ ~RootIsObject(m)
        /\ reading' = FALSE /\ rest' = <<>>
        /\ UNCHANGED <<wrapper, depth, trade, snapshot>>
  /\ UNCHANGED accepted

EventCallback(token) ==
  /\ IsEvent /\ UNCHANGED snapshot
  /\ \/ token.call = "String" /\ CombinedString(token.value)
     \/ token.call = "Number" /\ CombinedNumber(token.value)
     \/ token.call = "Bool" /\ CombinedBool(token.value)
     \/ token.call = "Other" /\ CombinedOther
     \/ token.call = "Key" /\ CombinedKey(token.value)
     \/ token.call = "StartObject" /\ CombinedStartObject
     \/ token.call = "EndObject" /\ CombinedEndObject
     \/ token.call = "StartArray" /\ CombinedStartArray
     \/ token.call = "EndArray" /\ CombinedEndArray

SnapshotCallback(token) ==
  /\ ~IsEvent /\ UNCHANGED <<wrapper, depth, trade>>
  /\ \/ token.call = "String" /\ SnapshotHandler!SnapshotString(token.value)
     \/ token.call = "Number" /\ SnapshotHandler!SnapshotNumber(token.value)
     \/ token.call \in {"Bool", "Other"} /\ SnapshotHandler!Refuse
     \/ token.call = "Key" /\ SnapshotHandler!SnapshotKey(token.value)
     \/ token.call = "StartObject" /\ SnapshotHandler!SnapshotStartObject
     \/ token.call = "EndObject" /\ SnapshotHandler!SnapshotEndObject
     \/ token.call = "StartArray" /\ SnapshotHandler!SnapshotStartArray
     \/ token.call = "EndArray" /\ SnapshotHandler!SnapshotEndArray

ReadToken ==
  /\ reading /\ rest # <<>>
  /\ EventCallback(Head(rest)) \/ SnapshotCallback(Head(rest))
  /\ rest' = IF accepted' THEN Tail(rest) ELSE <<>>
  /\ reading' = accepted'
  /\ UNCHANGED <<message, outcome, cut, messages>>

SyntaxError ==
  /\ reading /\ rest # <<>>
  /\ reading' = FALSE /\ rest' = <<>> /\ cut' = TRUE
  /\ UNCHANGED <<wrapper, depth, trade, snapshot, accepted, message, outcome, messages>>

\* The message has been read to its end.
Release ==
  /\ reading /\ rest = <<>>
  /\ reading' = FALSE
  /\ \/ /\ IsEvent /\ wrapper.sawData /\ wrapper.release
        /\ result' = TRUE /\ wrapper' = [wrapper EXCEPT !.release = FALSE]
        /\ released' = IF wrapper.releaseDepth THEN DepthHandler!DepthRelease
                                               ELSE <<TradeHandler!TradeRelease>>
     \/ /\ IsEvent /\ ~wrapper.sawData
        /\ UNCHANGED <<outcome, wrapper>>
     \/ /\ ~IsEvent
        /\ result' = TRUE /\ released' = <<SnapshotHandler!SnapshotRelease>>
        /\ UNCHANGED wrapper
  /\ UNCHANGED <<depth, trade, snapshot, accepted, message, rest, cut, messages>>

ParserNext ==
  \/ ~reading /\ messages < MaxMessages /\ \E m \in MayCome : Begin(m)
  \/ ReadToken \/ SyntaxError \/ Release

ParserSpec == ParserInit /\ [][ParserNext]_parser

-----------------------------------------------------------------------------
(* What messages mean, said without a reader.                              *)

Prefix(rows, Ends(_)) ==
  LET kept == {k \in 0 .. Len(rows) : \A i \in 1 .. k : ~Ends(rows[i])}
  IN  SubSeq(rows, 1, CHOOSE k \in kept : \A other \in kept : other <= k)

\* The digits of a text with as many decimal places, the rest of them cut off;
\* places that are missing count as zeros.
Scaled(text, places) ==
  LET before == Prefix(text, LAMBDA c : c = ".")
      after  == SubSeq(text, Len(before) + 2, Len(text))
      digits == before \o [i \in 1 .. places |-> IF i <= Len(after) THEN after[i] ELSE "0"]
      value[n \in 0 .. Len(digits)] ==
        IF n = 0 THEN 0 ELSE value[n - 1] * 10 + DigitOf(digits[n])
  IN  value[Len(digits)]

IsDecimal(text, places) ==
  /\ \A i \in DOMAIN text : IsDigit(text[i]) \/ text[i] = "."
  /\ \E i \in DOMAIN text : IsDigit(text[i])
  /\ \A i, j \in DOMAIN text : text[i] = "." /\ text[j] = "." => i = j
  /\ Scaled(text, places) <= UintMax

Usable(row) ==
  /\ Len(row) >= 2 /\ Len(row[1]) <= Row0Cap
  /\ IsDecimal(row[1], PriceShift) /\ IsDecimal(row[2], QuantityShift)

LevelOf(row) == [price |-> Scaled(row[1], PriceShift), quantity |-> Scaled(row[2], QuantityShift)]

Levels(rows) ==
  LET levels[n \in 0 .. Len(rows)] ==
        IF n = 0 THEN <<>>
        ELSE IF Usable(rows[n]) THEN Append(levels[n - 1], LevelOf(rows[n])) ELSE levels[n - 1]
  IN  levels[Len(rows)]

Has(fields, key, type) == \E i \in DOMAIN fields : fields[i].key = key /\ fields[i].type = type

ValueOf(fields, key, type, default) ==
  IF Has(fields, key, type)
  THEN fields[CHOOSE i \in DOMAIN fields : fields[i].key = key].value
  ELSE default

OnlyTypes(fields, types) == \A i \in DOMAIN fields : fields[i].type \in types

RowsOnlyAt(fields, keys) == \A i \in DOMAIN fields : fields[i].type = "rows" => fields[i].key \in keys

SymbolOf(fields) == ValueOf(fields, "s", "String", <<>>)

\* The levels of one side of a depth event: those before the first row that is
\* not a pair of decimals, and what that row begins with.
DepthLevels(fields, side) ==
  LET rows  == ValueOf(fields, side, "rows", <<>>)
      plain == Prefix(rows, LAMBDA row : row # <<>> /\ ~(Len(row) = 2 /\ Usable(row)))
  IN  Levels(SubSeq(rows, 1, IF Len(plain) = Len(rows) THEN Len(rows) ELSE Len(plain) + 1))

IsDepthEvent(fields) ==
  /\ OnlyTypes(fields, {"String", "Number", "rows"}) /\ RowsOnlyAt(fields, {"b", "a"})
  /\ ValueOf(fields, "e", "String", <<>>) = <<"depthUpdate">>
  /\ \A side \in {"b", "a"} : Len(DepthLevels(fields, side)) <= MaxLevels

DepthRows(fields) ==
  LET bids   == DepthLevels(fields, "b")
      levels == bids \o DepthLevels(fields, "a")
  IN  [i \in DOMAIN levels |->
         [isBid |-> i <= Len(bids), level |-> levels[i],
          symbol |-> IF SymbolOf(fields) \in Symbols THEN SymbolOf(fields) ELSE <<>>,
          first |-> ValueOf(fields, "U", "Number", 0), last |-> ValueOf(fields, "u", "Number", 0),
          hasMore |-> i # Len(levels)]]

IsTrade(fields) ==
  /\ OnlyTypes(fields, {"String", "Number", "Bool", "rows", "deep"})
  /\ ValueOf(fields, "e", "String", <<>>) = <<"trade">>
  /\ IsDecimal(ValueOf(fields, "p", "String", <<>>), PriceShift)
  /\ IsDecimal(ValueOf(fields, "q", "String", <<>>), QuantityShift)
  /\ Has(fields, "m", "Bool")

TradeOf(fields) ==
  [symbol |-> IF SymbolOf(fields) \in Symbols THEN SymbolOf(fields) ELSE <<>>,
   price |-> Scaled(ValueOf(fields, "p", "String", <<>>), PriceShift),
   quantity |-> Scaled(ValueOf(fields, "q", "String", <<>>), QuantityShift),
   isBuyerMaker |-> ValueOf(fields, "m", "Bool", FALSE)]

\* The stream is named before its data, and nothing else but strings and
\* objects comes with them.
Wrapped(fields, stream) ==
  /\ \E i, j \in DOMAIN fields :
        i < j /\ fields[i] = [key |-> "stream", type |-> "String", value |-> stream]
              /\ fields[j].key = "data" /\ fields[j].type = "object"
  /\ OnlyTypes(fields, {"String", "object", "nested"})

\* The levels of one side of a snapshot: those before the first row that has
\* something else than decimals, as many as the book is deep.
SnapshotLevels(fields, side) ==
  LET rows   == ValueOf(fields, side, "rows", <<>>)
      levels == Levels(Prefix(rows, LAMBDA row :
                  \/ Len(row) >= 1 /\ Len(row[1]) > Row0Cap
                  \/ Len(row) >= 2 /\ ~Usable(row)))
  IN  SubSeq(levels, 1, IF Len(levels) < BookDepth THEN Len(levels) ELSE BookDepth)

IsSnapshot(fields) ==
  OnlyTypes(fields, {"String", "Number", "rows"}) /\ RowsOnlyAt(fields, {"bids", "asks"})

SnapshotOf(fields) ==
  [lastUpdateId |-> ValueOf(fields, "lastUpdateId", "Number", 0),
   bids |-> SnapshotLevels(fields, "bids"), asks |-> SnapshotLevels(fields, "asks")]

\* The last call was of this kind; it returned valid, and called back expected
\* if it did.
Outcome(valid, expected) ==
  IF valid THEN result /\ released = expected ELSE ~result /\ released = <<>>

Returned(call) == ~reading /\ messages > 0 /\ message.call = call

DataOf(fields) == ValueOf(fields, "data", "object", <<>>)

\* Whatever was parsed before, and wherever that was broken off, ParseEvent
\* passes on the levels of its own depth event, bids first, exact, with the
\* event's numbers and has_more on all but the last; and it passes on none of
\* an event that is not of the right type, has too many levels or is cut off.
DepthAsSent ==
  Returned("ParseEvent") /\ ~Wrapped(message.fields, <<"@trade">>) =>
    Outcome(/\ ~cut /\ Wrapped(message.fields, <<"@depth">>)
            /\ IsDepthEvent(DataOf(message.fields)),
            DepthRows(DataOf(message.fields)))

\* A trade is passed on exactly if it is whole: type, price, quantity and the
\* buyer's side of this message, not of one before.  Its price and quantity are
\* those of the text, no digit lost or counted twice and nothing wrapped around,
\* up to the limit of the type.
TradeAsSent ==
  Returned("ParseEvent") /\ Wrapped(message.fields, <<"@trade">>) =>
    Outcome(~cut /\ IsTrade(DataOf(message.fields)), <<TradeOf(DataOf(message.fields))>>)

\* A snapshot has the levels of its message up to one that cannot be read and
\* never more than the book has slots, and none of the snapshot before it; what
\* is no object gives no snapshot, not even an empty one.
SnapshotAsSent ==
  Returned("ParseOrderBookSnapshot") =>
    Outcome(~cut /\ message.root = "object" /\ IsSnapshot(message.fields),
            <<SnapshotOf(message.fields)>>)

=============================================================================
