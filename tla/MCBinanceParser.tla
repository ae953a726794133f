--------------------------- MODULE MCBinanceParser ---------------------------
(* Messages for BinanceParser: complete ones, and each of them with a field  *)
(* left out, of another type, or with another value.                         *)
EXTENDS BinanceParser

Field(key, type, value) == [key |-> key, type |-> type, value |-> value]

BTCUSDT == <<"BTCUSDT">>
Known   == {BTCUSDT}

\* Texts around the limit of the type (255), and all shorter ones.
Characters == {"0", "2", "5", "6", ".", "-"}
Texts == UNION {[1 .. n -> Characters] : n \in 0 .. 3}
           \union {<<"2", "5", ".", c>> : c \in Characters}
           \union {<<"2", ".", "5", c>> : c \in Characters}
           \union {<<"0", ".", "5", "2", "6">>}

One  == <<"2", ".", "5">>
Two  == <<"0", ".", "2", "5">>
Bad  == <<"-", "2">>
Long == <<"2", ".", "5", "0", "0">>

\* Rows: pairs of decimals, one that has a text that is none or is too long,
\* and ones with too few or too many strings.
SomeRows  == {<<One, Two>>, <<Two, One>>, <<Bad, One>>, <<One, Bad>>, <<Long, One>>,
              <<>>, <<One>>, <<One, Two, Two>>}
Sides     == UNION {[1 .. n -> SomeRows] : n \in 0 .. 2}
               \union {<<<<One, Two>>, row, <<Two, One>>>> : row \in SomeRows}
FewSides  == {<<>>, <<<<Two, Two>>>>, <<<<Bad, Two>>, <<Two, Two>>>>,
              <<<<One, One>>, <<One, Two>>, <<Two, Two>>>>}

\* Every field, in its turn, left out or of another type.
OtherValues == {[type |-> "String", value |-> <<"x">>], [type |-> "Number", value |-> 1],
                [type |-> "Bool", value |-> TRUE], [type |-> "Other", value |-> 0],
                [type |-> "nested", value |-> 0], [type |-> "deep", value |-> 0]}

Variants(fields) ==
  {RemoveAt(fields, i) : i \in DOMAIN fields}
    \union {ReplaceAt(fields, i, Field(fields[i].key, other.type, other.value)) :
              i \in DOMAIN fields, other \in OtherValues}

DepthEvent(bids, asks) ==
  <<Field("e", "String", <<"depthUpdate">>), Field("E", "Number", 7),
    Field("s", "String", BTCUSDT), Field("U", "Number", 3), Field("u", "Number", 4),
    Field("b", "rows", bids), Field("a", "rows", asks), Field("x", "Number", 0)>>

Trade(price, quantity) ==
  <<Field("e", "String", <<"trade">>), Field("E", "Number", 7), Field("s", "String", BTCUSDT),
    Field("p", "String", price), Field("q", "String", quantity), Field("m", "Bool", TRUE),
    Field("x", "rows", <<<<One>>>>)>>

Snapshot(bids, asks) ==
  <<Field("lastUpdateId", "Number", 3), Field("bids", "rows", bids), Field("asks", "rows", asks),
    Field("x", "String", <<"x">>)>>

Stream(name) == Field("stream", "String", <<name>>)
Data(fields) == Field("data", "object", fields)

SomeDepth == DepthEvent(<<<<One, Two>>>>, <<<<Two, One>>>>)

DepthEvents ==
  {DepthEvent(bids, asks) : bids \in Sides, asks \in FewSides}
    \union Variants(SomeDepth) \union {Reverse(SomeDepth)}
Trades ==
  {Trade(text, One) : text \in Texts} \union {Trade(One, text) : text \in Texts}
    \union Variants(Trade(One, Two)) \union {Reverse(Trade(One, Two))}
AllSnapshots ==
  {Snapshot(bids, asks) : bids \in Sides, asks \in FewSides}
    \union Variants(Snapshot(<<<<One, Two>>>>, <<<<Two, One>>>>))

\* The wrapper, and what is wrong with it.
Wrappers ==
  {<<Stream("@depth"), Data(fields)>> : fields \in DepthEvents}
    \union {<<Stream("@trade"), Data(fields)>> : fields \in Trades}
    \union {<<Stream("@trade"), Data(SomeDepth)>>, <<Stream("@depth"), Data(Trade(One, Two))>>,
            <<Data(SomeDepth), Stream("@depth")>>, <<Stream("@other"), Data(SomeDepth)>>,
            <<Stream("@depth")>>, <<Data(SomeDepth)>>, <<>>}
    \union {<<Stream("@depth"), Field("x", other.type, other.value), Data(SomeDepth)>> :
              other \in OtherValues}
    \union {<<Stream("@depth"), Field("data", other.type, other.value)>> :
              other \in OtherValues \ {[type |-> "nested", value |-> 0]}}

\* Messages whose root is an object, and ones that are a bare value.
Whole(call, fields) == [call |-> call, root |-> "object", fields |-> fields]
Bare(call, other) ==
  [call |-> call, root |-> "value", fields |-> <<Field("", other.type, other.value)>>]

AllMessages ==
  {Whole("ParseEvent", fields) : fields \in Wrappers}
    \union {Whole("ParseOrderBookSnapshot", fields) : fields \in AllSnapshots}
    \union {Bare(call, other) : call \in {"ParseEvent", "ParseOrderBookSnapshot"},
                               other \in OtherValues \ {[type |-> "nested", value |-> 0]}}

\* Messages that leave something in every member of the handlers.
Leaving ==
  {Whole("ParseEvent", <<Stream("@depth"), Data(fields)>>) :
     fields \in {DepthEvent(<<<<Two, Two>>, <<One>>>>, <<<<One, One>>, <<Bad, One>>>>)}}
    \union {Whole("ParseEvent", <<Stream("@trade"), Data(Trade(One, Two))>>),
            Whole("ParseOrderBookSnapshot",
                  Snapshot(<<<<Two, Two>>, <<Bad, One>>>>, <<<<One, One>>, <<One>>>>))}

=============================================================================
