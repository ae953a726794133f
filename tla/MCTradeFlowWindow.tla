------------------------- MODULE MCTradeFlowWindow -------------------------
\* An instance of TradeFlowWindow for TLC.
EXTENDS TradeFlowWindow
=============================================================================
