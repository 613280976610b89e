---------------------------- MODULE MCInlineOuter ----------------------------
(* InlineOuter with a gauge that reads fracture, indifference, the band    *)
(* and its far end.                                                        *)
EXTENDS InlineOuter

MCGaps == {-100, -5, 20}
==============================================================================
