--------------------------- MODULE MCWealthsimple ---------------------------
(* Two accounts: the part of the first one's file takes the name of the      *)
(* second one's.  A feed with rows on both sides of since_date,  *)
(* one of them without a day.                                                *)
EXTENDS Wealthsimple
MCType == [a |-> 1, b |-> 2]
MCFile == [a |-> <<0>>, b |-> <<1, 0>>]
MCCombined == <<0>>
MCFeed == <<3, Undated, 3, 2, 1>>
MCIds == <<"p", "q">>
=============================================================================
