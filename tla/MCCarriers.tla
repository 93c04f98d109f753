------------------------------- MODULE MCCarriers -------------------------------
(* Values of the constants of Carriers for TLC.                            *)
EXTENDS Carriers

\* The columns of height 3, as those of height 7 with a one in the first and last row.
MCColumns2 == <<{0, 2}, {0, 1, 2}>>
MCColumns3 == <<{0, 2}, {0, 1, 2}, {0, 1, 2}>>
MCCovers == {<<0, 1, 1, 0, 1>>, <<1>>}
MCOtherSizes == [other |-> {65473, 65537}, otherPhotoshop |-> {65473}, otherXmp |-> {900}]
MCCosts == {<<1>>, <<0, 2>>, <<3, 1, 1, 2>>, <<-1, 1, -1>>, <<-1>>}
=============================================================================
