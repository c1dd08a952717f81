---------------------------- MODULE MCUiCalibration ----------------------------
(* UiCalibration for TLC: windows of six by three cells and of four by three.    *)
EXTENDS UiCalibration

Rectangle(l, t, r, b) == [left |-> l, top |-> t, right |-> r, bottom |-> b]

MCSizes == {[w |-> 11, h |-> 5], [w |-> 7, h |-> 6]}

\* A bar along the top, a column below its left end, one along the right edge, and
\* a bar in the middle.
MCPanels == {Rectangle(0, 0, 4, 1), Rectangle(0, 1, 1, 4), Rectangle(10, 0, 11, 5),
             Rectangle(4, 2, 10, 3)}

\* Nothing moves, or what covers one cell and part of another.
MCFlickers == {{}, {<<4, 2>>, <<4, 3>>, <<5, 3>>, <<6, 2>>}}
===============================================================================
