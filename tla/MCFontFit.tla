----------------------------- MODULE MCFontFit -----------------------------
\* Two tabs, two grids, panes and faces; one cell may be too large even for the
\* smallest size, another too small even for the largest.
EXTENDS FontFit

MCRoom == [x \in Grid \X Pane \X Face |-> 3 * x[2] - x[1] - x[3]]
=============================================================================
