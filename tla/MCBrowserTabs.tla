--------------------------- MODULE MCBrowserTabs ---------------------------
\* Tabs of two workspaces: the third in one, the others in the other.
EXTENDS BrowserTabs

MCWsOf == [t \in 1..NTabs |-> IF t = 3 THEN "w2" ELSE "w1"]
=============================================================================
