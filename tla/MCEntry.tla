-------------------------------- MODULE MCEntry --------------------------------
(* Two guests with a tab each, who share the limits on guests, or a         *)
(* registered user with two tabs.  Registered users share nothing, and a    *)
(* guest's tabs share what a tab that is loaded anew shares with its past.  *)
EXTENDS Entry, TLC

CONSTANTS ana, ben, tab1, tab2

BothUsers == {ana, ben}
BothTabs == {tab1, tab2}
MCInit == EntryInit /\ owner[tab1] = ana /\ owner[tab2] = (IF demo THEN ben ELSE ana)
MCSpec == MCInit /\ [][EntryNext]_entryVars

Alike == Permutations(BothTabs)
=============================================================================
