---------------------------- MODULE MCVirtualHid ----------------------------
EXTENDS VirtualHid, TLC

\* As in the table of cgvhid_client.cpp, whose first entry is for 0x01 but is
\* found at 0: up to 0x18 each virtual key has the code of the next.
MCVkToScancode == "VK_TAB" :> KEY_NONE

\* The sessions are interchangeable, and so are the keys.
Symmetry == Permutations(Session) \cup Permutations(Key)
=============================================================================
