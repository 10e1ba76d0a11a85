---------------------------- MODULE MCSysmonHost ----------------------------
\* The instance of SysmonHost the model checker runs.
EXTENDS SysmonHost, TLC
CONSTANTS cpu0, cpu1
TwoCores == {cpu0, cpu1}
OneCore == {cpu0}
NoGuests == {"user", "idle"}
WithGuests == {"user", "guest", "idle"}
MemoryInUse == {[total |-> 2, available |-> 1]}
MoreAvailable == {[total |-> 1, available |-> 2]}
Symmetry == Permutations(Cores)
=============================================================================
