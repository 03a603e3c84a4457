----------------------------- MODULE MCUserData -----------------------------
EXTENDS UserData
CONSTANTS v1, v2
MCLists == {<<>>, <<v1, v2>>, <<v2, v2>>}
MCNames == Permutations(Names)
MCSets == {{v2}, {v1, v2}}
=============================================================================
