----------------------------- MODULE MCUserStore -----------------------------
\* Instance of UserStore for TLC.
EXTENDS UserStore, TLC

CONSTANTS c1, c2

MCClients == {c1, c2}
ClientSymmetry == Permutations(MCClients)

\* One device and two blank ids.
MCDeviceIDs == {"d", "", " "}
MCTrim == [id \in MCDeviceIDs |-> IF id = "d" THEN "d" ELSE ""]

MCAttributes == {"EMail", "UserName"}

\* Two users that differ in every attribute.
MCUsers == {[a \in MCAttributes |-> v] : v \in {"x", "y"}}
=============================================================================
