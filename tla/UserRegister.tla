---------------------------- MODULE UserRegister ----------------------------
(***************************************************************************)
(* What the user table promises its clients: one register per device id.   *)
(* A call takes effect at one instant between the request and the answer;  *)
(* a call that fails has taken effect or has not.  A Get may see a user    *)
(* that was replaced, until the register has settled.                      *)
(***************************************************************************)
CONSTANTS Clients, Keys, Users, None

VARIABLES
    register,   \* the user of each key, or None
    old,        \* the replaced users of each key that may still be seen
    phase,      \* of each client: "idle", "pending" or "done"
    op,         \* the call it makes: [kind, key, user], or None
    found       \* what its Get saw

vars == <<register, old, phase, op, found>>

Ops == [kind : {"Post", "Get"}, key : Keys, user : Users \cup {None}]

Init ==
    /\ register = [k \in Keys |-> None]
    /\ old = [k \in Keys |-> {}]
    /\ phase = [c \in Clients |-> "idle"]
    /\ op = [c \in Clients |-> None]
    /\ found = [c \in Clients |-> None]

Call(c) ==
    /\ phase[c] = "idle"
    /\ \E o \in Ops : op' = [op EXCEPT ![c] = o]
    /\ phase' = [phase EXCEPT ![c] = "pending"]
    /\ UNCHANGED <<register, old, found>>

\* The instant a call takes effect.
Effect(c) ==
    /\ phase[c] = "pending"
    /\ phase' = [phase EXCEPT ![c] = "done"]
    /\ \/ /\ op[c].kind = "Post"
          /\ register' = [register EXCEPT ![op[c].key] = op[c].user]
          /\ old' = [old EXCEPT ![op[c].key] = @ \cup {register[op[c].key]}]
          /\ UNCHANGED found
       \/ /\ op[c].kind = "Get"
          /\ \E user \in {register[op[c].key]} \cup old[op[c].key] :
               found' = [found EXCEPT ![c] = user]
          /\ UNCHANGED <<register, old>>
    /\ UNCHANGED op

\* The answer of a finished call, or the failure of a call.
Answer(c) ==
    /\ phase[c] \in {"pending", "done"}
    /\ phase' = [phase EXCEPT ![c] = "idle"]
    /\ op' = [op EXCEPT ![c] = None]
    /\ found' = [found EXCEPT ![c] = None]
    /\ UNCHANGED <<register, old>>

Settle(k) ==
    /\ old' = [old EXCEPT ![k] = {}]
    /\ UNCHANGED <<register, phase, op, found>>

Next == \/ \E c \in Clients : Call(c) \/ Effect(c) \/ Answer(c)
        \/ \E k \in Keys : Settle(k)

Spec == Init /\ [][Next]_vars
=============================================================================
