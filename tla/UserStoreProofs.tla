--------------------------- MODULE UserStoreProofs ---------------------------
(***************************************************************************)
(* The two-step accesses of the DAO implement an atomic register, for any  *)
(* number of clients, devices and users.                                   *)
(***************************************************************************)
EXTENDS UserStore, TLAPS

USE UserStoreAssumption, NoneAssumption

IInv == TypeOK /\ CallInv

\* What is saved is the posted user, whatever was retrieved: all attributes
\* are set.
LEMMA ModifiedIsUser ==
    ASSUME NEW old, NEW user \in Users
    PROVE  Modified(old, user) = user
<1>1. user = [a \in Attributes |-> user[a]]
  OBVIOUS
<1>2. QED
  BY <1>1 DEF Modified

LEMMA InitIInv == Init => IInv
BY DEF Init, IInv, TypeOK, CallInv, Invalid, Bodies

\* An answer leaves the process as it was before the request.
LEMMA RespondIInv ==
    ASSUME IInv, NEW c \in Clients, NEW body \in Bodies,
           Respond(c, body), UNCHANGED tableVars
    PROVE  IInv'
<1>1. TypeOK'
  BY DEF IInv, TypeOK, Respond, StatusOf, tableVars
<1>2. CallInv'
  BY DEF IInv, TypeOK, CallInv, Respond
<1>3. QED
  BY <1>1, <1>2 DEF IInv

LEMMA NextIInv == IInv /\ [Next]_vars => IInv'
<1> SUFFICES ASSUME IInv, [Next]_vars PROVE IInv'
  OBVIOUS
<1>1. CASE UNCHANGED vars
  BY <1>1 DEF vars, tableVars, IInv, TypeOK, CallInv
<1>2. ASSUME NEW c \in Clients, NEW r \in Requests, Accept(c, r) PROVE IInv'
  <2>1. r \in Requests \cup {None} /\ r.deviceID \in DeviceIDs /\ ~Invalid(r.deviceID)
    BY <1>2 DEF Accept, Requests, GetRequests, PostRequests
  <2>2. r # None
    OBVIOUS
  <2>3. TypeOK'
    BY <1>2, <2>1 DEF Accept, tableVars, IInv, TypeOK
  <2>4. CallInv'
    BY <1>2, <2>1, <2>2 DEF Accept, IInv, TypeOK, CallInv
  <2>5. QED
    BY <2>3, <2>4 DEF IInv
<1>3. ASSUME NEW c \in Clients, NEW r \in Requests, Reject(c, r) PROVE IInv'
  BY <1>3, RespondIInv DEF Reject, Bodies
<1>4. ASSUME NEW c \in Clients, Load(c) PROVE IInv'
  <2>1. Key(request[c]) \in DeviceIDs
    BY <1>4 DEF Load, IInv, CallInv, Key
  <2>2. TypeOK'
    <3>1. PICK item \in {userTable[Key(request[c])]} \cup lagging[Key(request[c])] :
              retrivedUser' = [retrivedUser EXCEPT ![c] = item]
      BY <1>4 DEF Load
    <3>2. item \in Users \cup {None}
      BY <2>1, <3>1 DEF IInv, TypeOK
    <3>3. QED
      BY <1>4, <3>1, <3>2 DEF Load, tableVars, IInv, TypeOK
  <2>3. CallInv'
    <3>1. /\ \A d \in Clients : d # c => retrivedUser'[d] = retrivedUser[d]
          /\ request' = request
          /\ pc' = [pc EXCEPT ![c] = IF request[c].kind = "Post" THEN "save" ELSE "reply"]
      BY <1>4 DEF Load, IInv, TypeOK
    <3>2. pc[c] = "load"
      BY <1>4 DEF Load
    <3>3. QED
      BY <3>1, <3>2 DEF IInv, TypeOK, CallInv
  <2>4. QED
    BY <2>2, <2>3 DEF IInv
<1>5. ASSUME NEW c \in Clients, Save(c) PROVE IInv'
  <2>1. /\ request[c].kind = "Post"
        /\ request[c].deviceID \in DeviceIDs
        /\ Trim[request[c].deviceID] # Blank
    BY <1>5 DEF Save, IInv, CallInv, Invalid
  <2>2. request[c].user \in Users
    BY <1>5, <2>1 DEF Save, IInv, TypeOK, CallInv, Requests, GetRequests, PostRequests
  <2>3. userTable' = [userTable EXCEPT ![request[c].deviceID] = request[c].user]
    BY <1>5, <2>1, <2>2, ModifiedIsUser DEF Save, Key
  <2>4. TypeOK'
    <3>1. userTable' \in [DeviceIDs -> Users \cup {None}]
      BY <2>2, <2>3 DEF IInv, TypeOK
    <3>2. ASSUME NEW id \in DeviceIDs, Trim[id] = Blank PROVE userTable'[id] = None
      <4>1. id # request[c].deviceID /\ userTable[id] = None
        BY <3>2, <2>1 DEF IInv, TypeOK
      <4>2. QED
        BY <4>1, <2>3 DEF IInv, TypeOK
    <3>3. pc' \in [Clients -> {"idle", "load", "save", "reply"}]
      BY <1>5 DEF Save, IInv, TypeOK
    <3>4. UNCHANGED <<request, retrivedUser, answer>>
      BY <1>5 DEF Save
    <3>5. lagging' \in [DeviceIDs -> SUBSET (Users \cup {None})]
      BY <1>5, <2>1 DEF Save, Key, IInv, TypeOK
    <3>6. QED
      BY <3>1, <3>2, <3>3, <3>4, <3>5 DEF IInv, TypeOK
  <2>5. CallInv'
    BY <1>5 DEF Save, IInv, TypeOK, CallInv
  <2>6. QED
    BY <2>4, <2>5 DEF IInv
<1>6. ASSUME NEW c \in Clients, Reply(c) PROVE IInv'
  BY <1>6, RespondIInv DEF Reply, GetBody, Bodies
<1>7. ASSUME NEW c \in Clients, StoreFails(c) PROVE IInv'
  BY <1>7, RespondIInv DEF StoreFails, Bodies
<1>8. ASSUME NEW id \in DeviceIDs, CatchUp(id) PROVE IInv'
  BY <1>8 DEF CatchUp, IInv, TypeOK, CallInv
<1>9. QED
  BY <1>1, <1>2, <1>3, <1>4, <1>5, <1>6, <1>7, <1>8 DEF Next

\* In every state the variables have their types, and no user is stored under
\* an id of blanks (PostUser rejects it before the DAO).
THEOREM TypeCorrect == Spec => []TypeOK
<1>1. IInv => TypeOK
  BY DEF IInv
<1>2. QED
  BY InitIInv, NextIInv, <1>1, PTL DEF Spec

-----------------------------------------------------------------------------
\* The refinement, step by step.
LEMMA InitRegister == Init => Register!Init
BY DEF Init, Register!Init, AbstractPhase, AbstractOp, AbstractFound

\* An answer is the abstract Answer when a request was in work.
LEMMA RespondRegister ==
    ASSUME IInv, NEW c \in Clients, NEW body,
           pc[c] # "idle", Respond(c, body), UNCHANGED tableVars
    PROVE  Register!Answer(c)
<1>1. AbstractPhase(c) \in {"pending", "done"}
  BY DEF IInv, TypeOK, AbstractPhase
<1>2. [d \in Clients |-> AbstractPhase(d)'] = [[d \in Clients |-> AbstractPhase(d)] EXCEPT ![c] = "idle"]
  BY DEF IInv, TypeOK, AbstractPhase, Respond
<1>3. [d \in Clients |-> AbstractOp(d)'] = [[d \in Clients |-> AbstractOp(d)] EXCEPT ![c] = None]
  BY DEF IInv, TypeOK, AbstractOp, Respond
<1>4. [d \in Clients |-> AbstractFound(d)'] = [[d \in Clients |-> AbstractFound(d)] EXCEPT ![c] = None]
  BY DEF IInv, TypeOK, AbstractFound, Respond
<1>5. QED
  BY <1>1, <1>2, <1>3, <1>4 DEF Register!Answer, tableVars

\* A rejected request never becomes visible.
LEMMA RejectRegister ==
    ASSUME IInv, NEW c \in Clients, NEW r \in Requests, Reject(c, r)
    PROVE  UNCHANGED Register!vars
<1>1. pc' = pc /\ request' = request /\ retrivedUser' = retrivedUser
      /\ UNCHANGED tableVars
  BY DEF Reject, Respond, IInv, TypeOK, CallInv
<1>2. QED
  BY <1>1 DEF Register!vars, tableVars, AbstractPhase, AbstractOp, AbstractFound

LEMMA AcceptRegister ==
    ASSUME IInv, NEW c \in Clients, NEW r \in Requests, Accept(c, r)
    PROVE  Register!Call(c)
<1> DEFINE o == [kind |-> r.kind, key |-> Key(r), user |-> r.user]
<1>1. o \in Register!Ops
  BY DEF Register!Ops, Accept, Requests, GetRequests, PostRequests, Key
<1>2. AbstractPhase(c) = "idle" /\ retrivedUser[c] = None
  BY DEF Accept, AbstractPhase, IInv, CallInv
<1>3. [d \in Clients |-> AbstractPhase(d)'] = [[d \in Clients |-> AbstractPhase(d)] EXCEPT ![c] = "pending"]
  BY DEF IInv, TypeOK, AbstractPhase, Accept
<1>4. [d \in Clients |-> AbstractOp(d)'] = [[d \in Clients |-> AbstractOp(d)] EXCEPT ![c] = o]
  BY DEF IInv, TypeOK, AbstractOp, Accept, Key
<1>5. [d \in Clients |-> AbstractFound(d)'] = [d \in Clients |-> AbstractFound(d)]
  BY <1>2 DEF IInv, TypeOK, AbstractFound, Accept
<1>6. UNCHANGED <<userTable, lagging>>
  BY DEF Accept, tableVars
<1>7. QED
  BY <1>1, <1>2, <1>3, <1>4, <1>5, <1>6 DEF Register!Call

\* A load is the effect of a Get; for a Post it is nothing.
LEMMA LoadRegister ==
    ASSUME IInv, NEW c \in Clients, Load(c)
    PROVE  Register!Effect(c) \/ UNCHANGED Register!vars
<1>1. [d \in Clients |-> AbstractOp(d)'] = [d \in Clients |-> AbstractOp(d)]
  BY DEF IInv, TypeOK, AbstractOp, Load
<1>2. UNCHANGED <<userTable, lagging>>
  BY DEF Load, tableVars
<1>3. CASE request[c].kind = "Post"
  <2>1. [d \in Clients |-> AbstractPhase(d)'] = [d \in Clients |-> AbstractPhase(d)]
    BY <1>3 DEF IInv, TypeOK, AbstractPhase, Load
  <2>2. [d \in Clients |-> AbstractFound(d)'] = [d \in Clients |-> AbstractFound(d)]
    <3>1. ASSUME NEW d \in Clients PROVE AbstractFound(d)' = AbstractFound(d)
      <4>1. CASE d = c
        BY <1>3, <4>1 DEF IInv, TypeOK, AbstractFound, Load
      <4>2. CASE d # c
        <5>1. pc'[d] = pc[d] /\ request'[d] = request[d] /\ retrivedUser'[d] = retrivedUser[d]
          BY <4>2 DEF IInv, TypeOK, Load
        <5>2. QED
          BY <5>1 DEF AbstractFound
      <4>3. QED
        BY <4>1, <4>2
    <3>2. QED
      BY <3>1
  <2>3. QED
    BY <1>1, <1>2, <2>1, <2>2 DEF Register!vars
<1>4. CASE request[c].kind = "Get"
  <2>1. AbstractPhase(c) = "pending" /\ AbstractOp(c).kind = "Get"
                                     /\ AbstractOp(c).key = Key(request[c])
    BY <1>4 DEF Load, AbstractPhase, AbstractOp
  <2>2. [d \in Clients |-> AbstractPhase(d)'] = [[d \in Clients |-> AbstractPhase(d)] EXCEPT ![c] = "done"]
    BY <1>4 DEF IInv, TypeOK, AbstractPhase, Load
  <2>3. PICK item \in {userTable[Key(request[c])]} \cup lagging[Key(request[c])] :
            retrivedUser' = [retrivedUser EXCEPT ![c] = item]
    BY DEF Load
  <2>4. [d \in Clients |-> AbstractFound(d)'] =
            [[d \in Clients |-> AbstractFound(d)] EXCEPT ![c] = item]
    BY <1>4, <2>3 DEF IInv, TypeOK, AbstractFound, Load
  <2>5. QED
    BY <1>1, <1>2, <2>1, <2>2, <2>3, <2>4 DEF Register!Effect
<1>5. request[c].kind \in {"Post", "Get"}
  BY DEF Load, IInv, TypeOK, CallInv, Requests, GetRequests, PostRequests
<1>6. QED
  BY <1>3, <1>4, <1>5

\* A save is the effect of a Post.
LEMMA SaveRegister ==
    ASSUME IInv, NEW c \in Clients, Save(c)
    PROVE  Register!Effect(c)
<1>1. request[c].kind = "Post" /\ request[c].user \in Users
  BY DEF Save, IInv, TypeOK, CallInv, Requests, GetRequests, PostRequests
<1>2. userTable' = [userTable EXCEPT ![Key(request[c])] = request[c].user]
  BY <1>1, ModifiedIsUser DEF Save
<1>3. AbstractPhase(c) = "pending" /\ AbstractOp(c).kind = "Post"
      /\ AbstractOp(c).key = Key(request[c]) /\ AbstractOp(c).user = request[c].user
  BY <1>1 DEF Save, AbstractPhase, AbstractOp
<1>4. [d \in Clients |-> AbstractPhase(d)'] = [[d \in Clients |-> AbstractPhase(d)] EXCEPT ![c] = "done"]
  BY DEF IInv, TypeOK, AbstractPhase, Save
<1>5. [d \in Clients |-> AbstractOp(d)'] = [d \in Clients |-> AbstractOp(d)]
  BY DEF IInv, TypeOK, AbstractOp, Save
<1>6. [d \in Clients |-> AbstractFound(d)'] = [d \in Clients |-> AbstractFound(d)]
  BY <1>1 DEF IInv, TypeOK, AbstractFound, Save
<1>7. lagging' = [lagging EXCEPT ![Key(request[c])] = @ \cup {userTable[Key(request[c])]}]
  BY DEF Save
<1>8. QED
  BY <1>2, <1>3, <1>4, <1>5, <1>6, <1>7 DEF Register!Effect

LEMMA NextRegister == IInv /\ [Next]_vars => [Register!Next]_Register!vars
<1> SUFFICES ASSUME IInv, [Next]_vars PROVE [Register!Next]_Register!vars
  OBVIOUS
<1>1. CASE UNCHANGED vars
  BY <1>1 DEF vars, tableVars, Register!vars, AbstractPhase, AbstractOp, AbstractFound
<1>2. ASSUME NEW c \in Clients, NEW r \in Requests, Accept(c, r)
      PROVE  [Register!Next]_Register!vars
  BY <1>2, AcceptRegister DEF Register!Next
<1>3. ASSUME NEW c \in Clients, NEW r \in Requests, Reject(c, r)
      PROVE  [Register!Next]_Register!vars
  BY <1>3, RejectRegister
<1>4. ASSUME NEW c \in Clients, Load(c) PROVE [Register!Next]_Register!vars
  BY <1>4, LoadRegister DEF Register!Next
<1>5. ASSUME NEW c \in Clients, Save(c) PROVE [Register!Next]_Register!vars
  BY <1>5, SaveRegister DEF Register!Next
<1>6. ASSUME NEW c \in Clients, Reply(c) PROVE [Register!Next]_Register!vars
  BY <1>6, RespondRegister DEF Reply, Register!Next
<1>7. ASSUME NEW c \in Clients, StoreFails(c) PROVE [Register!Next]_Register!vars
  BY <1>7, RespondRegister DEF StoreFails, Register!Next
<1>8. ASSUME NEW id \in DeviceIDs, CatchUp(id) PROVE [Register!Next]_Register!vars
  BY <1>8 DEF CatchUp, Register!Next, Register!Settle, AbstractPhase, AbstractOp, AbstractFound
<1>9. QED
  BY <1>1, <1>2, <1>3, <1>4, <1>5, <1>6, <1>7, <1>8 DEF Next

\* Concurrent posts and gets behave as accesses to one register per device:
\* posts are atomic and gets see one posted user, although modifyUserNameByDeviceID loads and saves in two steps.
THEOREM IsRegisterAlways == Spec => IsRegister
<1>1. Spec => []IInv
  BY InitIInv, NextIInv, PTL DEF Spec
<1>2. QED
  BY <1>1, InitRegister, NextRegister, PTL DEF Spec, IsRegister, Register!Spec
=============================================================================
