------------------------------ MODULE UserStore ------------------------------
(***************************************************************************)
(* The users of the service: the Lambda function behind /userAction.       *)
(* RequestRouter hands a request to PostUser or GetSpecifiedUserRequest,   *)
(* which work on the DynamoDB table through DynamoDBUserDAO.  Every        *)
(* request runs in a Lambda process of its own, so the DAO's load and its  *)
(* save are two steps between which other requests load and save.          *)
(*                                                                         *)
(* An item is read and written as a whole by one load or save (DynamoDB).  *)
(* The mapper is used without a configuration, so reads are eventually     *)
(* consistent: a load may return an item that was replaced shortly before. *)
(* A user is a function on its attributes other than the key.              *)
(***************************************************************************)
EXTENDS Naturals

CONSTANTS
    Clients,
    DeviceIDs,   \* the deviceID strings a client may send
    Trim,        \* Trim[id] is id without the blanks around it
    Blank,       \* the empty string
    Attributes,  \* EMail, HistoryID, Tags, UserName
    Users,       \* the attribute values clients send
    None         \* no item, no user in the request, no deviceID in it

ASSUME UserStoreAssumption ==
    /\ Trim \in [DeviceIDs -> DeviceIDs]
    /\ Blank \in DeviceIDs /\ Trim[Blank] = Blank
    /\ None \notin DeviceIDs
    /\ \A user \in Users : user = [a \in Attributes |-> user[a]]
    /\ None \notin Users

VARIABLES
    userTable,    \* the item of each key, or None
    lagging,      \* the replaced items of each key that a read may still return
    pc,           \* of each client's request: "idle", "load", "save", "reply"
    request,      \* the request: [kind, deviceID, user]; None when idle
    retrivedUser, \* what its load returned
    answer        \* the answer to its last request: [status, body]

tableVars == <<userTable, lagging>>
vars == <<userTable, lagging, pc, request, retrivedUser, answer>>

\* The path of a Get always holds a deviceID; the body of a Post need not.
GetRequests == [kind : {"Get"}, deviceID : DeviceIDs, user : {None}]
PostRequests == [kind : {"Post"}, deviceID : DeviceIDs \cup {None}, user : Users]
Requests == GetRequests \cup PostRequests

ASSUME NoneAssumption == None \notin Requests

Bodies == {"none", "user", "updated", "BAD_REQ", "exception"}

Key(r) == IF r.kind = "Get" THEN Trim[r.deviceID] ELSE r.deviceID

\* API Gateway: an errorMessage that begins with BAD is a 400, one that begins
\* with INT a 500; whatever matches neither is the default, a 200.
StatusOf(body) == IF body = "BAD_REQ" THEN 400 ELSE 200

\* The process answers and forgets the request.
Respond(c, body) ==
    /\ answer' = [answer EXCEPT ![c] = [status |-> StatusOf(body), body |-> body]]
    /\ pc' = [pc EXCEPT ![c] = "idle"]
    /\ request' = [request EXCEPT ![c] = None]
    /\ retrivedUser' = [retrivedUser EXCEPT ![c] = None]

Init ==
    /\ userTable = [id \in DeviceIDs |-> None]
    /\ lagging = [id \in DeviceIDs |-> {}]
    /\ pc = [c \in Clients |-> "idle"]
    /\ request = [c \in Clients |-> None]
    /\ retrivedUser = [c \in Clients |-> None]
    /\ answer = [c \in Clients |-> [status |-> 200, body |-> "none"]]

\* Mutant: the id is compared without being trimmed.
InvalidUntrimmed(id) == id = Blank

\* What both handlers reject before they reach the DAO.
Invalid(id) == Trim[id] = Blank

\* A request arrives whose deviceID is an acceptable string.
Accept(c, r) ==
    /\ pc[c] = "idle"
    /\ r.deviceID # None
    /\ ~Invalid(r.deviceID)
    /\ request' = [request EXCEPT ![c] = r]
    /\ pc' = [pc EXCEPT ![c] = "load"]
    /\ UNCHANGED <<tableVars, retrivedUser, answer>>

\* A request arrives with an empty deviceID, or a Post without any: the missing
\* string is dereferenced and the NullPointerException leaves the function.
Reject(c, r) ==
    /\ pc[c] = "idle"
    /\ \/ r.deviceID = None /\ Respond(c, "exception")
       \/ r.deviceID # None /\ Invalid(r.deviceID) /\ Respond(c, "BAD_REQ")
    /\ UNCHANGED tableVars

\* getMapper().load, from any replica.
Load(c) ==
    /\ pc[c] = "load"
    /\ \E item \in {userTable[Key(request[c])]} \cup lagging[Key(request[c])] :
         retrivedUser' = [retrivedUser EXCEPT ![c] = item]
    /\ pc' = [pc EXCEPT ![c] = IF request[c].kind = "Post" THEN "save" ELSE "reply"]
    /\ UNCHANGED <<tableVars, request, answer>>

\* Mutant: one attribute of the retrieved user is not set.
ModifiedKeepsOne(old, user) ==
    IF old = None THEN user
    ELSE LET kept == CHOOSE a \in Attributes : TRUE
         IN [a \in Attributes |-> IF a = kept THEN old[a] ELSE user[a]]

\* The item modifyUserNameByDeviceID saves: the new user where there was none,
\* otherwise the retrieved one after the four setters.
Modified(old, user) ==
    IF old = None THEN user ELSE [a \in Attributes |-> user[a]]

\* getMapper().save.
Save(c) ==
    /\ pc[c] = "save"
    /\ userTable' = [userTable EXCEPT ![Key(request[c])] =
                                          Modified(retrivedUser[c], request[c].user)]
    /\ lagging' = [lagging EXCEPT ![Key(request[c])] = @ \cup {userTable[Key(request[c])]}]
    /\ pc' = [pc EXCEPT ![c] = "reply"]
    /\ UNCHANGED <<request, retrivedUser, answer>>

\* GetSpecifiedUserRequest returns null when there is no such user, and the
\* router writes an empty body.
GetBody(user) == IF user = None THEN "none" ELSE "user"

\* PostUser always reports success.
Reply(c) ==
    /\ pc[c] = "reply"
    /\ Respond(c, IF request[c].kind = "Post" THEN "updated" ELSE GetBody(retrivedUser[c]))
    /\ UNCHANGED tableVars

\* The mapper throws, before or after the item was written; nothing catches it.
StoreFails(c) ==
    /\ pc[c] \in {"load", "save", "reply"}
    /\ Respond(c, "exception")
    /\ UNCHANGED tableVars

\* The replicas of an item agree again.
CatchUp(id) ==
    /\ lagging[id] # {}
    /\ lagging' = [lagging EXCEPT ![id] = {}]
    /\ UNCHANGED <<userTable, pc, request, retrivedUser, answer>>

Next ==
    \/ \E c \in Clients :
        \/ \E r \in Requests : Accept(c, r) \/ Reject(c, r)
        \/ Load(c)
        \/ Save(c)
        \/ Reply(c)
        \/ StoreFails(c)
    \/ \E id \in DeviceIDs : CatchUp(id)

Spec == Init /\ [][Next]_vars

-----------------------------------------------------------------------------
\* Type invariant; no item is ever stored under an id of blanks.
TypeOK ==
    /\ userTable \in [DeviceIDs -> Users \cup {None}]
    /\ lagging \in [DeviceIDs -> SUBSET (Users \cup {None})]
    /\ \A id \in DeviceIDs : Trim[id] = Blank => userTable[id] = None
    /\ pc \in [Clients -> {"idle", "load", "save", "reply"}]
    /\ request \in [Clients -> Requests \cup {None}]
    /\ retrivedUser \in [Clients -> Users \cup {None}]
    /\ answer \in [Clients -> [status : {200, 400}, body : Bodies]]

\* The abstract register: a Post takes effect with its save, a Get with its
\* load, and the load of a Post is nothing anybody can see.
AbstractPhase(c) ==
    IF pc[c] \in {"load", "save"} THEN "pending"
    ELSE IF pc[c] = "reply" THEN "done" ELSE "idle"

AbstractOp(c) ==
    IF pc[c] = "idle" THEN None
    ELSE [kind |-> request[c].kind, key |-> Key(request[c]), user |-> request[c].user]

AbstractFound(c) ==
    IF pc[c] # "idle" /\ request[c].kind = "Get" THEN retrivedUser[c] ELSE None

Register == INSTANCE UserRegister WITH
    Keys <- DeviceIDs,
    register <- userTable,
    old <- lagging,
    phase <- [c \in Clients |-> AbstractPhase(c)],
    op <- [c \in Clients |-> AbstractOp(c)],
    found <- [c \in Clients |-> AbstractFound(c)]

\* However the loads and saves of concurrent requests interleave, and whichever
\* of them fail, a Post replaces the user of its device at one instant and a Get
\* sees one user as it was posted: no save mixes two users or brings back an
\* older one, although the item it modifies may have been replaced meanwhile.
IsRegister == Register!Spec

\* Between requests a process holds nothing, a request in work has a deviceID
\* that is not blank, only a Post saves, and nothing is retrieved before the load.
CallInv ==
    \A c \in Clients :
        /\ pc[c] = "idle" <=> request[c] = None
        /\ pc[c] # "idle" => /\ request[c].deviceID \in DeviceIDs
                             /\ ~Invalid(request[c].deviceID)
        /\ pc[c] = "save" => request[c].kind = "Post"
        /\ pc[c] \in {"idle", "load"} => retrivedUser[c] = None
=============================================================================
