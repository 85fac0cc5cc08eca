----------------------- MODULE UserConfigurationData -----------------------
(***************************************************************************)
(* The singleton of the user's configuration and its property list file.   *)
(* The screens that edit and read it are FirstRun and LocationChoice.      *)
(*                                                                         *)
(* An empty string is None.  deviceID comes from the system and historyID  *)
(* is never used; both are left out.  bOrderModel is part of OrderFlow.    *)
(***************************************************************************)
CONSTANT None

VARIABLES
    userData,     \* the singleton: [userName, eMail, nation, state, city, arrTags]
    tagsMutable,  \* is arrTags a mutable array, as its declaration says
    bFirst,       \* was there no file when the singleton was loaded
    localFile     \* UserConfigurationData.plist; None if it does not exist

configVars == <<userData, tagsMutable, bFirst, localFile>>

\* initUserConfigurationData
NoConfiguration ==
    [userName |-> None, eMail |-> None, nation |-> None, state |-> None, city |-> None,
     arrTags |-> <<>>]

\* Mutant: the file is read but the flag of the first run stays set.
GetInfoAlwaysFirst(file) ==
    /\ bFirst' = TRUE
    /\ userData' = IF file = None THEN NoConfiguration ELSE file
    /\ tagsMutable' = (file = None)

\* Mutant: the user's name is taken from the mail address.
GetInfoMixedUp(file) ==
    /\ bFirst' = (file = None)
    /\ userData' = IF file = None THEN NoConfiguration ELSE [file EXCEPT !.userName = file.eMail]
    /\ tagsMutable' = (file = None)

\* getInfofromLocalFile.  The array of a property list is immutable.
GetInfofromLocalFile(file) ==
    /\ bFirst' = (file = None)
    /\ userData' = IF file = None THEN NoConfiguration ELSE file
    /\ tagsMutable' = (file = None)

\* deleteInfoLocalFile, also the first half of writeModificationintoLocalFile.
DeleteInfoLocalFile == localFile' = None

\* The second half of writeModificationintoLocalFile.  Its result is ignored:
\* the system may refuse to write, and then there is no file.
WriteToFile == localFile' \in {userData, None}

\* The setter of arrTags is declared copy: what it keeps is immutable.
SetArrTags(tags) ==
    /\ userData' = [userData EXCEPT !.arrTags = tags]
    /\ tagsMutable' = FALSE

\* The setters of the strings.
SetField(name, value) ==
    /\ userData' = [userData EXCEPT ![name] = value]
    /\ UNCHANGED tagsMutable
=============================================================================
