------------------------------ MODULE FirstRun ------------------------------
(***************************************************************************)
(* The first run of the app: the disclaimer (BaseVC, DisclaimerVC), the    *)
(* settings with their screens for a name, a location and the favourite    *)
(* types (UserConfigurationSettingTVC, UserVC, LocationList,               *)
(* CustomizedTypeTVC), and what later launches and the configuration tab   *)
(* (UserConfigurationTableViewController) make of the saved file.          *)
(***************************************************************************)
EXTENDS UserConfigurationData, SequencesExt

CONSTANTS
    Texts,         \* what a user may type; None is nothing
    Names,         \* the names LocationList offers
    FirstName,     \* the one in its first row
    Signature,     \* the name that publishing a comment sets
    Types,         \* the types CustomizedTypeTVC offers
    MaxLaunches,   \* bound: launches of the app
    MaxPlaces      \* bound: places chosen in the search tab in one launch

ASSUME FirstRunAssumption ==
    /\ FirstName \in Names
    /\ None \in Texts /\ None \notin Names \cup Types
    /\ None \notin {"userName", "eMail", "nation", "state", "city"}
    /\ MaxLaunches \in Nat \ {0} /\ MaxPlaces \in Nat

VARIABLES
    top,           \* the screen on top
    functionName,  \* the field the screen on top edits
    curIndexPath,  \* the row selected in LocationList, or None
    tapped,        \* the rows of CustomizedTypeTVC with a checkmark, in order
    writing,       \* has the file been deleted and not written yet
    launches, places,
    confirmed      \* observed: the configuration a user completed and the app wrote

editVars == <<functionName, curIndexPath, tapped>>
countVars == <<launches, places>>
vars == <<configVars, top, editVars, writing, countVars, confirmed>>

SettingScreens == {"settings", "user", "location", "types"}
FirstRunScreens == {"disclaimer"} \cup SettingScreens

Init ==
    /\ userData = NoConfiguration /\ tagsMutable = TRUE
    /\ bFirst = TRUE /\ localFile = None
    /\ top = "disclaimer"
    /\ functionName = None /\ curIndexPath = None /\ tapped = <<>>
    /\ writing = FALSE
    /\ launches = 1 /\ places = 0
    /\ confirmed = None

\* No handler is at work.
Idle == ~writing

\* Mutant: the screen is not told which field it edits.
PushWithoutName(screen, name) ==
    /\ Idle
    /\ top' = screen
    /\ functionName' = None
    /\ curIndexPath' = None
    /\ tapped' = <<>>

\* Every screen is a new instance: it starts with nothing selected.
Push(screen, name) ==
    /\ Idle
    /\ top' = screen
    /\ functionName' = name
    /\ curIndexPath' = None
    /\ tapped' = <<>>

Pop == Push("settings", None)

-----------------------------------------------------------------------------
(* Launches: BaseVC.viewDidLoad loads the singleton and shows the          *)
(* disclaimer if there was no file.                                        *)

NewProcess(file) ==
    /\ launches < MaxLaunches
    /\ launches' = launches + 1
    /\ localFile' = file
    /\ GetInfofromLocalFile(file)
    /\ top' = IF bFirst' THEN "disclaimer" ELSE "main"
    /\ functionName' = None /\ curIndexPath' = None /\ tapped' = <<>>
    /\ writing' = FALSE
    /\ places' = 0
    /\ UNCHANGED confirmed

\* The process is killed, also between the deletion of the file and its
\* writing, and the app started again.
Relaunch == NewProcess(localFile)

\* onClickQuit, answered with YES: deleteInfoLocalFile and exit.
ClickQuit ==
    /\ top = "disclaimer" /\ Idle
    /\ NewProcess(None)

-----------------------------------------------------------------------------
(* The disclaimer and the settings.                                        *)

\* onClickYes
ClickYes ==
    /\ top = "disclaimer"
    /\ Push("settings", None)
    /\ UNCHANGED <<configVars, writing, countVars, confirmed>>

\* didSelectRowAtIndexPath of the settings, sections 0 to 2.
SelectSetting ==
    /\ top = "settings"
    /\ \/ \E name \in {"userName", "eMail"} : Push("user", name)
       \/ \E name \in {"nation", "state", "city"} : Push("location", name)
       \/ Push("types", None)
    /\ UNCHANGED <<configVars, writing, countVars, confirmed>>

\* The back button of the navigation bar: nothing is taken over.
NavigateBack ==
    /\ top \in SettingScreens \ {"settings"}
    /\ Pop
    /\ UNCHANGED <<configVars, writing, countVars, confirmed>>

\* UserVC.onClickDone.  The field starts empty, with the old value as its
\* placeholder: to type nothing sets the empty string.
UserDone ==
    /\ top = "user"
    /\ \E text \in Texts : SetField(functionName, text)
    /\ Pop
    /\ UNCHANGED <<bFirst, localFile, writing, countVars, confirmed>>

\* LocationList.didSelectRowAtIndexPath
SelectName ==
    /\ top = "location"
    /\ curIndexPath' \in Names
    /\ UNCHANGED <<configVars, top, functionName, tapped, writing, countVars, confirmed>>

\* LocationList.onClickDone: section and row of a missing index path are 0.
LocationDone ==
    /\ top = "location"
    /\ SetField(functionName, IF curIndexPath = None THEN FirstName ELSE curIndexPath)
    /\ Pop
    /\ UNCHANGED <<bFirst, localFile, writing, countVars, confirmed>>

\* CustomizedTypeTVC.didSelectRowAtIndexPath: a row is selected or not by its
\* checkmark.  The rows of viewDidLoad have none, as their index paths are of
\* section 1 (and other objects), but they stay in selectIndexList.
SelectType ==
    /\ top = "types"
    /\ \/ \E t \in Types \ ToSet(tapped) : tapped' = Append(tapped, t)
       \/ \E i \in DOMAIN tapped : tapped' = RemoveAt(tapped, i)
    /\ UNCHANGED <<configVars, top, functionName, curIndexPath, writing, countVars, confirmed>>

\* What selectIndexList stands for: the types of viewDidLoad, then the others.
SelectedTypes == userData.arrTags \o tapped

\* Mutant: onClickDone without the removeAllObjects that raises.
TypesDoneKeepsOld ==
    /\ top = "types" /\ Idle
    /\ SetArrTags(SelectedTypes)
    /\ Pop
    /\ UNCHANGED <<bFirst, localFile, writing, countVars, confirmed>>

\* CustomizedTypeTVC.onClickDone, if removeAllObjects is not reached or works.
TypesDone ==
    /\ top = "types" /\ Idle
    /\ userData.arrTags # <<>> => tagsMutable
    /\ SetArrTags(SelectedTypes)
    /\ Pop
    /\ UNCHANGED <<bFirst, localFile, writing, countVars, confirmed>>

\* The same, if it raises: the process ends.
TypesDoneRaises ==
    /\ top = "types" /\ Idle
    /\ userData.arrTags # <<>> /\ ~tagsMutable
    /\ NewProcess(localFile)

\* UserConfigurationSettingTVC.onClickDone: the file is deleted first ...
SettingsDone ==
    /\ top = "settings" /\ Idle
    /\ DeleteInfoLocalFile
    /\ writing' = TRUE
    /\ UNCHANGED <<userData, tagsMutable, bFirst, top, editVars, countVars, confirmed>>

\* ... and then written; userConfigNavQuit and disclaimerVCQuit remove the
\* settings and the disclaimer.
FinishSettings ==
    /\ writing
    /\ WriteToFile
    /\ confirmed' = localFile'
    /\ top' = "main"
    /\ writing' = FALSE
    /\ UNCHANGED <<userData, tagsMutable, bFirst, editVars, countVars>>

-----------------------------------------------------------------------------
(* After the first run.                                                    *)

\* SelectedLocationTVC changes the place in the singleton, not in the file.
ChoosePlace ==
    /\ top = "main" /\ places < MaxPlaces
    /\ places' = places + 1
    /\ \E name \in {"nation", "state", "city"}, value \in Names : SetField(name, value)
    /\ UNCHANGED <<bFirst, localFile, top, editVars, writing, launches, confirmed>>

\* PopoverCommentVC.onClickPublish signs every comment with one name, which
\* it sets in the singleton.  The comment itself touches nothing here.
PublishComment ==
    /\ top = "main"
    /\ SetField("userName", Signature)
    /\ UNCHANGED <<bFirst, localFile, top, editVars, writing, countVars, confirmed>>

\* viewWillAppear of the configuration tab: the file, if there is one, is
\* loaded over what the singleton had.
ShowConfiguration ==
    /\ top = "main"
    /\ localFile # None
    /\ GetInfofromLocalFile(localFile)
    /\ UNCHANGED <<localFile, top, editVars, writing, countVars, confirmed>>

Next ==
    \/ Relaunch \/ ClickQuit \/ ClickYes
    \/ SelectSetting \/ NavigateBack \/ UserDone
    \/ SelectName \/ LocationDone
    \/ SelectType \/ TypesDone \/ TypesDoneRaises
    \/ SettingsDone \/ FinishSettings
    \/ ChoosePlace \/ PublishComment \/ ShowConfiguration

Spec == Init /\ [][Next]_vars

-----------------------------------------------------------------------------
Configurations ==
    [userName : Texts \cup {Signature}, eMail : Texts, nation : Names \cup {None},
     state : Names \cup {None}, city : Names \cup {None}, arrTags : Seq(Types)]

\* Types of the variables; a screen that edits a field knows which.
TypeOK ==
    /\ userData \in Configurations
    /\ localFile # None => localFile \in Configurations
    /\ tagsMutable \in BOOLEAN /\ bFirst \in BOOLEAN /\ writing \in BOOLEAN
    /\ top \in FirstRunScreens \cup {"main"}
    /\ functionName \in {None, "userName", "eMail", "nation", "state", "city"}
    /\ top \in {"user", "location"} => functionName # None
    /\ curIndexPath \in Names \cup {None}
    /\ tapped \in Seq(Types)
    /\ launches \in 1..MaxLaunches /\ places \in 0..MaxPlaces

\* A configuration that a user completed and the app wrote is never lost or
\* altered, whatever is quit, killed or changed later, although
\* writeModificationintoLocalFile deletes the file before it writes it: the
\* settings can only be reached while there is no file (BaseVC.viewDidLoad).
ConfigurationKept ==
    /\ confirmed # None => localFile = confirmed
    /\ top \in FirstRunScreens => localFile = None

\* After the first run the singleton agrees with the file on everything but
\* the place, which the search tab may have changed (getInfofromLocalFile),
\* and on the name, unless a comment was published since the file was read.
MemoryMatchesFile ==
    top = "main" /\ localFile # None =>
        /\ \A name \in {"eMail", "arrTags"} : userData[name] = localFile[name]
        /\ userData.userName \in {localFile.userName, Signature}

\* No type is saved twice, although CustomizedTypeTVC does not show which
\* types were selected before and adds what is touched to them.
TagsDistinct == IsInjective(userData.arrTags)
=============================================================================
