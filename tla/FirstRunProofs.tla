--------------------------- MODULE FirstRunProofs ---------------------------
(***************************************************************************)
(* For any texts, names and types: a written configuration is kept, after  *)
(* the first run the singleton agrees with it, and no type is saved twice. *)
(***************************************************************************)
EXTENDS FirstRun, SequenceTheorems, TLAPS

Fields == {"userName", "eMail", "nation", "state", "city", "arrTags"}

\* The singleton and the file have all fields.
FieldsOK == /\ DOMAIN userData = Fields
            /\ localFile # None => DOMAIN localFile = Fields

\* There is a screen on top, and only the settings write.
ScreenOK == /\ top \in FirstRunScreens \cup {"main"}
            /\ writing => top = "settings"

IInv == FieldsOK /\ ScreenOK /\ ConfigurationKept /\ MemoryMatchesFile

LEMMA NoConfigurationFields == DOMAIN NoConfiguration = Fields
  BY DEF NoConfiguration, Fields

\* A launch shows the disclaimer exactly if its file is missing, and then
\* nothing has been confirmed; otherwise it reads the file.
LEMMA NewProcessKeeps ==
    ASSUME IInv, NEW file, file = localFile \/ (file = None /\ localFile = None),
           NewProcess(file)
    PROVE  IInv'
  <1>1. localFile' = file /\ confirmed' = confirmed /\ writing' = FALSE /\ file = localFile
    BY DEF NewProcess
  <1>2. /\ bFirst' = (file = None)
        /\ userData' = IF file = None THEN NoConfiguration ELSE file
        /\ top' = IF bFirst' THEN "disclaimer" ELSE "main"
    BY DEF NewProcess, GetInfofromLocalFile
  <1>3. FieldsOK'
    BY <1>1, <1>2, NoConfigurationFields DEF IInv, FieldsOK
  <1>4. ScreenOK'
    BY <1>1, <1>2 DEF ScreenOK, FirstRunScreens
  <1>5. ConfigurationKept'
    BY <1>1, <1>2 DEF IInv, ConfigurationKept, FirstRunScreens, SettingScreens
  <1>6. MemoryMatchesFile'
    BY <1>1, <1>2 DEF MemoryMatchesFile
  <1> QED
    BY <1>3, <1>4, <1>5, <1>6 DEF IInv

\* An action of the first run that leaves the file alone keeps the invariant:
\* there is no file, so nothing has to agree with it.
LEMMA EditKeeps ==
    ASSUME IInv, top \in SettingScreens \cup {"disclaimer"}, top' \in SettingScreens, ~writing,
           DOMAIN userData' = Fields,
           UNCHANGED <<localFile, writing, confirmed>>
    PROVE  IInv'
  <1>1. localFile = None /\ localFile' = None
    BY DEF IInv, ConfigurationKept, FirstRunScreens
  <1>2. top' # "main" /\ top' \in FirstRunScreens
    BY DEF SettingScreens, FirstRunScreens
  <1>3. FieldsOK' /\ ScreenOK' /\ MemoryMatchesFile'
    BY <1>1, <1>2 DEF FieldsOK, ScreenOK, MemoryMatchesFile
  <1>4. ConfigurationKept'
    BY <1>1 DEF IInv, ConfigurationKept
  <1> QED
    BY <1>3, <1>4 DEF IInv

LEMMA InitIInv == Init => IInv
  BY NoConfigurationFields
  DEF Init, IInv, FieldsOK, ScreenOK, ConfigurationKept, MemoryMatchesFile, FirstRunScreens

LEMMA NextIInv == IInv /\ [Next]_vars => IInv'
  <1> SUFFICES ASSUME IInv, [Next]_vars PROVE IInv'
    OBVIOUS
  <1> USE DEF SettingScreens
  <1>0. DOMAIN userData = Fields
    BY DEF IInv, FieldsOK
  <1>1. CASE Relaunch
    BY <1>1, NewProcessKeeps DEF Relaunch
  <1>2. CASE ClickQuit
    <2>1. localFile = None
      BY <1>2 DEF ClickQuit, IInv, ConfigurationKept, FirstRunScreens
    <2> QED
      BY <1>2, <2>1, NewProcessKeeps DEF ClickQuit
  <1>3. CASE ClickYes
    BY <1>0, <1>3, EditKeeps DEF ClickYes, Push, Idle, configVars
  <1>4. CASE SelectSetting
    BY <1>0, <1>4, EditKeeps DEF SelectSetting, Push, Idle, configVars
  <1>5. CASE NavigateBack
    BY <1>0, <1>5, EditKeeps DEF NavigateBack, Pop, Push, Idle, configVars
  <1>6. CASE UserDone
    <2>1. DOMAIN userData' = Fields
      BY <1>0, <1>6 DEF UserDone, SetField
    <2> QED
      BY <1>6, <2>1, EditKeeps DEF UserDone, Pop, Push, Idle
  <1>7. CASE SelectName
    <2>1. ~writing
      BY <1>7 DEF SelectName, IInv, ScreenOK
    <2> QED
      BY <1>0, <1>7, <2>1, EditKeeps DEF SelectName, configVars
  <1>8. CASE LocationDone
    <2>1. DOMAIN userData' = Fields
      BY <1>0, <1>8 DEF LocationDone, SetField
    <2> QED
      BY <1>8, <2>1, EditKeeps DEF LocationDone, Pop, Push, Idle
  <1>9. CASE SelectType
    <2>1. ~writing
      BY <1>9 DEF SelectType, IInv, ScreenOK
    <2> QED
      BY <1>0, <1>9, <2>1, EditKeeps DEF SelectType, configVars
  <1>10. CASE TypesDone
    <2>1. DOMAIN userData' = Fields
      BY <1>0, <1>10 DEF TypesDone, SetArrTags
    <2> QED
      BY <1>10, <2>1, EditKeeps DEF TypesDone, Pop, Push, Idle
  <1>11. CASE TypesDoneRaises
    BY <1>11, NewProcessKeeps DEF TypesDoneRaises
  <1>12. CASE SettingsDone
    <2>1. localFile = None /\ localFile' = None
      BY <1>12
      DEF SettingsDone, DeleteInfoLocalFile, IInv, ConfigurationKept, FirstRunScreens
    <2>2. top' = "settings" /\ userData' = userData /\ confirmed' = confirmed
      BY <1>12 DEF SettingsDone
    <2> QED
      BY <1>0, <2>1, <2>2
      DEF IInv, FieldsOK, ScreenOK, ConfigurationKept, MemoryMatchesFile, FirstRunScreens
  <1>13. CASE FinishSettings
    <2>1. /\ localFile' \in {userData, None} /\ confirmed' = localFile'
          /\ top' = "main" /\ userData' = userData /\ writing' = FALSE
      BY <1>13 DEF FinishSettings, WriteToFile
    <2> QED
      BY <1>0, <2>1
      DEF IInv, FieldsOK, ScreenOK, ConfigurationKept, MemoryMatchesFile, FirstRunScreens
  <1>14. CASE ChoosePlace
    <2>1. PICK name \in {"nation", "state", "city"}, value \in Names : SetField(name, value)
      BY <1>14 DEF ChoosePlace
    <2>2. UNCHANGED <<localFile, top, writing, confirmed>>
      BY <1>14 DEF ChoosePlace
    <2>3. DOMAIN userData' = Fields
      BY <1>0, <2>1 DEF SetField
    <2>4. /\ \A field \in {"eMail", "arrTags"} : userData'[field] = userData[field]
          /\ userData'.userName = userData.userName
      BY <1>0, <2>1 DEF SetField, Fields
    <2>5. FieldsOK' /\ ScreenOK' /\ ConfigurationKept'
      BY <2>2, <2>3 DEF IInv, FieldsOK, ScreenOK, ConfigurationKept
    <2>6. MemoryMatchesFile'
      BY <2>2, <2>4 DEF IInv, MemoryMatchesFile
    <2> QED
      BY <2>5, <2>6 DEF IInv
  <1>15. CASE ShowConfiguration
    <2>1. /\ userData' = localFile /\ localFile # None
          /\ UNCHANGED <<localFile, top, writing, confirmed>>
      BY <1>15 DEF ShowConfiguration, GetInfofromLocalFile
    <2> QED
      BY <2>1 DEF IInv, FieldsOK, ScreenOK, ConfigurationKept, MemoryMatchesFile
  <1>16. CASE PublishComment
    <2>1. userData' = [userData EXCEPT !.userName = Signature]
      BY <1>16 DEF PublishComment, SetField
    <2>2. UNCHANGED <<localFile, top, writing, confirmed>>
      BY <1>16 DEF PublishComment
    <2>3. /\ DOMAIN userData' = Fields
          /\ userData'.userName = Signature
          /\ \A field \in {"eMail", "arrTags"} : userData'[field] = userData[field]
      BY <1>0, <2>1 DEF Fields
    <2>4. FieldsOK' /\ ScreenOK' /\ ConfigurationKept'
      BY <2>2, <2>3 DEF IInv, FieldsOK, ScreenOK, ConfigurationKept
    <2>5. MemoryMatchesFile'
      BY <2>2, <2>3 DEF IInv, MemoryMatchesFile
    <2> QED
      BY <2>4, <2>5 DEF IInv
  <1>17. CASE UNCHANGED vars
    BY <1>17
    DEF vars, configVars, IInv, FieldsOK, ScreenOK, ConfigurationKept, MemoryMatchesFile
  <1> QED
    BY <1>1, <1>2, <1>3, <1>4, <1>5, <1>6, <1>7, <1>8, <1>9, <1>10, <1>11, <1>12, <1>13,
       <1>14, <1>15, <1>16, <1>17 DEF Next

\* A configuration that was completed and written is never lost or altered,
\* although every write deletes the file first (UserConfigurationData.m:80-97).
THEOREM ConfigurationKeptAlways == Spec => []ConfigurationKept
  <1>1. IInv => ConfigurationKept
    BY DEF IInv
  <1> QED
    BY <1>1, InitIInv, NextIInv, PTL DEF Spec

\* After the first run mail and types of the singleton are those of the file,
\* and the name too or that of comments, however often the file is loaded
\* (UserConfigurationData.m:60-78, PopoverCommentVC.m:34).
THEOREM MemoryMatchesFileAlways == Spec => []MemoryMatchesFile
  <1>1. IInv => MemoryMatchesFile
    BY DEF IInv
  <1> QED
    BY <1>1, InitIInv, NextIInv, PTL DEF Spec

-----------------------------------------------------------------------------
\* A screen edits fields of its own kind.
EditedField ==
    /\ top = "user" => functionName \in {"userName", "eMail"}
    /\ top = "location" => functionName \in {"nation", "state", "city"}

\* The types of the singleton, of the file and under the user's finger are
\* distinct; an array that can be changed in place is still empty.
TagsInv ==
    /\ IsInjective(userData.arrTags) /\ IsInjective(tapped)
    /\ localFile # None => IsInjective(localFile.arrTags)
    /\ tagsMutable => userData.arrTags = <<>>

TypeInv == TypeOK /\ EditedField /\ TagsInv

LEMMA EmptyTags == <<>> \in Seq(Types) /\ IsInjective(<<>>)
  BY DEF IsInjective

LEMMA NoConfigurationType == NoConfiguration \in Configurations /\ NoConfiguration.arrTags = <<>>
  BY FirstRunAssumption, EmptyTags DEF NoConfiguration, Configurations

\* What a user adds to, or takes from, distinct types is distinct.
LEMMA ChangedTags ==
    ASSUME NEW s \in Seq(Types), IsInjective(s)
    PROVE  /\ \A t \in Types \ ToSet(s) : Append(s, t) \in Seq(Types) /\ IsInjective(Append(s, t))
           /\ \A i \in DOMAIN s : RemoveAt(s, i) \in Seq(Types) /\ IsInjective(RemoveAt(s, i))
  <1>1. ASSUME NEW t \in Types \ ToSet(s)
        PROVE  Append(s, t) \in Seq(Types) /\ IsInjective(Append(s, t))
    BY <1>1 DEF ToSet, IsInjective
  <1>2. ASSUME NEW i \in DOMAIN s
        PROVE  RemoveAt(s, i) \in Seq(Types) /\ IsInjective(RemoveAt(s, i))
    <2>1. /\ Len(s) \in Nat /\ i \in 1..Len(s) /\ DOMAIN s = 1..Len(s)
          /\ \A j \in 1..Len(s) : s[j] \in Types
      OBVIOUS
    <2> DEFINE front == SubSeq(s, 1, i - 1)
               rest == SubSeq(s, i + 1, Len(s))
    <2>2. /\ front \in Seq(Types) /\ Len(front) = i - 1
          /\ \A j \in 1..(i - 1) : front[j] = s[j]
      BY <2>1, SubSeqProperties
    <2>3. /\ rest \in Seq(Types) /\ Len(rest) = Len(s) - i
          /\ \A j \in 1..(Len(s) - i) : rest[j] = s[i + j]
      <3>1. \A j \in (i + 1)..Len(s) : s[j] \in Types
        BY <2>1
      <3>2. /\ rest \in Seq(Types)
            /\ Len(rest) = IF i + 1 <= Len(s) THEN Len(s) - (i + 1) + 1 ELSE 0
            /\ \A j \in 1..(Len(s) - (i + 1) + 1) : rest[j] = s[(i + 1) + j - 1]
        <4>1. i + 1 \in Int /\ Len(s) \in Int
          BY <2>1
        <4> QED
          BY <3>1, <4>1, SubSeqProperties
      <3> HIDE DEF rest
      <3>3. Len(rest) = Len(s) - i
        BY <2>1, <3>2
      <3>4. ASSUME NEW j \in 1..(Len(s) - i) PROVE rest[j] = s[i + j]
        <4>1. j \in 1..(Len(s) - (i + 1) + 1) /\ (i + 1) + j - 1 = i + j
          BY <2>1
        <4> QED
          BY <3>2, <4>1
      <3> QED
        BY <3>2, <3>3, <3>4
    <2> HIDE DEF front, rest
    <2>4. /\ front \o rest \in Seq(Types) /\ Len(front \o rest) = Len(s) - 1
          /\ \A j \in 1..(Len(s) - 1) :
                 (front \o rest)[j] = IF j < i THEN s[j] ELSE s[j + 1]
      <3>1. /\ front \o rest \in Seq(Types)
            /\ Len(front \o rest) = Len(front) + Len(rest)
            /\ \A j \in 1..(Len(front) + Len(rest)) :
                   (front \o rest)[j] = IF j <= Len(front) THEN front[j] ELSE rest[j - Len(front)]
        BY <2>2, <2>3, ConcatProperties
      <3> SUFFICES ASSUME NEW j \in 1..(Len(s) - 1)
                   PROVE  (front \o rest)[j] = IF j < i THEN s[j] ELSE s[j + 1]
        BY <2>1, <2>2, <2>3, <3>1
      <3>2. CASE j < i
        BY <2>1, <2>2, <2>3, <3>1, <3>2
      <3>3. CASE ~(j < i)
        <4>1. j - (i - 1) \in 1..(Len(s) - i) /\ i + (j - (i - 1)) = j + 1
          BY <2>1, <3>3
        <4>2. (front \o rest)[j] = rest[j - (i - 1)]
          <5>1. j \in 1..(Len(front) + Len(rest)) /\ ~(j <= Len(front)) /\ Len(front) = i - 1
            BY <2>1, <2>2, <2>3, <3>3
          <5> QED
            BY <3>1, <5>1
        <4> QED
          BY <2>1, <2>3, <3>3, <4>1, <4>2
      <3> QED
        BY <3>2, <3>3
    <2>5. IsInjective(front \o rest)
      <3> SUFFICES ASSUME NEW a \in DOMAIN (front \o rest), NEW b \in DOMAIN (front \o rest),
                          (front \o rest)[a] = (front \o rest)[b]
                   PROVE  a = b
        BY DEF IsInjective
      <3>1. a \in 1..(Len(s) - 1) /\ b \in 1..(Len(s) - 1)
        BY <2>4
      <3> DEFINE At(j) == IF j < i THEN j ELSE j + 1
      <3>0. At(a) \in 1..Len(s) /\ At(b) \in 1..Len(s) /\ s[At(a)] = s[At(b)]
        <4>1. ASSUME NEW j \in 1..(Len(s) - 1)
              PROVE  At(j) \in 1..Len(s) /\ (front \o rest)[j] = s[At(j)]
          BY <2>1, <2>4
        <4> HIDE DEF At
        <4> QED
          BY <3>1, <4>1
      <3>2. \A j, k \in 1..Len(s) : s[j] = s[k] => j = k
        BY <2>1 DEF IsInjective
      <3>3. At(a) = At(b)
        BY <3>0, <3>2
      <3>4. i \in Nat /\ a \in Nat /\ b \in Nat
        BY <2>1, <3>1
      <3> QED
        BY <3>3, <3>4
    <2> QED
      BY <2>4, <2>5 DEF RemoveAt, front, rest
  <1> QED
    BY <1>1, <1>2

\* What a launch makes of the file it finds.
LEMMA NewProcessTypes ==
    ASSUME TypeInv, NEW file, file = localFile \/ file = None, NewProcess(file)
    PROVE  TypeInv'
  <1>1. /\ launches' \in 1..MaxLaunches /\ places' = 0 /\ writing' = FALSE
        /\ localFile' = file /\ bFirst' = (file = None) /\ tagsMutable' = (file = None)
        /\ userData' = IF file = None THEN NoConfiguration ELSE file
        /\ top' \in {"disclaimer", "main"}
        /\ functionName' = None /\ curIndexPath' = None /\ tapped' = <<>>
    BY FirstRunAssumption DEF NewProcess, GetInfofromLocalFile, TypeInv, TypeOK
  <1>2. userData' \in Configurations /\ (localFile' # None => localFile' \in Configurations)
    BY <1>1, NoConfigurationType DEF TypeInv, TypeOK
  <1>3. /\ tagsMutable' \in BOOLEAN /\ bFirst' \in BOOLEAN /\ writing' \in BOOLEAN
        /\ top' \in FirstRunScreens \cup {"main"} /\ top' \notin {"user", "location"}
    BY <1>1 DEF FirstRunScreens
  <1>4. TypeOK'
    BY <1>1, <1>2, <1>3, EmptyTags, FirstRunAssumption DEF TypeOK
  <1>5. EditedField'
    BY <1>3 DEF EditedField
  <1>6. TagsInv'
    BY <1>1, EmptyTags, NoConfigurationType DEF TypeInv, TagsInv
  <1> QED
    BY <1>4, <1>5, <1>6 DEF TypeInv

\* A setter of a string keeps the types; the other fields are as they were.
LEMMA SetFieldTypes ==
    ASSUME userData \in Configurations, NEW name, NEW value, SetField(name, value),
           \/ name = "userName" /\ value \in Texts \cup {Signature}
           \/ name = "eMail" /\ value \in Texts
           \/ name \in {"nation", "state", "city"} /\ value \in Names
    PROVE  /\ userData' \in Configurations
           /\ userData'.arrTags = userData.arrTags /\ tagsMutable' = tagsMutable
  BY DEF SetField, Configurations

\* An action that shows screen next and changes no array.
LEMMA ScreenTypes ==
    ASSUME TypeInv, NEW screen \in FirstRunScreens, NEW name, Push(screen, name),
           userData' \in Configurations, userData'.arrTags = userData.arrTags,
           screen = "user" => name \in {"userName", "eMail"},
           screen = "location" => name \in {"nation", "state", "city"},
           name \in {None, "userName", "eMail", "nation", "state", "city"},
           UNCHANGED <<tagsMutable, bFirst, localFile, writing, launches, places>>
    PROVE  TypeInv'
  <1>1. top' = screen /\ functionName' = name /\ curIndexPath' = None /\ tapped' = <<>>
    BY DEF Push
  <1>2. screen \in {"user", "location"} => name # None
    BY FirstRunAssumption DEF TypeInv
  <1>3. TypeOK'
    BY <1>1, <1>2, EmptyTags DEF TypeInv, TypeOK
  <1>4. EditedField' /\ TagsInv'
    BY <1>1, EmptyTags DEF TypeInv, EditedField, TagsInv
  <1> QED
    BY <1>3, <1>4 DEF TypeInv

LEMMA InitTypes == Init => TypeInv
  <1> SUFFICES ASSUME Init PROVE TypeInv
    OBVIOUS
  <1>1. TypeOK
    <2>1. userData \in Configurations /\ tapped \in Seq(Types) /\ localFile = None
      BY NoConfigurationType, EmptyTags DEF Init
    <2>2. top \in FirstRunScreens /\ top \notin {"user", "location"}
      BY DEF Init, FirstRunScreens
    <2>3. launches \in 1..MaxLaunches /\ places \in 0..MaxPlaces
      BY FirstRunAssumption DEF Init
    <2> QED
      BY <2>1, <2>2, <2>3 DEF Init, TypeOK
  <1>2. EditedField /\ TagsInv
    BY NoConfigurationType, EmptyTags DEF Init, EditedField, TagsInv
  <1> QED
    BY <1>1, <1>2 DEF TypeInv

LEMMA NextTypes == TypeInv /\ [Next]_vars => TypeInv'
  <1> SUFFICES ASSUME TypeInv, [Next]_vars PROVE TypeInv'
    OBVIOUS
  <1> USE DEF FirstRunScreens, SettingScreens
  <1>0. userData \in Configurations /\ userData.arrTags \in Seq(Types) /\ tapped \in Seq(Types)
    BY DEF TypeInv, TypeOK, Configurations
  <1>1. CASE Relaunch \/ ClickQuit \/ TypesDoneRaises
    BY <1>1, NewProcessTypes DEF Relaunch, ClickQuit, TypesDoneRaises
  <1>2. CASE ClickYes \/ NavigateBack
    <2>1. Push("settings", None) /\ UNCHANGED <<configVars, writing, countVars>>
      BY <1>2 DEF ClickYes, NavigateBack, Pop
    <2> QED
      BY <1>0, <2>1, ScreenTypes DEF configVars, countVars
  <1>3. CASE SelectSetting
    <2>1. UNCHANGED <<userData, tagsMutable, bFirst, localFile, writing, launches, places>>
      BY <1>3 DEF SelectSetting, configVars, countVars
    <2>2. CASE \E name \in {"userName", "eMail"} : Push("user", name)
      BY <1>0, <2>1, <2>2, ScreenTypes
    <2>3. CASE \E name \in {"nation", "state", "city"} : Push("location", name)
      BY <1>0, <2>1, <2>3, ScreenTypes
    <2>4. CASE Push("types", None)
      BY <1>0, <2>1, <2>4, ScreenTypes
    <2> QED
      BY <1>3, <2>2, <2>3, <2>4 DEF SelectSetting
  <1>4. CASE UserDone
    <2>1. PICK text \in Texts : SetField(functionName, text)
      BY <1>4 DEF UserDone
    <2>2. functionName \in {"userName", "eMail"}
      BY <1>4 DEF UserDone, TypeInv, EditedField
    <2>3. userData' \in Configurations /\ userData'.arrTags = userData.arrTags /\ tagsMutable' = tagsMutable
      BY <1>0, <2>1, <2>2, SetFieldTypes
    <2>4. Push("settings", None) /\ UNCHANGED <<bFirst, localFile, writing, launches, places>>
      BY <1>4 DEF UserDone, Pop, countVars
    <2> QED
      BY <2>3, <2>4, ScreenTypes
  <1>5. CASE SelectName
    BY <1>5 DEF SelectName, configVars, countVars, TypeInv, TypeOK, EditedField, TagsInv
  <1>6. CASE LocationDone
    <2> DEFINE name == IF curIndexPath = None THEN FirstName ELSE curIndexPath
    <2>1. name \in Names /\ SetField(functionName, name)
      BY <1>6, FirstRunAssumption DEF LocationDone, TypeInv, TypeOK
    <2>2. functionName \in {"nation", "state", "city"}
      BY <1>6 DEF LocationDone, TypeInv, EditedField
    <2>3. userData' \in Configurations /\ userData'.arrTags = userData.arrTags /\ tagsMutable' = tagsMutable
      BY <1>0, <2>1, <2>2, SetFieldTypes
    <2>4. Push("settings", None) /\ UNCHANGED <<bFirst, localFile, writing, launches, places>>
      BY <1>6 DEF LocationDone, Pop, countVars
    <2> QED
      BY <2>3, <2>4, ScreenTypes
  <1>7. CASE SelectType
    <2>1. tapped' \in Seq(Types) /\ IsInjective(tapped')
      BY <1>0, <1>7, ChangedTags DEF SelectType, TypeInv, TagsInv
    <2> QED
      BY <1>7, <2>1 DEF SelectType, configVars, countVars, TypeInv, TypeOK, EditedField, TagsInv
  <1>8. CASE TypesDone
    <2>1. userData.arrTags = <<>> /\ IsInjective(tapped)
      BY <1>8 DEF TypesDone, TypeInv, TagsInv
    <2>2. SelectedTypes = tapped
      BY <1>0, <2>1 DEF SelectedTypes
    <2>3. userData' = [userData EXCEPT !.arrTags = tapped] /\ tagsMutable' = FALSE
      BY <1>8, <2>2 DEF TypesDone, SetArrTags
    <2>4. userData' \in Configurations /\ userData'.arrTags = tapped
      BY <1>0, <2>3 DEF Configurations
    <2>5. /\ top' = "settings" /\ functionName' = None /\ curIndexPath' = None /\ tapped' = <<>>
          /\ UNCHANGED <<bFirst, localFile, writing, launches, places>>
      BY <1>8 DEF TypesDone, Pop, Push, countVars
    <2>6. TypeOK'
      BY <2>3, <2>4, <2>5, EmptyTags DEF TypeInv, TypeOK
    <2>7. EditedField' /\ TagsInv'
      BY <2>1, <2>3, <2>4, <2>5, EmptyTags DEF EditedField, TagsInv, TypeInv
    <2> QED
      BY <2>6, <2>7 DEF TypeInv
  <1>9. CASE SettingsDone
    BY <1>9
    DEF SettingsDone, DeleteInfoLocalFile, editVars, countVars, TypeInv, TypeOK, EditedField, TagsInv
  <1>10. CASE FinishSettings
    BY <1>10
    DEF FinishSettings, WriteToFile, editVars, countVars, TypeInv, TypeOK, EditedField, TagsInv
  <1>11. CASE ChoosePlace
    <2>1. PICK name \in {"nation", "state", "city"}, value \in Names : SetField(name, value)
      BY <1>11 DEF ChoosePlace
    <2>2. userData' \in Configurations /\ userData'.arrTags = userData.arrTags /\ tagsMutable' = tagsMutable
      BY <1>0, <2>1, SetFieldTypes
    <2>3. places' \in 0..MaxPlaces
      BY <1>11, FirstRunAssumption DEF ChoosePlace, TypeInv, TypeOK
    <2> QED
      BY <1>11, <2>2, <2>3 DEF ChoosePlace, editVars, TypeInv, TypeOK, EditedField, TagsInv
  <1>12. CASE PublishComment
    <2>1. userData' \in Configurations /\ userData'.arrTags = userData.arrTags /\ tagsMutable' = tagsMutable
      BY <1>0, <1>12, SetFieldTypes DEF PublishComment
    <2> QED
      BY <1>12, <2>1 DEF PublishComment, editVars, countVars, TypeInv, TypeOK, EditedField, TagsInv
  <1>13. CASE ShowConfiguration
    <2>1. /\ userData' = localFile /\ tagsMutable' = FALSE /\ bFirst' = FALSE
          /\ localFile # None /\ UNCHANGED <<localFile, top, editVars, writing, countVars>>
      BY <1>13 DEF ShowConfiguration, GetInfofromLocalFile
    <2> QED
      BY <2>1 DEF editVars, countVars, TypeInv, TypeOK, EditedField, TagsInv
  <1>14. CASE UNCHANGED vars
    BY <1>14
    DEF vars, configVars, editVars, countVars, TypeInv, TypeOK, EditedField, TagsInv
  <1> QED
    BY <1>1, <1>2, <1>3, <1>4, <1>5, <1>6, <1>7, <1>8, <1>9, <1>10, <1>11, <1>12, <1>13, <1>14
    DEF Next

\* The variables have their types: a screen that edits a field edits one of
\* its kind, and no setter puts anything else into it.
THEOREM TypeCorrect == Spec => []TypeOK
  <1>1. TypeInv => TypeOK
    BY DEF TypeInv
  <1> QED
    BY <1>1, InitTypes, NextTypes, PTL DEF Spec

\* The types of the singleton are distinct, as only an empty array can be
\* added to (CustomizedTypeTVC.m:22-57).
THEOREM TagsDistinctAlways == Spec => []TagsDistinct
  <1>1. TypeInv => TagsDistinct
    BY DEF TypeInv, TagsInv, TagsDistinct
  <1> QED
    BY <1>1, InitTypes, NextTypes, PTL DEF Spec
=============================================================================
