-------------------------- MODULE ProvisioningProofs --------------------------
(* What holds of boot and provisioning for any settings: the settings in use  *)
(* are those stored, only a connection releases CoreIoT, and the settings are *)
(* kept as the abstract store promises.                                       *)
EXTENDS Provisioning, TLAPS

-----------------------------------------------------------------------------
(* What makes the properties inductive                                       *)

\* The parts of the inductive invariant: what setup() has reached tells which
\* mode was chosen, a semaphore exists from then on, and only a connection of
\* the present boot can have set it.
ModeKnown ==
    /\ boot_pc \in {"mount", "mode"} => wifi = "off" /\ internet = "null" /\ ~web
    /\ boot_pc = "connect" => wifi = "station" /\ internet = "empty" /\ ~web
    /\ connected => wifi = "station" /\ config \in Working
    /\ save_pc # "idle" => web
    /\ web => boot_pc \in {"coreiot", "done"}
    /\ coreiot_pc # "none" => boot_pc = "done"
    /\ boot_pc = "mount" => ~mounted
    /\ boot_pc \in {"mode", "connect"} => mounted
    /\ ~mounted => config = Blank

IInv == TypeOK /\ RunsWithStored /\ ReleasedByStation /\ ModeKnown

-----------------------------------------------------------------------------
USE BlankAssumption, NoSsidAssumption, WorkingAssumption, NoSettingsAssumption

LEMMA InitInv == Init => IInv
BY DEF Init, IInv, TypeOK, RunsWithStored, ReleasedByStation, ModeKnown

\* The parts of the invariant, for the steps below.
Parts == TypeOK /\ RunsWithStored /\ ReleasedByStation /\ ModeKnown

LEMMA NextInv == IInv /\ [Next]_vars => IInv'
<1> SUFFICES ASSUME Parts, [Next]_vars PROVE Parts'
  BY DEF IInv, Parts
<1> USE DEF Parts, TypeOK, RunsWithStored, ReleasedByStation, ModeKnown, Stored,
            flashVars, saveVars, netVars
<1>1. CASE MountOk
  BY <1>1 DEF MountOk, Mount, Load
<1>2. CASE MountFormats
  BY <1>2 DEF MountFormats, Mount, Load
<1>3. CASE MountFails
  BY <1>3 DEF MountFails
<1>4. CASE ChooseMode
  BY <1>4 DEF ChooseMode, StartAP, StartSTA, EnsureInternetSemaphore
<1>5. CASE StationConnected
  BY <1>5 DEF StationConnected
<1>6. CASE StationTimeout
  BY <1>6 DEF StationTimeout, StartAP, EnsureInternetSemaphore
<1>7. CASE UiInit
  BY <1>7 DEF UiInit
<1>8. CASE UiInitHangs
  BY <1>8 DEF UiInitHangs
<1>9. CASE WebserverInit
  BY <1>9 DEF WebserverInit
<1>10. CASE CoreiotInit
  BY <1>10 DEF CoreiotInit
<1>11. CASE TakeInternet
  BY <1>11 DEF TakeInternet
<1>12. CASE TakeNullSemaphore
  BY <1>12 DEF TakeNullSemaphore, Restart
<1>13. CASE OpenInfo
  BY <1>13 DEF OpenInfo
<1>14. CASE OpenFails
  BY <1>14 DEF OpenFails
<1>15. CASE WriteInfo
  BY <1>15 DEF WriteInfo
<1>16. CASE WriteFails
  BY <1>16 DEF WriteFails
<1>17. CASE RestartAfterSave
  BY <1>17 DEF RestartAfterSave, Restart
<1>18. CASE Associate
  BY <1>18 DEF Associate
<1>19. CASE RouterChanges
  BY <1>19 DEF RouterChanges
<1>20. CASE Restart
  BY <1>20 DEF Restart
<1>21. ASSUME NEW s \in Settings, Submit(s) PROVE Parts'
  BY <1>21 DEF Submit, PageInReach
<1>22. CASE UNCHANGED vars
  BY <1>22 DEF vars
<1> QED
  BY <1>1, <1>2, <1>3, <1>4, <1>5, <1>6, <1>7, <1>8, <1>9, <1>10, <1>11, <1>12, <1>13, <1>14, <1>15, <1>16, <1>17, <1>18, <1>19, <1>20, <1>21, <1>22
     DEF Next, Boot, CoreIot, Save

LEMMA Invariance == Spec => []IInv
BY InitInv, NextInv, PTL DEF Spec

\* Types: a save that is under way is one of settings the user has entered.
THEOREM ProvisioningTypeCorrect == Spec => []TypeOK
BY Invariance, PTL DEF IInv

\* The device runs with the settings stored (Load_info_File, Save_info_File).
THEOREM RunsWithWhatIsStored == Spec => []RunsWithStored
BY Invariance, PTL DEF IInv

\* CoreIoT is released by a connection only (startSTA, startAP, setup_coreiot).
THEOREM CoreIotReleasedByStation == Spec => []ReleasedByStation
BY Invariance, PTL DEF IInv

-----------------------------------------------------------------------------
\* What is being saved, as the abstract store sees it.
Asked == IF save_pc \in {"open", "write"} THEN saving ELSE NoSettings

LEMMA StoreInit == Init => Store!Init
BY DEF Init, Store!Init, Stored

LEMMA StoreStep == IInv /\ [Next]_vars => [Store!Next]_Store!vars
<1> SUFFICES ASSUME Parts, [Next]_vars
             PROVE  \/ Store!Ask \/ Store!Keep \/ Store!Drop \/ Store!Format
                    \/ Stored' = Stored /\ Asked' = Asked
  BY DEF IInv, Parts, Store!Next, Store!vars, Stored, Asked
<1> DEFINE Goal == \/ Store!Ask \/ Store!Keep \/ Store!Drop \/ Store!Format
                   \/ Stored' = Stored /\ Asked' = Asked
<1> USE DEF Parts, TypeOK, ModeKnown, Stored, Asked, flashVars, saveVars, netVars
<1>1. ASSUME NEW s \in Settings, Submit(s) PROVE Store!Ask
  BY <1>1 DEF Submit, Store!Ask
<1>2. CASE WriteInfo
  <2>1. Store!Keep
    BY <1>2 DEF WriteInfo, Store!Keep
  <2> QED
    BY <2>1
<1>3. CASE WriteFails \/ OpenFails
  <2>1. Store!Drop
    BY <1>3 DEF WriteFails, OpenFails, Store!Drop
  <2> QED
    BY <2>1
<1>4. CASE MountFormats
  <2>1. Store!Format
    BY <1>4 DEF MountFormats, Mount, Store!Format
  <2> QED
    BY <2>1
<1>5. CASE Restart
  <2>1. CASE save_pc \in {"open", "write"}
    <3>1. Store!Drop
      BY <1>5, <2>1 DEF Restart, Store!Drop
    <3> QED
      BY <3>1
  <2>2. CASE save_pc \notin {"open", "write"}
    BY <1>5, <2>2 DEF Restart
  <2> QED
    BY <2>1, <2>2
<1>6. CASE TakeNullSemaphore \/ RestartAfterSave
  BY <1>5, <1>6 DEF TakeNullSemaphore, RestartAfterSave
<1>7. CASE OpenInfo
  BY <1>7 DEF OpenInfo
<1>8. CASE MountOk \/ MountFails
  BY <1>8 DEF MountOk, MountFails, Mount
<1>9. CASE ChooseMode \/ StationConnected \/ StationTimeout
  BY <1>9 DEF ChooseMode, StationConnected, StationTimeout
<1>10. CASE UiInit \/ UiInitHangs \/ WebserverInit \/ CoreiotInit \/ TakeInternet
  BY <1>10 DEF UiInit, UiInitHangs, WebserverInit, CoreiotInit, TakeInternet
<1>11. CASE Associate \/ RouterChanges \/ UNCHANGED vars
  BY <1>11 DEF Associate, RouterChanges, vars
<1> QED
  BY <1>1, <1>2, <1>3, <1>4, <1>5, <1>6, <1>7, <1>8, <1>9, <1>10, <1>11
     DEF Next, Boot, CoreIot, Save

\* Boot and provisioning implement the abstract store of settings: whatever is
\* interrupted, the settings change as a whole and to what was asked for.
THEOREM ImplementsStore == Spec => StoreSpec
BY Invariance, StoreInit, StoreStep, PTL DEF Spec, StoreSpec, Store!Spec
=============================================================================
