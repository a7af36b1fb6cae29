----------------------------- MODULE Provisioning -----------------------------
(* Boot and provisioning (main.cpp, check_info.cpp, wifi_config.cpp, the      *)
(* settings message of task_webserver.cpp, setup_coreiot of task_coreiot.cpp):*)
(* the settings file decides between station and access point, a station that *)
(* connects releases the CoreIoT task, and the user saves new settings over   *)
(* the web page, after which the device restarts.  It may also restart at any *)
(* other moment.  The file system is LittleFS: a file opened for writing is   *)
(* created at once when it does not exist, and keeps its old contents until   *)
(* it is closed without an error.                                             *)
CONSTANTS
    Settings,      \* what the settings form can hold
    Blank,         \* neither an SSID nor a password
    NoSsid,        \* a password without an SSID
    Working,       \* the settings the router accepts
    NoSettings,    \* nothing is being saved
    Absent, Broken \* there is no settings file, or one that does not parse

ASSUME BlankAssumption == Blank \in Settings
ASSUME NoSsidAssumption == NoSsid \subseteq Settings \ {Blank}
ASSUME WorkingAssumption == Working \subseteq Settings \ (NoSsid \cup {Blank})
ASSUME NoSettingsAssumption == {NoSettings, Absent, Broken} \cap Settings = {}

VARIABLES
    info,          \* /info.dat
    pages,         \* the web pages are in the file system
    router,        \* the router is up
    mounted,       \* LittleFS is mounted
    config,        \* WIFI_SSID and the other variables
    wifi,          \* WiFi.mode
    connected,     \* WiFi.status() == WL_CONNECTED
    waited,        \* history: startSTA found no such network at some time
    internet,      \* xBinarySemaphoreInternet
    boot_pc,       \* where setup() is
    web,           \* webserver_task was created
    coreiot_pc,    \* where task_coreiot is
    save_pc, saving   \* where the handler of a settings message is

flashVars == <<info, pages>>
saveVars == <<save_pc, saving>>
netVars == <<wifi, connected, waited>>
vars == <<flashVars, router, mounted, config, netVars, internet, boot_pc, web,
          coreiot_pc, saveVars>>

TypeOK ==
    /\ info \in Settings \cup {Absent, Broken}
    /\ {pages, router, mounted, connected, waited, web} \subseteq BOOLEAN
    /\ config \in Settings
    /\ wifi \in {"off", "station", "ap"}
    /\ internet \in {"null", "empty", "full"}
    /\ boot_pc \in {"mount", "mode", "connect", "ui", "web", "coreiot", "done", "hung"}
    /\ coreiot_pc \in {"none", "wait", "online"}
    /\ save_pc \in {"idle", "open", "write", "restart"}
    /\ IF save_pc = "idle" THEN saving = NoSettings ELSE saving \in Settings

Init ==
    /\ info = Absent /\ pages = TRUE
    /\ router \in BOOLEAN
    /\ mounted = FALSE /\ config = Blank
    /\ wifi = "off" /\ connected = FALSE /\ waited = FALSE
    /\ internet = "null"
    /\ boot_pc = "mount" /\ web = FALSE /\ coreiot_pc = "none"
    /\ save_pc = "idle" /\ saving = NoSettings

\* ESP.restart, a failed assertion or a loss of power: all is lost but the flash.
Restart ==
    /\ mounted' = FALSE /\ config' = Blank
    /\ wifi' = "off" /\ connected' = FALSE /\ waited' = FALSE
    /\ internet' = "null"
    /\ boot_pc' = "mount" /\ web' = FALSE /\ coreiot_pc' = "none"
    /\ save_pc' = "idle" /\ saving' = NoSettings
    /\ UNCHANGED <<flashVars, router>>

-----------------------------------------------------------------------------
(* check_info_File(false)                                                    *)

\* Load_info_File: a file that is missing or does not parse changes nothing.
Load(file) == config' = IF file \in Settings THEN file ELSE config

\* LittleFS.begin(true) formats a file system it cannot mount: f is what is
\* left of the settings file, p whether the web pages are left.
Mount(f, p) ==
    /\ boot_pc = "mount"
    /\ info' = f /\ pages' = p
    /\ mounted' = TRUE
    /\ Load(f)
    /\ boot_pc' = "mode"
    /\ UNCHANGED <<router, netVars, internet, web, coreiot_pc, saveVars>>

MountOk == Mount(info, pages)
MountFormats == Mount(Absent, FALSE)

\* ... and when that fails too, setup() goes on without Wi-Fi.
MountFails ==
    /\ boot_pc = "mount"
    /\ boot_pc' = "ui"
    /\ UNCHANGED <<flashVars, router, mounted, config, netVars, internet, web,
                   coreiot_pc, saveVars>>

EnsureReleased ==    \* variant: the semaphore is available when created
    internet' = IF internet = "null" THEN "full" ELSE internet

EnsureInternetSemaphore ==
    internet' = IF internet = "null" THEN "empty" ELSE internet

StartAP ==
    /\ EnsureInternetSemaphore
    /\ wifi' = "ap"
    /\ connected' = FALSE
    /\ boot_pc' = "ui"
    /\ UNCHANGED waited

StartSTA ==
    /\ EnsureInternetSemaphore
    /\ wifi' = "station"
    /\ connected' = FALSE
    /\ waited' = ~(router /\ config \in Working)
    /\ boot_pc' = "connect"

\* The choice of the mode: an access point if neither SSID nor password is set,
\* and also (in startSTA) if there is no SSID.
ChooseMode ==
    /\ boot_pc = "mode"
    /\ IF config \in NoSsid \cup {Blank} THEN StartAP ELSE StartSTA
    /\ UNCHANGED <<flashVars, router, mounted, config, web, coreiot_pc, saveVars>>

\* startSTA's loop finds the station connected.
StationConnected ==
    /\ boot_pc = "connect"
    /\ connected
    /\ internet' = "full"
    /\ boot_pc' = "ui"
    /\ UNCHANGED <<flashVars, router, mounted, config, netVars, web, coreiot_pc, saveVars>>

TimeoutWithoutAP ==    \* variant: `return` without startAP()
    /\ boot_pc = "connect"
    /\ ~connected /\ waited
    /\ boot_pc' = "ui"
    /\ UNCHANGED <<flashVars, router, mounted, config, netVars, internet, web,
                   coreiot_pc, saveVars>>

\* startSTA gives up after 15 s.  A network that is there and accepts the
\* settings all the while is joined before.
StationTimeout ==
    /\ boot_pc = "connect"
    /\ ~connected /\ waited
    /\ StartAP
    /\ UNCHANGED <<flashVars, router, mounted, config, web, coreiot_pc, saveVars>>

-----------------------------------------------------------------------------
(* The rest of setup().  ui_init loops for ever when no display is found.    *)

UiInit ==
    /\ boot_pc = "ui"
    /\ boot_pc' = "web"
    /\ UNCHANGED <<flashVars, router, mounted, config, netVars, internet, web,
                   coreiot_pc, saveVars>>

UiInitHangs ==
    /\ boot_pc = "ui"
    /\ boot_pc' = "hung"
    /\ UNCHANGED <<flashVars, router, mounted, config, netVars, internet, web,
                   coreiot_pc, saveVars>>

WebserverInit ==
    /\ boot_pc = "web"
    /\ web' = TRUE
    /\ boot_pc' = "coreiot"
    /\ UNCHANGED <<flashVars, router, mounted, config, netVars, internet,
                   coreiot_pc, saveVars>>

CoreiotInit ==
    /\ boot_pc = "coreiot"
    /\ coreiot_pc' = "wait"
    /\ boot_pc' = "done"
    /\ UNCHANGED <<flashVars, router, mounted, config, netVars, internet, web, saveVars>>

-----------------------------------------------------------------------------
(* setup_coreiot.  A wait that times out is repeated.                        *)

TakeInternet ==
    /\ coreiot_pc = "wait"
    /\ internet = "full"
    /\ internet' = "empty"
    /\ coreiot_pc' = "online"
    /\ UNCHANGED <<flashVars, router, mounted, config, netVars, boot_pc, web, saveVars>>

\* xSemaphoreTake of a null semaphore fails an assertion of FreeRTOS.
TakeNullSemaphore ==
    /\ coreiot_pc = "wait"
    /\ internet = "null"
    /\ Restart

-----------------------------------------------------------------------------
(* A settings message and Save_info_File                                     *)

\* The user can load the page and the server's task runs.
PageInReach == web /\ mounted /\ pages /\ (wifi = "ap" \/ connected)

Submit(s) ==
    /\ save_pc = "idle"
    /\ PageInReach
    /\ saving' = s
    /\ save_pc' = "open"
    /\ UNCHANGED <<flashVars, router, mounted, config, netVars, internet, boot_pc,
                   web, coreiot_pc>>

OpenRemovesOld ==    \* variant: the old file is removed first
    /\ save_pc = "open"
    /\ info' = Broken
    /\ save_pc' = "write"
    /\ UNCHANGED <<pages, router, mounted, config, netVars, internet, boot_pc, web,
                   coreiot_pc, saving>>

OpenInfo ==
    /\ save_pc = "open"
    /\ info' = IF info = Absent THEN Broken ELSE info
    /\ save_pc' = "write"
    /\ UNCHANGED <<pages, router, mounted, config, netVars, internet, boot_pc, web,
                   coreiot_pc, saving>>

\* The device restarts also when the file cannot be opened.
OpenFails ==
    /\ save_pc = "open"
    /\ save_pc' = "restart"
    /\ UNCHANGED <<flashVars, router, mounted, config, netVars, internet, boot_pc,
                   web, coreiot_pc, saving>>

\* serializeJson and close.  A failed write is not noticed: the close then
\* leaves the file as it was.
WriteInfo ==
    /\ save_pc = "write"
    /\ info' = saving
    /\ save_pc' = "restart"
    /\ UNCHANGED <<pages, router, mounted, config, netVars, internet, boot_pc, web,
                   coreiot_pc, saving>>

WriteFails ==
    /\ save_pc = "write"
    /\ save_pc' = "restart"
    /\ UNCHANGED <<flashVars, router, mounted, config, netVars, internet, boot_pc,
                   web, coreiot_pc, saving>>

ContinueAfterSave ==    \* variant: ESP.restart() is missing
    /\ save_pc = "restart"
    /\ save_pc' = "idle"
    /\ saving' = NoSettings
    /\ UNCHANGED <<flashVars, router, mounted, config, netVars, internet, boot_pc,
                   web, coreiot_pc>>

RestartAfterSave ==
    /\ save_pc = "restart"
    /\ Restart

-----------------------------------------------------------------------------
(* The network                                                               *)

\* The station joins, or joins again, a network that is there.
Associate ==
    /\ wifi = "station" /\ ~connected
    /\ router /\ config \in Working
    /\ connected' = TRUE
    /\ UNCHANGED <<flashVars, router, mounted, config, wifi, waited, internet,
                   boot_pc, web, coreiot_pc, saveVars>>

RouterChanges ==
    /\ router' = ~router
    /\ connected' = FALSE
    /\ waited' = (waited \/ boot_pc = "connect")
    /\ UNCHANGED <<flashVars, mounted, config, wifi, internet, boot_pc, web,
                   coreiot_pc, saveVars>>

-----------------------------------------------------------------------------
Boot == \/ MountOk \/ MountFormats \/ MountFails
        \/ ChooseMode \/ StationConnected \/ StationTimeout
        \/ UiInit \/ UiInitHangs \/ WebserverInit \/ CoreiotInit
CoreIot == TakeInternet \/ TakeNullSemaphore
Save == OpenInfo \/ OpenFails \/ WriteInfo \/ WriteFails \/ RestartAfterSave

Next == \/ Boot \/ CoreIot \/ Save
        \/ \E s \in Settings : Submit(s)
        \/ Associate \/ RouterChanges
        \/ Restart

\* The user of a device that has become an access point enters settings that
\* work.
Provision == wifi = "ap" /\ \E s \in Working : Submit(s)

\* setup(), the tasks and the network proceed, and so does the user.
Fairness == /\ WF_vars(Boot) /\ WF_vars(CoreIot) /\ WF_vars(Save)
            /\ WF_vars(Associate)
            /\ WF_vars(Provision)

Spec == Init /\ [][Next]_vars
FairSpec == Spec /\ Fairness

-----------------------------------------------------------------------------
(* Properties                                                                *)

\* The settings that the next boot will load.
Stored == IF info \in Settings THEN info ELSE Blank

\* The device runs with the settings that are stored, in every boot whose file
\* system could be mounted and until the restart that follows a save: no file
\* left by an interrupted save is taken for settings.
RunsWithStored == mounted /\ save_pc # "restart" => config = Stored

\* CoreIoT is released by nothing but a connection: never by the access point
\* the device falls back to, nor with settings that cannot have connected.
ReleasedByStation ==
    internet = "full" \/ coreiot_pc = "online" => wifi = "station" /\ config \in Working

\* Calm steps: the router stays, nothing fails, and the user changes nothing
\* but the settings of an access point, to some that work.
CalmNext == \/ MountOk \/ ChooseMode \/ StationConnected \/ StationTimeout
            \/ UiInit \/ WebserverInit \/ CoreiotInit
            \/ CoreIot
            \/ OpenInfo \/ WriteInfo \/ RestartAfterSave
            \/ Provision
            \/ Associate

\* Provisioning works in the end: once all is calm, with the router up and the
\* pages in the flash, the CoreIoT task gets online and stays so, whatever
\* happened before (wrong settings, lost routers, interrupted saves, failed
\* mounts), unless the device hangs for want of a display.
OnlineInTheEnd ==
    <>[][CalmNext]_vars /\ <>[](router /\ pages) /\ <>[](boot_pc # "hung")
        => <>[](coreiot_pc = "online")

-----------------------------------------------------------------------------
\* Provisioning implements the abstract store.
Store == INSTANCE SettingsStore
             WITH stored <- Stored,
                  asked <- IF save_pc \in {"open", "write"} THEN saving ELSE NoSettings
StoreSpec == Store!Spec
=============================================================================
