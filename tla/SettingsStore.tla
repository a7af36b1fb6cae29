---------------------------- MODULE SettingsStore ----------------------------
(* What the monitor promises about its Wi-Fi and cloud settings, without boot *)
(* and files: they change as a whole, to what the user has asked for and to   *)
(* nothing else; a request may come to nothing, and all may be lost when the  *)
(* flash is formatted, but not while a request is under way.                  *)
(* Provisioning implements this.                                              *)
CONSTANTS Settings, Blank, NoSettings

VARIABLES stored,   \* the settings the next boot finds; Blank: none
          asked     \* what is being saved, or NoSettings

vars == <<stored, asked>>

Init == stored = Blank /\ asked = NoSettings

Ask == /\ asked = NoSettings
       /\ asked' \in Settings
       /\ UNCHANGED stored

Keep == /\ asked # NoSettings
        /\ stored' = asked
        /\ asked' = NoSettings

Drop == /\ asked # NoSettings
        /\ asked' = NoSettings
        /\ UNCHANGED stored

Format == /\ asked = NoSettings
          /\ stored' = Blank
          /\ UNCHANGED asked

Next == Ask \/ Keep \/ Drop \/ Format

Spec == Init /\ [][Next]_vars
=============================================================================
