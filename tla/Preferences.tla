------------------------------ MODULE Preferences ------------------------------
(***************************************************************************)
(* The preference files (state.py): a global and a project config.json,    *)
(* each replaced whole by whoever sets a locale or a capability's state.   *)
(* A setter reads the file, changes its copy and writes it, without a      *)
(* lock; a crash leaves at most a temporary file.                          *)
(***************************************************************************)
EXTENDS Naturals, FiniteSets

CONSTANTS
  Setters,       \* processes: command lines, consoles, admin servers
  Settings,      \* the locale, and one setting per capability
  SettingValues  \* values of a setting

VARIABLES
  config,        \* place -> the settings of its file
  setter,        \* what each setter is about to write
  last,          \* history: place -> setting -> what was last set
  overlapped     \* history: the places two setters have had open at once

preferences == <<config, setter, last, overlapped>>

Places == {"global", "project"}
Unset == "unset"
NotSetting == [place |-> "nowhere"]

PreferencesInit ==
  /\ config = [p \in Places |-> [s \in Settings |-> Unset]]
  /\ setter = [w \in Setters |-> NotSetting]
  /\ last = config
  /\ overlapped = {}

(* _read of a setter; a missing file reads as one without settings.        *)
ReadConfig(w, p, s, choice) ==
  /\ setter[w] = NotSetting
  /\ setter' = [setter EXCEPT ![w] = [place |-> p, setting |-> s, choice |-> choice,
                                      copy |-> config[p]]]
  /\ overlapped' = overlapped \cup {q \in {p} : \E v \in Setters : setter[v].place = q}
  /\ UNCHANGED <<config, last>>

ChangedOnly(own) ==   \* faulty: the rest of the file is not kept
  [s \in Settings |-> IF s = own.setting THEN own.choice ELSE Unset]
Changed(own) == [own.copy EXCEPT ![own.setting] = own.choice]

(* _write: a temporary file, fsync, os.replace.                            *)
WriteConfig(w) ==
  LET own == setter[w] IN
  /\ own # NotSetting
  /\ config' = [config EXCEPT ![own.place] = Changed(own)]
  /\ last' = [last EXCEPT ![own.place][own.setting] = own.choice]
  /\ setter' = [setter EXCEPT ![w] = NotSetting]
  /\ UNCHANGED overlapped

SetterDies(w) ==
  /\ setter[w] # NotSetting
  /\ setter' = [setter EXCEPT ![w] = NotSetting]
  /\ UNCHANGED <<config, last, overlapped>>

(* resolved_preferences: the project's choice, or else the global one.     *)
Resolved(files, s) ==
  IF files["project"][s] # Unset THEN files["project"][s] ELSE files["global"][s]

PreferencesNext ==
  \E w \in Setters :
    \/ \E p \in Places, s \in Settings, c \in SettingValues : ReadConfig(w, p, s, c)
    \/ WriteConfig(w) \/ SetterDies(w)
PreferencesSpec == PreferencesInit /\ [][PreferencesNext]_preferences

-----------------------------------------------------------------------------
(* A file that no two setters had open at once holds every setting as it   *)
(* was last made, over any number of writes, crashes and writers of the    *)
(* other file, and what is resolved from both follows.  Without the        *)
(* premise a setter loses what another set between its read and its write. *)
SettingsAreKept ==
  /\ \A p \in Places \ overlapped : config[p] = last[p]
  /\ \A s \in Settings : overlapped = {} => Resolved(config, s) = Resolved(last, s)
=============================================================================
