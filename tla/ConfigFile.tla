------------------------------ MODULE ConfigFile -----------------------------
(***************************************************************************)
(* The configuration file and who reads and writes it (config.rs): chats,  *)
(* loops and tools load it, the settings window and the onboarding save    *)
(* it.  A load writes what it has read back to the file, and a write       *)
(* empties the file before it fills it, with no lock and no second file.   *)
(*                                                                         *)
(*   Loaders      background calls of load that may be under way           *)
(*   Keys         keys of a language model that the user may type          *)
(***************************************************************************)
EXTENDS Integers, FiniteSets

CONSTANTS
    Loaders, Keys, NoKey,
    MaxSettings,   \* bound: how often the user saves settings
    MaxCrashes     \* bound: how often the program dies

ASSUME ConfigAssumption ==
    NoKey \notin Keys /\ MaxSettings \in Nat /\ MaxCrashes \in Nat

VARIABLES
    configFile,     \* what the file holds
    configCall,     \* configCall[c]: the call of load or save of client c
    configWindow,   \* configWindow[w]: the settings a window has in hand
    savedSettings,  \* history: what the user saved last
    settingsMade,   \* how often the user has saved
    configCrashes,
    mishap          \* history: a save met another call, or the program died writing

configVars == <<configFile, configCall, configWindow, savedSettings, settingsMade,
                configCrashes, mishap>>

ConfigWindows == {"settings", "onboarding"}
Clients == ConfigWindows \cup Loaders

\* Three parts of a configuration: the key, what the settings window shows,
\* by the save that chose it, and the parts that this window does not know
\* (codex, feishu, tool tiers, limits): the user's own or the defaults.
Settings == [key : Keys \cup {NoKey}, keySet : BOOLEAN, choice : 0 .. MaxSettings,
             rest : {"own", "default"}]
Defaults == [key |-> NoKey, keySet |-> FALSE, choice |-> 0, rest |-> "default"]
OwnRest == [Defaults EXCEPT !.rest = "own"]

\* The file is a text; or there is none, it is empty or it does not parse.
File(state, text) == [state |-> state, text |-> text]
Holding(settings) == File("text", settings)
Missing == File("missing", Defaults)
Emptied == File("empty", Defaults)
Broken == File("broken", Defaults)

\* pending: what a save writes once its merge has written the file back.
\* late: a save emptied the file after this call had read it, or this is a
\* save that found the file empty or broken.
ConfigCall(at, op, content) ==
    [at |-> at, op |-> op, content |-> content, pending |-> Defaults, late |-> FALSE]
NoConfigCall == ConfigCall("idle", "load", Defaults)

\* The settings window reads its settings once, when the program starts, and
\* closing it hides it; the onboarding reads them for each of its saves.
NoWindow == [open |-> FALSE, shown |-> Defaults, wanted |-> Defaults, stale |-> FALSE]

ConfigTypeOK ==
    /\ configFile \in [state : {"text", "missing", "empty", "broken"}, text : Settings]
    /\ configCall \in [Clients -> [at : {"idle", "read", "merge", "truncate", "write"},
                                   op : {"load", "merge", "save"}, content : Settings,
                                   pending : Settings, late : BOOLEAN]]
    /\ configWindow \in [ConfigWindows -> [open : BOOLEAN, shown : Settings,
                                           wanted : Settings, stale : BOOLEAN]]
    /\ savedSettings \in Settings /\ settingsMade \in 0 .. MaxSettings
    /\ configCrashes \in 0 .. MaxCrashes /\ mishap \in BOOLEAN

\* No file yet, or one the user has put parts of his own into.
ConfigInit ==
    /\ \/ configFile = Missing /\ savedSettings = Defaults
       \/ configFile = Holding(OwnRest) /\ savedSettings = OwnRest
    /\ configCall = [c \in Clients |-> NoConfigCall]
    /\ configWindow = [w \in ConfigWindows |-> NoWindow]
    /\ settingsMade = 0 /\ configCrashes = 0 /\ mishap = FALSE

\* The part of normalize that matters here: whether there is a key follows
\* from the key.
Normalized(settings) == [settings EXCEPT !.keySet = (settings.key # NoKey)]

\* What a load makes of the file when it goes on to write.
Readable == configFile.state \in {"text", "missing"}
Content == Normalized(configFile.text)

ClientGoes(c, call) == configCall' = [configCall EXCEPT ![c] = call]

\* A window gets settings: the settings window takes over what it knows, with
\* its defaults for the rest; the onboarding keeps the whole.
WindowShows(w, settings, stale) ==
    configWindow' =
        [configWindow EXCEPT ![w] =
            [NoWindow EXCEPT !.open = TRUE, !.stale = stale,
                !.shown = IF w = "settings" THEN [settings EXCEPT !.rest = "default"]
                          ELSE settings]]

Delivers(c, settings, stale) ==
    IF c \in ConfigWindows THEN WindowShows(c, settings, stale) ELSE UNCHANGED configWindow

StartsLoad(c) ==
    /\ configCall[c].at = "idle"
    /\ c \in ConfigWindows => ~configWindow[c].open
    /\ ClientGoes(c, ConfigCall("read", "load", Defaults))
    /\ UNCHANGED <<configFile, configWindow, savedSettings, settingsMade, configCrashes, mishap>>

\* load, up to its write.  Of an empty file it makes the defaults and writes
\* nothing; of one that does not parse an error, which the settings window
\* takes for its defaults and the onboarding gives up on.
LoadReads(c) ==
    /\ configCall[c].at = "read"
    /\ IF Readable
       THEN ClientGoes(c, ConfigCall("truncate", "load", Content)) /\ UNCHANGED configWindow
       ELSE /\ ClientGoes(c, NoConfigCall)
            /\ IF configFile = Broken /\ c = "onboarding" THEN UNCHANGED configWindow
               ELSE Delivers(c, Defaults, TRUE)
    /\ UNCHANGED <<configFile, savedSettings, settingsMade, configCrashes, mishap>>

\* The user saves what a window shows: with another key or the one that is
\* there, which the settings window shows as blank once it has saved.
UserSaves(w) ==
    LET window == configWindow[w]
        chosen(key) == [window.shown EXCEPT !.key = key,
                            !.choice = IF w = "settings" THEN settingsMade + 1 ELSE @]
        meant(key) == IF key = NoKey /\ window.shown.keySet THEN savedSettings.key ELSE key
    IN /\ window.open /\ configCall[w].at = "idle" /\ settingsMade < MaxSettings
       /\ settingsMade' = settingsMade + 1
       /\ \E key \in Keys \cup (IF w = "settings" THEN {window.shown.key} ELSE {}) :
             /\ ClientGoes(w, ConfigCall("merge", "save", chosen(key)))
             /\ configWindow' = [configWindow EXCEPT
                    ![w].wanted = Normalized([chosen(key) EXCEPT !.key = meant(key)])]
       /\ UNCHANGED <<configFile, savedSettings, configCrashes, mishap>>

\* Faulty: a blank key is saved as it is.
MergesNever(settings) == FALSE

\* merge_existing_secret: settings without a key, of one who has seen that
\* there was one, get the key that is there.
Merges(settings) == settings.key = NoKey /\ settings.keySet

\* The merge loads the file, which writes it back, before the save begins.
MergeSecret(w) ==
    LET me == configCall[w]
    IN /\ me.at = "merge"
       /\ ClientGoes(w,
              IF ~Merges(me.content)
              THEN [me EXCEPT !.at = "truncate", !.content = Normalized(@)]
              ELSE IF Readable
              THEN [me EXCEPT !.at = "truncate", !.op = "merge", !.content = Content,
                        !.pending = Normalized([me.content EXCEPT !.key = Content.key])]
              ELSE [me EXCEPT !.at = "truncate", !.content = Normalized(@), !.late = TRUE])
       /\ UNCHANGED <<configFile, configWindow, savedSettings, settingsMade, configCrashes,
                      mishap>>

\* save creates the file anew.  History: a save makes the calls late that
\* have read the file, and the other windows stale.
Empties(c) ==
    LET saving == configCall[c].op = "save"
        overtaken(other) == saving /\ other # c /\ configCall[other].at \in {"truncate", "write"}
    IN /\ configCall[c].at = "truncate" /\ configFile' = Emptied
       /\ configCall' = [other \in Clients |->
              IF other = c THEN [configCall[c] EXCEPT !.at = "write"]
              ELSE [configCall[other] EXCEPT !.late = @ \/ overtaken(other)]]
       /\ configWindow' = [w \in ConfigWindows |->
              [configWindow[w] EXCEPT !.stale = @ \/ (saving /\ w # c /\ configWindow[w].open)]]
       /\ UNCHANGED <<savedSettings, settingsMade, configCrashes, mishap>>

\* The content goes to the start of the file: over a longer one that another
\* call has written since, it leaves a tail that does not parse.
Fills(c) ==
    LET me == configCall[c]
        saving == me.op = "save"
    IN /\ me.at = "write"
       /\ \/ configFile' = Holding(me.content)
          \/ configFile \notin {Emptied, Holding(me.content)} /\ configFile' = Broken
       /\ mishap' = (mishap \/ me.late \/ (saving /\ configWindow[c].stale))
       /\ savedSettings' = IF saving THEN configWindow[c].wanted ELSE savedSettings
       /\ IF me.op = "merge"
          THEN /\ ClientGoes(c, ConfigCall("truncate", "save", me.pending))
               /\ UNCHANGED configWindow
          ELSE /\ ClientGoes(c, NoConfigCall)
               /\ IF saving /\ c = "onboarding"
                  THEN configWindow' = [configWindow EXCEPT ![c] = NoWindow]
                  ELSE Delivers(c, IF saving THEN [me.content EXCEPT !.key = NoKey]
                                   ELSE me.content, me.late)
       /\ UNCHANGED <<settingsMade, configCrashes>>

ProgramDies ==
    /\ configCrashes < MaxCrashes /\ configCrashes' = configCrashes + 1
    /\ mishap' = (mishap \/ \E c \in Clients : configCall[c].at = "write")
    /\ configCall' = [c \in Clients |-> NoConfigCall]
    /\ configWindow' = [w \in ConfigWindows |-> NoWindow]
    /\ UNCHANGED <<configFile, savedSettings, settingsMade>>

ConfigNext ==
    \/ \E c \in Clients : StartsLoad(c) \/ LoadReads(c) \/ Empties(c) \/ Fills(c)
    \/ \E w \in ConfigWindows : UserSaves(w) \/ MergeSecret(w)
    \/ ProgramDies

ConfigSpec == ConfigInit /\ [][ConfigNext]_configVars

---------------------------------------------------------------------------
\* The settings the user saved stay in the file although every reader writes
\* it: what readers alone do to each other harms nothing, and a window that no
\* other save has overtaken shows what is saved.  Settings are lost, mixed or
\* made unreadable only when a save met another call on its way, a window
\* saved what it had read before another save, or the program died between
\* emptying the file and filling it (config.rs:393-426, commands.rs:534-575).
SettingsOutliveTheirReaders ==
    ~mishap =>
        /\ configFile # Broken
        /\ (\A c \in Clients : configCall[c].at # "write") =>
              configFile = Holding(savedSettings) \/ (configFile = Missing /\ savedSettings = Defaults)
        /\ \A w \in ConfigWindows :
              LET window == configWindow[w]
              IN (window.open /\ ~window.stale /\ configCall[w].at = "idle") =>
                    /\ window.shown.choice = savedSettings.choice
                    /\ window.shown.keySet = savedSettings.keySet

=============================================================================
