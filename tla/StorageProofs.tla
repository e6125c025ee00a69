---------------------------- MODULE StorageProofs ----------------------------
(***************************************************************************)
(* Proofs about what the program keeps and many write: the long-term       *)
(* memory, the configuration file, the list of tasks that agents share,    *)
(* the queue of results to review and the database itself, as it is opened.*)
(***************************************************************************)
EXTENDS MemoryEntries, ConfigFile, ReviewQueue, TaskListItems, SchemaMigration,
        FiniteSetTheorems, NaturalsInduction, TLAPS

----------------------------------------------------------------------------
(* Long-term memory                                                        *)

\* A call that will write a chunk holds entries with a row, or known to be gone.
Indexing == {"updating", "deduplicating", "indexing", "rebuilding"}

RecallInv(w) ==
    LET held == recalling[w].held IN
    /\ recalling[w].at = "inserting" => \E e \in Entries : held = {e}
    /\ recalling[w].at \in Indexing => held \subseteq Rows \cup mislaid
    /\ recalling[w].at = "deleting" => chunks \cap held \subseteq mislaid
    \* What a prompt is about to show was put away after the search, if at all.
    /\ recalling[w].at = "fetching" =>
          \A e \in held : e \in Rows /\ entries[e] \in PutAway => e \in overtaken

\* A row and an id on its way to one were chosen when there was no row, and
\* the later of the two saw the earlier one on its way.
RivalsInv ==
    \A d, e \in Rows \cup Unborn : d # e => e \in rivals

MemoryInv ==
    /\ MemoryTypeOK
    /\ \A w \in Rememberers : RecallInv(w)
    /\ RivalsInv
    /\ chunks \subseteq Rows \cup mislaid
    /\ exposed = {}

LEMMA HeldAtIs ==
    ASSUME NEW place
    PROVE  \A e : e \in HeldAt(place) <=>
              \E w \in Rememberers : recalling[w].at = place /\ e \in recalling[w].held
BY DEF HeldAt, HeldBy

LEMMA HeldAtWillBe ==
    ASSUME NEW place
    PROVE  \A e : e \in HeldAt(place)' <=>
              \E w \in Rememberers : recalling'[w].at = place /\ e \in recalling'[w].held
BY DEF HeldAt, HeldBy

LEMMA MemoryInitInv == MemoryInit => MemoryInv
BY HeldAtIs DEF MemoryInit, MemoryInv, MemoryTypeOK, RecallInv, RivalsInv, Indexing, Rows, Unborn,
      NotRecalling, Recall, RecallPlaces, EntryStatuses

\* The invariant survives a step of call w that leaves the other calls alone,
\* removes only rows it mislays and chunks what it may.
LEMMA MemoryStepInv ==
    ASSUME MemoryInv, [MemoryNext]_memoryVars
    PROVE  MemoryInv'
<1> USE DEF MemoryInv, MemoryTypeOK, Recall, NotRecalling, RecallPlaces, EntryStatuses,
            LiveStatuses, PutAway, Indexing
<1>1. ASSUME NEW w \in Rememberers, NEW e \in Entries, SetReads(w, e), UNCHANGED promptVars
      PROVE  MemoryInv'
  <2>1. CASE e \in Rows /\ RecallGoes(w, "updating", {e}) /\ UNCHANGED rivals
    BY <1>1, <2>1, HeldAtIs, HeldAtWillBe
       DEF SetReads, RecallGoes, RecallInv, RivalsInv, Rows, Unborn, promptVars
  <2>2. CASE /\ Rows = {} /\ entries[e] = "none" /\ e \notin Unborn
             /\ RecallGoes(w, "inserting", {e})
             /\ rivals' = IF Unborn = {} THEN rivals ELSE rivals \cup Unborn \cup {e}
    <3>1. Unborn' = Unborn \cup {e}
      BY <1>1, <2>2, HeldAtIs, HeldAtWillBe DEF SetReads, RecallGoes, Unborn
    <3>2. Rows' = {} /\ Unborn \subseteq Entries
      BY <1>1, <2>2, HeldAtIs DEF SetReads, Rows, Unborn
    <3>3. RivalsInv'
      BY <2>2, <3>1, <3>2 DEF RivalsInv
    <3>4. \A x \in Rememberers : RecallInv(x)'
      BY <1>1, <2>2, <3>2 DEF SetReads, RecallGoes, RecallInv, Rows, promptVars
    <3>5. MemoryTypeOK'
      BY <1>1, <2>2, <3>2 DEF SetReads, RecallGoes, promptVars
    <3> QED
      BY <1>1, <3>3, <3>4, <3>5 DEF SetReads, Rows, promptVars
  <2> QED
    BY <1>1, <2>1, <2>2 DEF SetReads
<1>2. ASSUME NEW w \in Rememberers, SetInserts(w), UNCHANGED promptVars
      PROVE  MemoryInv'
  BY <1>2, HeldAtIs, HeldAtWillBe
     DEF SetInserts, RecallFrom, RecallGoes, RecallInv, RivalsInv, Rows, Unborn, promptVars
<1>3. ASSUME NEW w \in Rememberers, SetUpdates(w), UNCHANGED promptVars
      PROVE  MemoryInv'
  BY <1>3, HeldAtIs, HeldAtWillBe
     DEF SetUpdates, RecallFrom, RecallGoes, RecallInv, RivalsInv, Rows, Unborn, promptVars
<1>4. ASSUME NEW w \in Rememberers, SetDeduplicates(w), UNCHANGED promptVars
      PROVE  MemoryInv'
  BY <1>4, HeldAtIs, HeldAtWillBe
     DEF SetDeduplicates, RecallFrom, RecallGoes, RecallInv, RivalsInv, Rows, Unborn, promptVars
<1>5. ASSUME NEW w \in Rememberers, SetIndexes(w), UNCHANGED promptVars
      PROVE  MemoryInv'
  BY <1>5, HeldAtIs, HeldAtWillBe
     DEF SetIndexes, Indexes, RecallEnds, RecallInv, RivalsInv, Rows, Unborn, promptVars
<1>6. ASSUME NEW w \in Rememberers, NEW e \in Entries, ForgetReads(w, e), UNCHANGED promptVars
      PROVE  MemoryInv'
  BY <1>6, HeldAtIs, HeldAtWillBe
     DEF ForgetReads, RecallGoes, RecallInv, RivalsInv, Rows, Unborn, promptVars
<1>7. ASSUME NEW w \in Rememberers, ForgetMarks(w)
      PROVE  MemoryInv'
  <2> DEFINE marked == {e \in Rows : entries[e] # "forgotten"}
  <2>1. /\ entries' = [e \in Entries |-> IF e \in marked THEN "forgotten" ELSE entries[e]]
        /\ overtaken' = (overtaken \cup marked) \cap HeldAt("fetching")'
        /\ UNCHANGED <<chunks, rivals, mislaid, exposed>>
    BY <1>7 DEF ForgetMarks, OvertakenBy
  <2>2. \E held : /\ recalling' = [recalling EXCEPT ![w] = held]
                  /\ held = NotRecalling \/ held = Recall("cleaning", recalling[w].held)
    BY <1>7 DEF ForgetMarks, RecallGoes, RecallEnds
  <2>3. Rows' = Rows
    BY <2>1 DEF Rows
  <2>4. MemoryTypeOK'
    BY <1>7, <2>1, <2>2 DEF Rows
  <2>5. \A x \in Rememberers : RecallInv(x)'
    BY <2>1, <2>2, <2>3, HeldAtWillBe DEF RecallInv, Rows
  <2>6. Unborn' \subseteq Unborn
    BY <2>2, HeldAtIs, HeldAtWillBe DEF Unborn
  <2> QED
    BY <2>1, <2>3, <2>4, <2>5, <2>6 DEF RivalsInv
<1>8. ASSUME NEW w \in Rememberers, ForgetCleans(w), UNCHANGED promptVars
      PROVE  MemoryInv'
  BY <1>8, HeldAtIs, HeldAtWillBe
     DEF ForgetCleans, RecallEnds, RecallInv, RivalsInv, Rows, Unborn, promptVars
<1>9. ASSUME NEW w \in Rememberers, NEW e \in Entries, DeletesChunk(w, e), UNCHANGED promptVars
      PROVE  MemoryInv'
  BY <1>9, HeldAtIs, HeldAtWillBe
     DEF DeletesChunk, RecallGoes, RecallInv, RivalsInv, Rows, Unborn, promptVars
<1>10. ASSUME NEW w \in Rememberers, DeletesRow(w), UNCHANGED promptVars
       PROVE  MemoryInv'
  BY <1>10, HeldAtIs, HeldAtWillBe
     DEF DeletesRow, HeldBy, RecallEnds, RecallInv, RivalsInv, Rows, Unborn, promptVars
<1>11. ASSUME NEW w \in Rememberers, RebuildClears(w) \/ RebuildLists(w) \/ RebuildIndexes(w),
              UNCHANGED promptVars
       PROVE  MemoryInv'
  <2>1. CASE RebuildClears(w)
    BY <1>11, <2>1, HeldAtIs, HeldAtWillBe
       DEF RebuildClears, RecallGoes, RecallInv, RivalsInv, Rows, Unborn, promptVars
  <2>2. CASE RebuildLists(w)
    BY <1>11, <2>2, HeldAtIs, HeldAtWillBe
       DEF RebuildLists, RecallGoes, RecallInv, RivalsInv, Rows, Unborn, promptVars
  <2>3. CASE RebuildIndexes(w)
    BY <1>11, <2>3, HeldAtIs, HeldAtWillBe
       DEF RebuildIndexes, Indexes, RecallEnds, RecallGoes, RecallInv, RivalsInv, Rows, Unborn,
           promptVars
  <2> QED
    BY <1>11, <2>1, <2>2, <2>3
<1>12. ASSUME NEW w \in Rememberers, PromptSearches(w)
       PROVE  MemoryInv'
  BY <1>12, HeldAtIs, HeldAtWillBe
     DEF PromptSearches, Searchable, RecallGoes, RecallInv, RivalsInv, Rows, Unborn, promptVars,
         rowVars
<1>13. ASSUME NEW w \in Rememberers, PromptFetches(w)
       PROVE  MemoryInv'
  BY <1>13, HeldAtIs, HeldAtWillBe
     DEF PromptFetches, RecallGoes, RecallEnds, OvertakenBy, RecallInv, RivalsInv, Rows, Unborn,
         promptVars, rowVars
<1>14. ASSUME NEW w \in Rememberers, RecallDies(w)
       PROVE  MemoryInv'
  BY <1>14, HeldAtIs, HeldAtWillBe
     DEF RecallDies, RecallEnds, OvertakenBy, RecallInv, RivalsInv, Rows, Unborn, rowVars
<1>15. ASSUME NEW e \in Entries, NEW status \in {"forgotten"} \cup LiveStatuses,
              SetsStatus(e, status)
       PROVE  MemoryInv'
  BY <1>15, HeldAtIs, HeldAtWillBe
     DEF SetsStatus, OvertakenBy, RecallInv, RivalsInv, Rows, Unborn
<1>16. CASE UNCHANGED memoryVars
  BY <1>16, HeldAtIs, HeldAtWillBe DEF memoryVars, RecallInv, RivalsInv, Rows, Unborn
<1> QED
  BY <1>1, <1>2, <1>3, <1>4, <1>5, <1>6, <1>7, <1>8, <1>9, <1>10, <1>11, <1>12, <1>13, <1>14,
     <1>15, <1>16 DEF MemoryNext, SetStep

LEMMA MemoryInvariant == MemorySpec => []MemoryInv
<1>1. MemoryInit => MemoryInv
  BY MemoryInitInv
<1>2. MemoryInv /\ [MemoryNext]_memoryVars => MemoryInv'
  BY MemoryStepInv
<1> QED
  BY <1>1, <1>2, PTL DEF MemorySpec

(***************************************************************************)
(* Whatever the number of entries and calls: two rows of one key come only *)
(* from sets that overlapped, a chunk without its row only from a removed  *)
(* duplicate or a delete that met a call holding the entry, and a prompt   *)
(* shows nothing that was put away before it searched                      *)
(* (memory.rs:561-690, 974-991, 1564-1680).                                *)
(***************************************************************************)
THEOREM RowsAndChunksAlwaysAgree == MemorySpec => []RowsAndChunksAgree
<1>1. ASSUME MemoryInv
      PROVE  RowsAndChunksAgree
  <2>1. ASSUME Cardinality(Rows) > 1, NEW e \in Rows
        PROVE  e \in rivals
    <3>1. CASE \E d \in Rows : d # e
      BY <1>1, <2>1, <3>1 DEF MemoryInv, RivalsInv
    <3>2. CASE Rows = {e}
      <4>1. Cardinality(Rows) = 1
        BY <3>2, FS_Singleton
      <4> QED
        BY <2>1, <4>1
    <3> QED
      BY <2>1, <3>1, <3>2
  <2> QED
    BY <1>1, <2>1 DEF MemoryInv, RowsAndChunksAgree
<1> QED
  BY <1>1, MemoryInvariant, PTL

----------------------------------------------------------------------------
(* The configuration file                                                  *)

HoldsFile(c) == configCall[c].at \in {"truncate", "write"}
Writing(c) == configCall[c].at = "write"
SavesOnTime(c) == Writing(c) /\ configCall[c].op = "save" /\ ~configCall[c].late
UpToDate(w) == configWindow[w].open /\ ~configWindow[w].stale

\* A call of a window, and what it is about to write.
ConfigCallShape(c) ==
    LET call == configCall[c] IN
    /\ call.at = "merge" => call.op = "save"
    /\ call.at = "read" => call.op = "load"
    /\ call.at = "idle" => call.op = "load"
    /\ call.op \in {"merge", "save"} =>
          /\ c \in ConfigWindows /\ configWindow[c].open
          /\ Normalized(configWindow[c].wanted) = configWindow[c].wanted
    /\ call.op = "merge" => HoldsFile(c)
    /\ call.at # "idle" /\ call.op = "load" /\ c \in ConfigWindows => ~configWindow[c].open

\* What a call carries that no save has overtaken is what is saved, or what
\* the user wants to save.
CallCarries(c) ==
    LET call == configCall[c] IN
    /\ HoldsFile(c) /\ call.op \in {"load", "merge"} /\ ~call.late => call.content = savedSettings
    /\ HoldsFile(c) /\ call.op = "save" /\ ~call.late /\ UpToDate(c) =>
          call.content = configWindow[c].wanted
    /\ call.op = "merge" /\ UpToDate(c) => call.pending = configWindow[c].wanted
    /\ call.at = "merge" /\ UpToDate(c) =>
          configWindow[c].wanted =
              Normalized([call.content EXCEPT
                             !.key = IF Merges(call.content) THEN savedSettings.key ELSE @])

\* While a save writes, whatever the others have in hand is known as late.
SaveAlone(c) ==
    SavesOnTime(c) =>
        /\ configFile = Emptied
        /\ \A d \in Clients \ {c} :
              \/ ~HoldsFile(d) \/ configCall[d].late
              \/ configCall[d].at = "truncate" /\ configCall[d].op = "save"
        /\ \A w \in ConfigWindows \ {c} : ~UpToDate(w)

ConfigCallInv(c) == CallCarries(c) /\ SaveAlone(c)

ConfigWindowInv(w) ==
    UpToDate(w) /\ configCall[w].at = "idle" =>
        /\ configWindow[w].shown.choice = savedSettings.choice
        /\ configWindow[w].shown.keySet = savedSettings.keySet

ConfigFileInv ==
    \/ configFile = Emptied /\ \E c \in Clients : Writing(c)
    \/ configFile = Holding(savedSettings)
    \/ configFile = Missing /\ savedSettings = Defaults /\ \A c \in Clients : ~Writing(c)

ConfigInv ==
    /\ ConfigTypeOK
    /\ Normalized(savedSettings) = savedSettings
    /\ \A c \in Clients : ConfigCallShape(c)
    /\ ~mishap =>
          /\ ConfigFileInv
          /\ \A c \in Clients : ConfigCallInv(c)
          /\ \A w \in ConfigWindows : ConfigWindowInv(w)

LEMMA NormalizedIs ==
    ASSUME NEW s \in Settings
    PROVE  /\ Normalized(s) \in Settings /\ Normalized(Normalized(s)) = Normalized(s)
           /\ Normalized(s).choice = s.choice /\ Normalized(s).key = s.key
           /\ Normalized(s).keySet = (s.key # NoKey)
           /\ s.keySet = (s.key # NoKey) => Normalized(s) = s
BY DEF Normalized, Settings

LEMMA DefaultsAre ==
    /\ Defaults \in Settings /\ Normalized(Defaults) = Defaults
    /\ OwnRest \in Settings /\ Normalized(OwnRest) = OwnRest
<1>1. Defaults \in Settings /\ Defaults.key = NoKey /\ Defaults.keySet = FALSE
  BY ConfigAssumption DEF Defaults, Settings
<1>2. OwnRest \in Settings /\ OwnRest.key = NoKey /\ OwnRest.keySet = FALSE
  BY <1>1 DEF OwnRest, Settings
<1> QED
  BY <1>1, <1>2, NormalizedIs

LEMMA ConfigInitInv == ConfigInit => ConfigInv
<1> SUFFICES ASSUME ConfigInit
             PROVE  ConfigInv
  OBVIOUS
<1> USE ConfigAssumption DEF ConfigInit
<1>1. NoConfigCall \in [at : {"idle", "read", "merge", "truncate", "write"},
                         op : {"load", "merge", "save"}, content : Settings,
                         pending : Settings, late : BOOLEAN]
  BY DefaultsAre DEF NoConfigCall, ConfigCall
<1>2. NoWindow \in [open : BOOLEAN, shown : Settings, wanted : Settings, stale : BOOLEAN]
  BY DefaultsAre DEF NoWindow
<1>6. configFile \in [state : {"text", "missing", "empty", "broken"}, text : Settings]
  BY DefaultsAre DEF Missing, Holding, File
<1>7. savedSettings \in Settings /\ mishap \in BOOLEAN
  BY DefaultsAre
<1>8. settingsMade \in 0 .. MaxSettings /\ configCrashes \in 0 .. MaxCrashes
  BY SMT
<1>3. ConfigTypeOK
  BY <1>1, <1>2, <1>6, <1>7, <1>8 DEF ConfigTypeOK
<1>4. \A c \in Clients : configCall[c] = NoConfigCall /\ NoConfigCall.at = "idle"
                         /\ NoConfigCall.op = "load"
  BY DEF NoConfigCall, ConfigCall
<1>5. \A w \in ConfigWindows : ~configWindow[w].open
  BY DEF NoWindow
<1> QED
  BY DefaultsAre, <1>3, <1>4, <1>5 DEF ConfigInv, ConfigFileInv, ConfigCallShape, ConfigCallInv,
     CallCarries, SaveAlone, ConfigWindowInv, HoldsFile, Writing, SavesOnTime, UpToDate,
      Holding, Missing, File

LEMMA StartsLoadKeeps ==
    ASSUME ConfigInv, NEW c \in Clients, StartsLoad(c)
    PROVE  ConfigInv'
<1> DEFINE call == ConfigCall("read", "load", Defaults)
<1>1. /\ configCall' = [configCall EXCEPT ![c] = call]
      /\ UNCHANGED <<configFile, configWindow, savedSettings, settingsMade, configCrashes, mishap>>
      /\ configCall[c].at = "idle" /\ (c \in ConfigWindows => ~configWindow[c].open)
  BY DEF StartsLoad, ClientGoes
<1>2. call.at = "read" /\ call.op = "load"
  BY DEF ConfigCall
<1>3. ConfigTypeOK'
  BY <1>1, ConfigAssumption DEF ConfigInv, ConfigTypeOK, ConfigCall, Defaults, Settings
<1> HIDE DEF call
<1>4. \A d \in Clients : configCall'[d] = IF d = c THEN call ELSE configCall[d]
  BY <1>1 DEF ConfigInv, ConfigTypeOK
<1>5. \A d \in Clients : ConfigCallShape(d)'
  BY <1>1, <1>2, <1>4 DEF ConfigInv, ConfigCallShape, HoldsFile
<1>6. ASSUME ~mishap
      PROVE  ConfigFileInv'
  BY <1>1, <1>2, <1>4, <1>6 DEF ConfigInv, ConfigFileInv, Writing
<1>7. ASSUME ~mishap, NEW d \in Clients
      PROVE  ConfigCallInv(d)'
  BY <1>1, <1>2, <1>4, <1>7
     DEF ConfigInv, ConfigCallInv, CallCarries, SaveAlone, HoldsFile, SavesOnTime, Writing, UpToDate
<1>8. ASSUME ~mishap, NEW w \in ConfigWindows
      PROVE  ConfigWindowInv(w)'
  BY <1>1, <1>2, <1>4, <1>8 DEF ConfigInv, ConfigWindowInv, UpToDate, Clients
<1> QED
  BY <1>1, <1>3, <1>5, <1>6, <1>7, <1>8 DEF ConfigInv

\* The window a client gets, for Delivers.
LEMMA WindowShown ==
    ASSUME ConfigTypeOK, NEW w \in ConfigWindows, NEW s \in Settings, NEW stale \in BOOLEAN,
           WindowShows(w, s, stale)
    PROVE  /\ configWindow' \in [ConfigWindows -> [open : BOOLEAN, shown : Settings,
                                                   wanted : Settings, stale : BOOLEAN]]
           /\ \A x \in ConfigWindows \ {w} : configWindow'[x] = configWindow[x]
           /\ configWindow'[w].open /\ configWindow'[w].stale = stale
           /\ configWindow'[w].shown.choice = s.choice
           /\ configWindow'[w].shown.keySet = s.keySet
<1> DEFINE shown == IF w = "settings" THEN [s EXCEPT !.rest = "default"] ELSE s
           row == [NoWindow EXCEPT !.open = TRUE, !.stale = stale, !.shown = shown]
<1>1. shown \in Settings /\ shown.choice = s.choice /\ shown.keySet = s.keySet
  BY DEF Settings
<1>2. configWindow' = [configWindow EXCEPT ![w] = row]
  BY DEF WindowShows
<1> HIDE DEF shown
<1>3. NoWindow \in [open : BOOLEAN, shown : Settings, wanted : Settings, stale : BOOLEAN]
  BY DefaultsAre DEF NoWindow
<1>4. /\ row \in [open : BOOLEAN, shown : Settings, wanted : Settings, stale : BOOLEAN]
      /\ row.open /\ row.stale = stale /\ row.shown = shown
  BY <1>1, <1>3
<1> HIDE DEF row
<1> QED
  BY <1>1, <1>2, <1>4 DEF ConfigTypeOK

LEMMA LoadReadsKeeps ==
    ASSUME ConfigInv, NEW c \in Clients, LoadReads(c)
    PROVE  ConfigInv'
<1>1. /\ UNCHANGED <<configFile, savedSettings, settingsMade, configCrashes, mishap>>
      /\ configCall[c].at = "read" /\ configCall[c].op = "load"
      /\ c \in ConfigWindows => ~configWindow[c].open
  BY DEF LoadReads, ConfigInv, ConfigCallShape
<1>2. CASE Readable
  <2> DEFINE call == ConfigCall("truncate", "load", Content)
  <2>1. configCall' = [configCall EXCEPT ![c] = call] /\ UNCHANGED configWindow
    BY <1>2 DEF LoadReads, ClientGoes
  <2>2. call.at = "truncate" /\ call.op = "load" /\ call.content = Content
    BY DEF ConfigCall
  <2>3. Content \in Settings
    BY NormalizedIs DEF ConfigInv, ConfigTypeOK, Content
  <2>4. ConfigTypeOK'
    <3>1. call \in [at : {"idle", "read", "merge", "truncate", "write"},
                    op : {"load", "merge", "save"}, content : Settings, pending : Settings,
                    late : BOOLEAN]
      BY <2>3, DefaultsAre DEF ConfigCall
    <3> HIDE DEF call
    <3> QED
      BY <1>1, <2>1, <3>1 DEF ConfigInv, ConfigTypeOK
  <2> HIDE DEF call
  <2>5. \A d \in Clients : configCall'[d] = IF d = c THEN call ELSE configCall[d]
    BY <2>1 DEF ConfigInv, ConfigTypeOK
  <2>6. \A d \in Clients : ConfigCallShape(d)'
    BY <1>1, <2>1, <2>2, <2>5 DEF ConfigInv, ConfigCallShape, HoldsFile
  <2>7. ASSUME ~mishap
        PROVE  Content = savedSettings /\ configFile # Emptied
    BY <1>2, <2>7, DefaultsAre
       DEF ConfigInv, ConfigFileInv, Readable, Content, Emptied, Holding, Missing, File
  <2>8. ASSUME ~mishap
        PROVE  ConfigFileInv'
    BY <1>1, <2>2, <2>5, <2>7, <2>8 DEF ConfigInv, ConfigFileInv, Writing
  <2>9. ASSUME ~mishap, NEW d \in Clients
        PROVE  ConfigCallInv(d)'
    BY <1>1, <2>1, <2>2, <2>5, <2>7, <2>9
       DEF ConfigInv, ConfigCallInv, CallCarries, SaveAlone, HoldsFile, SavesOnTime, Writing, UpToDate
  <2>10. ASSUME ~mishap, NEW w \in ConfigWindows
         PROVE  ConfigWindowInv(w)'
    BY <1>1, <2>1, <2>2, <2>5, <2>10 DEF ConfigInv, ConfigWindowInv, UpToDate, Clients
  <2> QED
    BY <1>1, <2>4, <2>6, <2>8, <2>9, <2>10 DEF ConfigInv
<1>3. CASE ~Readable
  <2>1. /\ configCall' = [configCall EXCEPT ![c] = NoConfigCall]
        /\ UNCHANGED configWindow \/ (c \in ConfigWindows /\ WindowShows(c, Defaults, TRUE))
    BY <1>3 DEF LoadReads, ClientGoes, Delivers
  <2>2. /\ configWindow' \in [ConfigWindows -> [open : BOOLEAN, shown : Settings,
                                               wanted : Settings, stale : BOOLEAN]]
        /\ \A x \in ConfigWindows \ {c} : configWindow'[x] = configWindow[x]
        /\ c \in ConfigWindows => ~UpToDate(c)'
    BY <1>1, <2>1, WindowShown, DefaultsAre DEF ConfigInv, ConfigTypeOK, UpToDate
  <2>3. NoConfigCall.at = "idle" /\ NoConfigCall.op = "load"
    BY DEF NoConfigCall, ConfigCall
  <2>4. ConfigTypeOK'
    <3>1. NoConfigCall \in [at : {"idle", "read", "merge", "truncate", "write"},
                            op : {"load", "merge", "save"}, content : Settings,
                            pending : Settings, late : BOOLEAN]
      BY DefaultsAre DEF NoConfigCall, ConfigCall
    <3> QED
      BY <1>1, <2>1, <2>2, <3>1 DEF ConfigInv, ConfigTypeOK
  <2>5. \A d \in Clients : configCall'[d] = IF d = c THEN NoConfigCall ELSE configCall[d]
    BY <2>1 DEF ConfigInv, ConfigTypeOK
  <2>6. \A d \in Clients : ConfigCallShape(d)'
    BY <1>1, <2>2, <2>3, <2>5 DEF ConfigInv, ConfigCallShape, HoldsFile
  <2>8. ASSUME ~mishap
        PROVE  ConfigFileInv'
    BY <1>1, <2>3, <2>5, <2>8 DEF ConfigInv, ConfigFileInv, Writing
  <2>9. ASSUME ~mishap, NEW d \in Clients
        PROVE  ConfigCallInv(d)'
    <3>1. CASE d = c
      BY <2>3, <2>5, <3>1 DEF ConfigCallInv, CallCarries, SaveAlone, HoldsFile, SavesOnTime, Writing
    <3>2. CASE d # c
      BY <1>1, <2>2, <2>3, <2>5, <2>9, <3>2
         DEF ConfigInv, ConfigCallInv, CallCarries, SaveAlone, ConfigCallShape, HoldsFile,
              SavesOnTime, Writing, UpToDate
    <3> QED
      BY <3>1, <3>2
  <2>10. ASSUME ~mishap, NEW w \in ConfigWindows
         PROVE  ConfigWindowInv(w)'
    BY <1>1, <2>2, <2>3, <2>5, <2>10 DEF ConfigInv, ConfigWindowInv, UpToDate, Clients
  <2> QED
    BY <1>1, <2>4, <2>6, <2>8, <2>9, <2>10 DEF ConfigInv
<1> QED
  BY <1>2, <1>3

LEMMA UserSavesKeeps ==
    ASSUME ConfigInv, NEW w \in ConfigWindows, UserSaves(w)
    PROVE  ConfigInv'
<1> DEFINE shown == configWindow[w].shown
           chosen(key) == [shown EXCEPT !.key = key,
                               !.choice = IF w = "settings" THEN settingsMade + 1 ELSE @]
           meant(key) == IF key = NoKey /\ shown.keySet THEN savedSettings.key ELSE key
<1>1. /\ UNCHANGED <<configFile, savedSettings, configCrashes, mishap>>
      /\ configCall[w].at = "idle" /\ configWindow[w].open
      /\ settingsMade < MaxSettings /\ settingsMade' = settingsMade + 1
  BY DEF UserSaves
<1>2. PICK key \in Keys \cup (IF w = "settings" THEN {shown.key} ELSE {}) :
          /\ configCall' = [configCall EXCEPT ![w] = ConfigCall("merge", "save", chosen(key))]
          /\ configWindow' = [configWindow EXCEPT
                ![w].wanted = Normalized([chosen(key) EXCEPT !.key = meant(key)])]
  BY DEF UserSaves, ClientGoes
<1> DEFINE content == chosen(key)
           wanted == Normalized([content EXCEPT !.key = meant(key)])
<1>3. /\ shown \in Settings /\ key \in Keys \cup {NoKey}
      /\ settingsMade + 1 \in 0 .. MaxSettings /\ savedSettings \in Settings
  <2>1. shown \in Settings /\ savedSettings \in Settings /\ settingsMade \in 0 .. MaxSettings
    BY DEF ConfigInv, ConfigTypeOK
  <2>2. shown.key \in Keys \cup {NoKey}
    BY <2>1 DEF Settings
  <2> HIDE DEF shown
  <2> QED
    BY <1>1, <2>1, <2>2, ConfigAssumption
<1> HIDE DEF shown
<1>4. content \in Settings /\ content.key = key /\ content.keySet = shown.keySet
  BY <1>3 DEF Settings
<1>5. meant(key) = IF Merges(content) THEN savedSettings.key ELSE content.key
  BY <1>4 DEF Merges
<1>6. meant(key) \in Keys \cup {NoKey}
  BY <1>3 DEF Settings
<1> HIDE DEF chosen, meant
<1>7. [content EXCEPT !.key = meant(key)] \in Settings
  BY <1>4, <1>6 DEF Settings
<1>8. /\ wanted \in Settings /\ Normalized(wanted) = wanted
      /\ wanted = Normalized([content EXCEPT !.key = IF Merges(content) THEN savedSettings.key
                                                     ELSE @])
  BY <1>5, <1>7, NormalizedIs
<1> DEFINE call == ConfigCall("merge", "save", content)
<1>9. /\ call.at = "merge" /\ call.op = "save" /\ call.content = content
      /\ call \in [at : {"idle", "read", "merge", "truncate", "write"},
                   op : {"load", "merge", "save"}, content : Settings, pending : Settings,
                   late : BOOLEAN]
  BY <1>4, DefaultsAre DEF ConfigCall
<1>10. /\ configCall' = [configCall EXCEPT ![w] = call]
       /\ configWindow' = [configWindow EXCEPT ![w].wanted = wanted]
  BY <1>2
<1> HIDE DEF content, wanted, call
<1>11. /\ \A d \in Clients : configCall'[d] = IF d = w THEN call ELSE configCall[d]
       /\ \A x \in ConfigWindows : /\ configWindow'[x].open = configWindow[x].open
                                   /\ configWindow'[x].stale = configWindow[x].stale
                                   /\ configWindow'[x].shown = configWindow[x].shown
                                   /\ x # w => configWindow'[x].wanted = configWindow[x].wanted
       /\ configWindow'[w].wanted = wanted
  BY <1>10 DEF ConfigInv, ConfigTypeOK
<1>12. ConfigTypeOK'
  <2>1. /\ configWindow' \in [ConfigWindows -> [open : BOOLEAN, shown : Settings,
                                                wanted : Settings, stale : BOOLEAN]]
    BY <1>8, <1>10 DEF ConfigInv, ConfigTypeOK
  <2>2. settingsMade' \in 0 .. MaxSettings
    BY <1>1, <1>3
  <2> QED
    BY <1>1, <1>9, <1>10, <2>1, <2>2 DEF ConfigInv, ConfigTypeOK
<1>13. \A d \in Clients : ConfigCallShape(d)'
  BY <1>1, <1>8, <1>9, <1>11 DEF ConfigInv, ConfigCallShape, HoldsFile
<1>14. ASSUME ~mishap
       PROVE  ConfigFileInv'
  BY <1>1, <1>9, <1>11, <1>14 DEF ConfigInv, ConfigFileInv, Writing
<1>15. ASSUME ~mishap, NEW d \in Clients
       PROVE  ConfigCallInv(d)'
  <2>1. CASE d = w
    BY <1>1, <1>8, <1>9, <1>11, <1>15, <2>1
       DEF ConfigCallInv, CallCarries, SaveAlone, HoldsFile, SavesOnTime, Writing, UpToDate
  <2>2. CASE d # w
    BY <1>1, <1>9, <1>11, <1>15, <2>2
       DEF ConfigInv, ConfigCallInv, CallCarries, SaveAlone, HoldsFile, SavesOnTime,
            Writing, UpToDate, ConfigCallShape
  <2> QED
    BY <2>1, <2>2
<1>16. ASSUME ~mishap, NEW x \in ConfigWindows
       PROVE  ConfigWindowInv(x)'
  BY <1>1, <1>9, <1>11, <1>16 DEF ConfigInv, ConfigWindowInv, UpToDate, Clients
<1> QED
  BY <1>1, <1>12, <1>13, <1>14, <1>15, <1>16 DEF ConfigInv

LEMMA MergeSecretKeeps ==
    ASSUME ConfigInv, NEW w \in ConfigWindows, MergeSecret(w)
    PROVE  ConfigInv'
<1> DEFINE me == configCall[w]
<1>1. /\ UNCHANGED <<configFile, configWindow, savedSettings, settingsMade, configCrashes, mishap>>
      /\ me.at = "merge" /\ me.op = "save" /\ configWindow[w].open
      /\ Normalized(configWindow[w].wanted) = configWindow[w].wanted
      /\ w \in Clients
  BY DEF MergeSecret, ConfigInv, ConfigCallShape, Clients
<1>2. /\ me \in [at : {"idle", "read", "merge", "truncate", "write"},
                 op : {"load", "merge", "save"}, content : Settings, pending : Settings,
                 late : BOOLEAN]
      /\ savedSettings \in Settings /\ Content \in Settings
  BY <1>1, NormalizedIs DEF ConfigInv, ConfigTypeOK, Content
<1>3. ~mishap /\ Readable => Content = savedSettings /\ configFile # Emptied
  BY DefaultsAre
     DEF ConfigInv, ConfigFileInv, Readable, Content, Emptied, Holding, Missing, File
<1>4. ~mishap /\ UpToDate(w) =>
          configWindow[w].wanted =
              Normalized([me.content EXCEPT
                             !.key = IF Merges(me.content) THEN savedSettings.key ELSE @])
  BY <1>1 DEF ConfigInv, ConfigCallInv, CallCarries
<1>5. ASSUME NEW call,
             call \in [at : {"idle", "read", "merge", "truncate", "write"},
                       op : {"load", "merge", "save"}, content : Settings,
                       pending : Settings, late : BOOLEAN],
             configCall' = [configCall EXCEPT ![w] = call],
             call.at = "truncate", call.op \in {"save", "merge"},
             ~mishap => \/ call.late /\ call.op = "save"
                        \/ /\ call.op = "save"
                           /\ UpToDate(w) => call.content = configWindow[w].wanted
                        \/ /\ call.op = "merge" /\ configFile # Emptied
                           /\ call.content = savedSettings
                           /\ UpToDate(w) => call.pending = configWindow[w].wanted
      PROVE  ConfigInv'
  <2>1. \A d \in Clients : configCall'[d] = IF d = w THEN call ELSE configCall[d]
    BY <1>5 DEF ConfigInv, ConfigTypeOK
  <2>2. ConfigTypeOK'
    BY <1>1, <1>5 DEF ConfigInv, ConfigTypeOK
  <2>3. \A d \in Clients : ConfigCallShape(d)'
    BY <1>1, <1>5, <2>1 DEF ConfigInv, ConfigCallShape, HoldsFile
  <2>4. ASSUME ~mishap
        PROVE  ConfigFileInv'
    BY <1>1, <1>5, <2>1, <2>4 DEF ConfigInv, ConfigFileInv, Writing
  <2>5. ASSUME ~mishap, NEW d \in Clients
        PROVE  ConfigCallInv(d)'
    <3>1. CASE d = w
      BY <1>1, <1>5, <2>1, <2>5, <3>1
         DEF ConfigCallInv, CallCarries, SaveAlone, HoldsFile, SavesOnTime, Writing, UpToDate
    <3>2. CASE d # w
      BY <1>1, <1>5, <2>1, <2>5, <3>2
         DEF ConfigInv, ConfigCallInv, CallCarries, SaveAlone, HoldsFile, SavesOnTime, Writing, UpToDate
    <3> QED
      BY <3>1, <3>2
  <2>6. ASSUME ~mishap, NEW x \in ConfigWindows
        PROVE  ConfigWindowInv(x)'
    BY <1>1, <1>5, <2>1, <2>6 DEF ConfigInv, ConfigWindowInv, UpToDate, Clients
  <2> QED
    BY <1>1, <2>2, <2>3, <2>4, <2>5, <2>6 DEF ConfigInv
<1>6. CASE ~Merges(me.content)
  <2> DEFINE call == [me EXCEPT !.at = "truncate", !.content = Normalized(@)]
  <2>1. /\ call \in [at : {"idle", "read", "merge", "truncate", "write"},
                     op : {"load", "merge", "save"}, content : Settings,
                     pending : Settings, late : BOOLEAN]
        /\ call.at = "truncate" /\ call.op = "save" /\ call.content = Normalized(me.content)
    BY <1>1, <1>2, NormalizedIs
  <2>2. [me.content EXCEPT !.key = IF Merges(me.content) THEN savedSettings.key ELSE @]
            = me.content
    BY <1>2, <1>6 DEF Settings
  <2>3. configCall' = [configCall EXCEPT ![w] = call]
    BY <1>6 DEF MergeSecret, ClientGoes
  <2> HIDE DEF call, me
  <2> QED
    BY <1>4, <1>5, <2>1, <2>2, <2>3
<1>7. CASE Merges(me.content) /\ Readable
  <2> DEFINE merged == [me.content EXCEPT !.key = Content.key]
             call == [me EXCEPT !.at = "truncate", !.op = "merge", !.content = Content,
                                !.pending = Normalized(merged)]
  <2>1. merged \in Settings
    BY <1>2 DEF Settings
  <2>2. /\ call \in [at : {"idle", "read", "merge", "truncate", "write"},
                     op : {"load", "merge", "save"}, content : Settings,
                     pending : Settings, late : BOOLEAN]
        /\ call.at = "truncate" /\ call.op = "merge" /\ call.content = Content
        /\ call.pending = Normalized(merged)
    <3> HIDE DEF merged
    <3> QED
      BY <1>2, <2>1, NormalizedIs
  <2>3. ~mishap => merged = [me.content EXCEPT !.key = IF Merges(me.content)
                                                       THEN savedSettings.key ELSE @]
    BY <1>3, <1>7
  <2>4. configCall' = [configCall EXCEPT ![w] = call]
    BY <1>7 DEF MergeSecret, ClientGoes
  <2> HIDE DEF call, merged, me
  <2> QED
    BY <1>3, <1>4, <1>5, <1>7, <2>2, <2>3, <2>4
<1>8. CASE Merges(me.content) /\ ~Readable
  <2> DEFINE call == [me EXCEPT !.at = "truncate", !.content = Normalized(@), !.late = TRUE]
  <2>1. /\ call \in [at : {"idle", "read", "merge", "truncate", "write"},
                     op : {"load", "merge", "save"}, content : Settings,
                     pending : Settings, late : BOOLEAN]
        /\ call.at = "truncate" /\ call.op = "save" /\ call.late
    BY <1>1, <1>2, NormalizedIs
  <2>2. configCall' = [configCall EXCEPT ![w] = call]
    BY <1>8 DEF MergeSecret, ClientGoes
  <2> HIDE DEF call, me
  <2> QED
    BY <1>5, <2>1, <2>2
<1> QED
  BY <1>6, <1>7, <1>8

LEMMA EmptiesKeeps ==
    ASSUME ConfigInv, NEW c \in Clients, Empties(c)
    PROVE  ConfigInv'
<1> DEFINE saving == configCall[c].op = "save"
<1>1. /\ configCall[c].at = "truncate" /\ configFile' = Emptied
      /\ UNCHANGED <<savedSettings, settingsMade, configCrashes, mishap>>
      /\ configCall' = [d \in Clients |->
            IF d = c THEN [configCall[c] EXCEPT !.at = "write"]
            ELSE [configCall[d] EXCEPT !.late = @ \/ (saving /\ d # c /\ HoldsFile(d))]]
      /\ configWindow' = [w \in ConfigWindows |->
            [configWindow[w] EXCEPT !.stale = @ \/ (saving /\ w # c /\ configWindow[w].open)]]
  BY DEF Empties, HoldsFile
<1>2. ConfigTypeOK'
  <2>1. \A d \in Clients : configCall'[d] \in
                      [at : {"idle", "read", "merge", "truncate", "write"},
                       op : {"load", "merge", "save"}, content : Settings,
                       pending : Settings, late : BOOLEAN]
    BY <1>1 DEF ConfigInv, ConfigTypeOK
  <2>2. \A w \in ConfigWindows : configWindow'[w] \in
                      [open : BOOLEAN, shown : Settings, wanted : Settings, stale : BOOLEAN]
    BY <1>1 DEF ConfigInv, ConfigTypeOK
  <2>3. configFile' \in [state : {"text", "missing", "empty", "broken"}, text : Settings]
    BY <1>1, DefaultsAre DEF Emptied, File
  <2> QED
    BY <1>1, <2>1, <2>2, <2>3 DEF ConfigInv, ConfigTypeOK
<1>3. /\ configCall'[c].at = "write" /\ configCall'[c].op = configCall[c].op
      /\ configCall'[c].content = configCall[c].content
      /\ configCall'[c].pending = configCall[c].pending
      /\ (configCall'[c].late <=> configCall[c].late)
  BY <1>1 DEF ConfigInv, ConfigTypeOK
<1>4. \A d \in Clients \ {c} :
         /\ configCall'[d].at = configCall[d].at /\ configCall'[d].op = configCall[d].op
         /\ configCall'[d].content = configCall[d].content
         /\ configCall'[d].pending = configCall[d].pending
         /\ configCall'[d].late <=> (configCall[d].late \/ (saving /\ HoldsFile(d)))
  BY <1>1 DEF ConfigInv, ConfigTypeOK
<1>5. \A w \in ConfigWindows :
         /\ configWindow'[w].open = configWindow[w].open
         /\ configWindow'[w].shown = configWindow[w].shown
         /\ configWindow'[w].wanted = configWindow[w].wanted
         /\ configWindow'[w].stale <=>
               (configWindow[w].stale \/ (saving /\ w # c /\ configWindow[w].open))
  BY <1>1 DEF ConfigInv, ConfigTypeOK
<1>6. \A d \in Clients : ConfigCallShape(d)'
  BY <1>1, <1>3, <1>4, <1>5 DEF ConfigInv, ConfigCallShape, HoldsFile
<1>7. ConfigFileInv'
  BY <1>1, <1>3 DEF ConfigFileInv, Writing
<1>8. ASSUME ~mishap
      PROVE  ConfigCallInv(c)'
  <2>1. CallCarries(c) /\ SaveAlone(c)
    BY <1>8 DEF ConfigInv, ConfigCallInv
  <2>5. ConfigCallShape(c)
    BY DEF ConfigInv
  <2>6. c \in ConfigWindows => (UpToDate(c)' => UpToDate(c))
    BY <1>5 DEF UpToDate
  <2>2. CallCarries(c)'
    BY <1>1, <1>3, <1>5, <2>1, <2>5, <2>6 DEF CallCarries, HoldsFile, ConfigCallShape
  <2>3. SavesOnTime(c)' => saving
    BY <1>3 DEF SavesOnTime
  <2>4. SaveAlone(c)'
    BY <1>1, <1>4, <1>5, <2>3 DEF SaveAlone, HoldsFile, UpToDate
  <2> QED
    BY <2>2, <2>4 DEF ConfigCallInv
<1>9. ASSUME ~mishap, NEW d \in Clients \ {c}
      PROVE  ConfigCallInv(d)'
  <2>1. CallCarries(d) /\ SaveAlone(d)
    BY <1>9 DEF ConfigInv, ConfigCallInv
  <2>2. d \in ConfigWindows => (UpToDate(d)' => UpToDate(d))
    BY <1>5 DEF UpToDate
  <2>7. ConfigCallShape(d)
    BY DEF ConfigInv
  <2>8. /\ configCall[d].op \in {"merge", "save"} => d \in ConfigWindows
        /\ configCall[d].at = "merge" => configCall[d].op = "save"
    BY <2>7 DEF ConfigCallShape
  <2>9. HoldsFile(d)' <=> HoldsFile(d)
    BY <1>4 DEF HoldsFile
  <2>10. ~configCall'[d].late => ~configCall[d].late
    BY <1>4
  <2>11. d \in ConfigWindows => configWindow'[d].wanted = configWindow[d].wanted
    BY <1>5
  <2>3. CallCarries(d)'
    BY <1>1, <1>4, <2>1, <2>2, <2>8, <2>9, <2>10, <2>11 DEF CallCarries
  <2>4. SavesOnTime(d)' => SavesOnTime(d) /\ ~saving
    BY <1>1, <1>4 DEF SavesOnTime, Writing, HoldsFile
  <2>5. SavesOnTime(d)' => configFile' = Emptied /\ configCall[c].late
    BY <1>1, <2>1, <2>4 DEF SaveAlone, HoldsFile
  <2>6. SaveAlone(d)'
    BY <1>3, <1>4, <1>5, <2>1, <2>4, <2>5 DEF SaveAlone, HoldsFile, UpToDate
  <2> QED
    BY <2>3, <2>6 DEF ConfigCallInv
<1>10. ASSUME ~mishap, NEW w \in ConfigWindows
       PROVE  ConfigWindowInv(w)'
  BY <1>1, <1>3, <1>4, <1>5, <1>10 DEF ConfigInv, ConfigWindowInv, UpToDate, Clients
<1> QED
  BY <1>1, <1>2, <1>6, <1>7, <1>8, <1>9, <1>10 DEF ConfigInv

LEMMA ProgramDiesKeeps ==
    ASSUME ConfigInv, ProgramDies
    PROVE  ConfigInv'
<1>1. /\ UNCHANGED <<configFile, savedSettings, settingsMade>>
      /\ mishap' = (mishap \/ \E c \in Clients : configCall[c].at = "write")
      /\ configCall' = [c \in Clients |-> NoConfigCall]
      /\ configWindow' = [w \in ConfigWindows |-> NoWindow]
      /\ configCrashes < MaxCrashes /\ configCrashes' = configCrashes + 1
  BY DEF ProgramDies
<1>2. /\ NoConfigCall \in [at : {"idle", "read", "merge", "truncate", "write"},
                           op : {"load", "merge", "save"}, content : Settings,
                           pending : Settings, late : BOOLEAN]
      /\ NoConfigCall.at = "idle" /\ NoConfigCall.op = "load"
  BY DefaultsAre DEF NoConfigCall, ConfigCall
<1>3. /\ NoWindow \in [open : BOOLEAN, shown : Settings, wanted : Settings, stale : BOOLEAN]
      /\ ~NoWindow.open
  BY DefaultsAre DEF NoWindow
<1>4. configCrashes' \in 0 .. MaxCrashes
  BY <1>1, ConfigAssumption DEF ConfigInv, ConfigTypeOK
<1>5. mishap' \in BOOLEAN
  BY <1>1
<1>6. ConfigTypeOK'
  BY <1>1, <1>2, <1>3, <1>4, <1>5 DEF ConfigInv, ConfigTypeOK
<1>7. /\ \A c \in Clients : configCall'[c].at = "idle" /\ configCall'[c].op = "load"
      /\ \A w \in ConfigWindows : ~configWindow'[w].open
  BY <1>1, <1>2, <1>3
<1>8. ~mishap' => ConfigFileInv'
  BY <1>1, <1>7 DEF ConfigInv, ConfigFileInv, Writing
<1> QED
  BY <1>1, <1>6, <1>7, <1>8
     DEF ConfigInv, ConfigCallShape, ConfigCallInv, CallCarries, SaveAlone, ConfigWindowInv,
          HoldsFile, SavesOnTime, Writing,
         UpToDate

LEMMA FillsKeeps ==
    ASSUME ConfigInv, NEW c \in Clients, Fills(c)
    PROVE  ConfigInv'
<1> DEFINE me == configCall[c]
           saving == me.op = "save"
           Calls == [at : {"idle", "read", "merge", "truncate", "write"},
                     op : {"load", "merge", "save"}, content : Settings, pending : Settings,
                     late : BOOLEAN]
           Shown == [open : BOOLEAN, shown : Settings, wanted : Settings, stale : BOOLEAN]
<1>1. /\ me.at = "write" /\ UNCHANGED <<settingsMade, configCrashes>>
      /\ \/ configFile' = Holding(me.content)
         \/ configFile \notin {Emptied, Holding(me.content)} /\ configFile' = Broken
      /\ mishap' = (mishap \/ me.late \/ (saving /\ configWindow[c].stale))
      /\ savedSettings' = IF saving THEN configWindow[c].wanted ELSE savedSettings
  BY DEF Fills
<1>2. /\ me \in Calls /\ savedSettings \in Settings /\ configCall \in [Clients -> Calls]
      /\ configWindow \in [ConfigWindows -> Shown]
  BY DEF ConfigInv, ConfigTypeOK
<1>3. ConfigCallShape(c) /\ HoldsFile(c)
  BY <1>1 DEF ConfigInv, HoldsFile
<1>4. NoConfigCall \in Calls /\ NoConfigCall.at = "idle" /\ NoConfigCall.op = "load"
  BY DefaultsAre DEF NoConfigCall, ConfigCall
<1>5. NoWindow \in Shown /\ ~NoWindow.open
  BY DefaultsAre DEF NoWindow
\* What becomes of the call and of the window.
<1>6. \E call \in Calls :
         /\ \A d \in Clients : configCall'[d] = IF d = c THEN call ELSE configCall[d]
         /\ configCall' = [configCall EXCEPT ![c] = call]
         /\ IF me.op = "merge"
            THEN call.at = "truncate" /\ call.op = "save" /\ call.content = me.pending
            ELSE call = NoConfigCall
  <2>1. CASE me.op = "merge"
    <3> DEFINE call == ConfigCall("truncate", "save", me.pending)
    <3>1. call \in Calls /\ call.at = "truncate" /\ call.op = "save" /\ call.content = me.pending
      BY <1>2, DefaultsAre DEF ConfigCall
    <3>2. configCall' = [configCall EXCEPT ![c] = call]
      BY <2>1 DEF Fills, ClientGoes
    <3> HIDE DEF call, Calls
    <3> QED
      BY <1>2, <2>1, <3>1, <3>2
  <2>2. CASE me.op # "merge"
    <3>1. configCall' = [configCall EXCEPT ![c] = NoConfigCall]
      BY <2>2 DEF Fills, ClientGoes
    <3> HIDE DEF Calls
    <3> QED
      BY <1>2, <1>4, <2>2, <3>1
  <2> QED
    BY <2>1, <2>2
<1>7. /\ configWindow' \in [ConfigWindows -> Shown]
      /\ \A w \in ConfigWindows \ {c} : configWindow'[w] = configWindow[w]
      /\ me.op = "merge" => configWindow' = configWindow
      /\ me.op # "merge" /\ c \in ConfigWindows /\ configWindow'[c].open =>
            /\ configWindow'[c].shown.choice = me.content.choice
            /\ configWindow'[c].shown.keySet = me.content.keySet
  <2>1. CASE me.op = "merge"
    BY <1>2, <2>1 DEF Fills
  <2>2. CASE saving /\ c = "onboarding"
    <3>1. configWindow' = [configWindow EXCEPT ![c] = NoWindow]
      BY <2>2 DEF Fills
    <3> HIDE DEF Shown
    <3> QED
      BY <1>2, <1>5, <2>2, <3>1
  <2>3. CASE me.op # "merge" /\ ~(saving /\ c = "onboarding")
    <3> DEFINE given == IF saving THEN [me.content EXCEPT !.key = NoKey] ELSE me.content
    <3>1. /\ given \in Settings /\ given.choice = me.content.choice
          /\ given.keySet = me.content.keySet
      BY <1>2 DEF Settings
    <3>2. c \in ConfigWindows => WindowShows(c, given, me.late)
      BY <2>3 DEF Fills, Delivers
    <3>3. c \notin ConfigWindows => UNCHANGED configWindow
      BY <2>3 DEF Fills, Delivers
    <3>4. me.late \in BOOLEAN /\ ConfigTypeOK
      BY <1>2 DEF ConfigInv
    <3> HIDE DEF given
    <3>5. CASE c \in ConfigWindows
      BY <2>3, <3>1, <3>2, <3>4, <3>5, WindowShown
    <3>6. CASE c \notin ConfigWindows
      BY <1>2, <3>3, <3>6
    <3> QED
      BY <3>5, <3>6
  <2> QED
    BY <2>1, <2>2, <2>3
<1>8. PICK call \in Calls :
         /\ \A d \in Clients : configCall'[d] = IF d = c THEN call ELSE configCall[d]
         /\ configCall' = [configCall EXCEPT ![c] = call]
         /\ IF me.op = "merge"
            THEN call.at = "truncate" /\ call.op = "save" /\ call.content = me.pending
            ELSE call = NoConfigCall
  BY <1>6
<1>9. /\ savedSettings' \in Settings /\ Normalized(savedSettings') = savedSettings'
  BY <1>1, <1>2, <1>3 DEF ConfigInv, ConfigCallShape
<1>10. ConfigTypeOK'
  <2>1. configFile' \in [state : {"text", "missing", "empty", "broken"}, text : Settings]
    BY <1>1, <1>2, DefaultsAre DEF Holding, Broken, File
  <2>2. mishap' \in BOOLEAN
    BY <1>1
  <2>3. configCall' \in [Clients -> Calls]
    BY <1>2, <1>8
  <2> QED
    BY <1>1, <1>7, <1>9, <2>1, <2>2, <2>3 DEF ConfigInv, ConfigTypeOK
<1>11. \A d \in Clients : ConfigCallShape(d)'
  <2>1. ConfigCallShape(c)'
    BY <1>3, <1>4, <1>7, <1>8 DEF ConfigCallShape, HoldsFile
  <2>2. ASSUME NEW d \in Clients \ {c}
        PROVE  ConfigCallShape(d)'
    BY <1>7, <1>8 DEF ConfigInv, ConfigCallShape, HoldsFile
  <2> QED
    BY <2>1, <2>2
<1>12. ASSUME ~mishap'
       PROVE  /\ ConfigFileInv'
              /\ \A d \in Clients : ConfigCallInv(d)'
              /\ \A w \in ConfigWindows : ConfigWindowInv(w)'
  <2>1. ~mishap /\ ~me.late /\ (saving => UpToDate(c) /\ SavesOnTime(c))
    BY <1>1, <1>3, <1>12 DEF UpToDate, SavesOnTime, Writing, ConfigCallShape
  <2>2. /\ CallCarries(c) /\ SaveAlone(c) /\ ConfigFileInv
        /\ \A d \in Clients : CallCarries(d) /\ SaveAlone(d) /\ ConfigCallShape(d)
        /\ \A w \in ConfigWindows : ConfigWindowInv(w)
    BY <2>1 DEF ConfigInv, ConfigCallInv
  <2>3. me.content = savedSettings'
    BY <1>1, <1>2, <1>3, <2>1, <2>2 DEF CallCarries
  <2>4. configFile' = Holding(savedSettings')
    <3>1. CASE saving
      BY <1>1, <2>1, <2>2, <2>3, <3>1 DEF SaveAlone
    <3>2. CASE ~saving
      BY <1>1, <2>2, <2>3, <3>2 DEF ConfigFileInv, Writing
    <3> QED
      BY <3>1, <3>2
  <2>5. ASSUME NEW d \in Clients \ {c}
        PROVE  ConfigCallInv(d)'
    <3>1. ~SavesOnTime(d)
      BY <1>1, <2>1, <2>2, <2>5 DEF SaveAlone, HoldsFile
    <3>2. SaveAlone(d)'
      BY <1>8, <2>5, <3>1 DEF SaveAlone, SavesOnTime, Writing
    <3>3. CASE saving
      <4>1. /\ HoldsFile(d) /\ ~configCall[d].late => configCall[d].op = "save"
            /\ d \in ConfigWindows => ~UpToDate(d)
        BY <2>1, <2>2, <2>5, <3>3 DEF SaveAlone
      <4>2. /\ configCall[d].op \in {"merge", "save"} => d \in ConfigWindows
            /\ configCall[d].at = "merge" => configCall[d].op = "save"
        BY <2>2, <2>5 DEF ConfigCallShape
      <4>3. configCall'[d] = configCall[d] /\ (HoldsFile(d)' <=> HoldsFile(d))
        BY <1>8, <2>5 DEF HoldsFile
      <4>4. configCall[d].op \in {"merge", "save"} => ~UpToDate(d)'
        BY <1>7, <2>5, <4>1, <4>2 DEF UpToDate
      <4>5. configCall[d].op \in {"load", "merge", "save"}
        BY <1>2, <2>5
      <4>6. CallCarries(d)'
        BY <4>1, <4>2, <4>3, <4>4, <4>5 DEF CallCarries
      <4> QED
        BY <3>2, <4>6 DEF ConfigCallInv
    <3>4. CASE ~saving
      <4>1. CallCarries(d)'
        BY <1>1, <1>7, <1>8, <2>2, <2>5, <3>4 DEF CallCarries, HoldsFile, UpToDate, ConfigCallShape
      <4> QED
        BY <3>2, <4>1 DEF ConfigCallInv
    <3> QED
      BY <3>3, <3>4
  <2>6. ConfigCallInv(c)'
    <3>1. SaveAlone(c)'
      BY <1>4, <1>8 DEF SaveAlone, SavesOnTime, Writing
    <3>2. CASE me.op = "merge"
      BY <1>3, <1>7, <1>8, <2>2, <3>1, <3>2
         DEF ConfigCallInv, CallCarries, UpToDate, HoldsFile, ConfigCallShape
    <3>3. CASE me.op # "merge"
      BY <1>4, <1>8, <3>1, <3>3 DEF ConfigCallInv, CallCarries, HoldsFile
    <3> QED
      BY <3>2, <3>3
  <2>7. ASSUME NEW w \in ConfigWindows
        PROVE  ConfigWindowInv(w)'
    <3>1. CASE w = c
      BY <1>4, <1>7, <1>8, <2>3, <3>1 DEF ConfigWindowInv, UpToDate
    <3>2. CASE w # c /\ saving
      BY <1>7, <2>1, <2>2, <3>2 DEF ConfigWindowInv, UpToDate, SaveAlone
    <3>3. CASE w # c /\ ~saving
      BY <1>1, <1>7, <1>8, <2>2, <3>3 DEF ConfigWindowInv, UpToDate, Clients
    <3> QED
      BY <3>1, <3>2, <3>3
  <2> QED
    BY <2>4, <2>5, <2>6, <2>7 DEF ConfigFileInv
<1> QED
  BY <1>9, <1>10, <1>11, <1>12 DEF ConfigInv

LEMMA ConfigStepInv == ConfigInv /\ [ConfigNext]_configVars => ConfigInv'
<1> SUFFICES ASSUME ConfigInv, [ConfigNext]_configVars
             PROVE  ConfigInv'
  OBVIOUS
<1>1. CASE UNCHANGED configVars
  BY <1>1 DEF configVars, ConfigInv, ConfigTypeOK, ConfigCallShape, ConfigCallInv, CallCarries,
     SaveAlone, ConfigWindowInv, ConfigFileInv, HoldsFile, SavesOnTime, Writing, UpToDate
<1> QED
  BY <1>1, StartsLoadKeeps, LoadReadsKeeps, EmptiesKeeps, FillsKeeps, UserSavesKeeps,
     MergeSecretKeeps, ProgramDiesKeeps DEF ConfigNext

LEMMA ConfigInvariant == ConfigSpec => []ConfigInv
BY ConfigInitInv, ConfigStepInv, PTL DEF ConfigSpec

(***************************************************************************)
(* For any number of readers, keys, saves and deaths: what the user saved  *)
(* stays in the file, and a window nobody overtook shows it, unless a save *)
(* met another call on its way, a window saved what it had read before     *)
(* another save, or the program died while it wrote (config.rs:393-426).   *)
(***************************************************************************)
THEOREM SettingsOutlive == ConfigSpec => []SettingsOutliveTheirReaders
<1>1. ConfigInv => SettingsOutliveTheirReaders
  <2> SUFFICES ASSUME ConfigInv, ~mishap
               PROVE  /\ configFile # Broken
                      /\ (\A c \in Clients : configCall[c].at # "write") =>
                            \/ configFile = Holding(savedSettings)
                            \/ configFile = Missing /\ savedSettings = Defaults
                      /\ \A w \in ConfigWindows : ConfigWindowInv(w)
    BY DEF SettingsOutliveTheirReaders, ConfigWindowInv, UpToDate
  <2>1. ConfigFileInv /\ \A w \in ConfigWindows : ConfigWindowInv(w)
    BY DEF ConfigInv
  <2>2. configFile # Broken
    BY <2>1 DEF ConfigFileInv, Broken, Emptied, Holding, Missing, File
  <2> QED
    BY <2>1, <2>2 DEF ConfigFileInv, Writing
<1> QED
  BY <1>1, ConfigInvariant, PTL

----------------------------------------------------------------------------
(* Task lists                                                              *)

\* Only the owner was told that the item is his, unless an update wrote over it.
ItemInv ==
    \A l \in TaskLists, i \in Numbers :
        <<l, i>> \notin clobbered =>
            /\ claimants[l][i] \subseteq {items[l][i].owner}
            /\ items[l][i].owner = NoAgent => claimants[l][i] = {}

ItemsInv == ItemsTypeOK /\ ItemInv

\* What a call carries while it works.
LEMMA WorksShape ==
    ASSUME NEW work \in Works
    PROVE  /\ work.at # "rest" => work.list \in TaskLists /\ work.item \in Numbers
                                  /\ work.waitsFor \in SUBSET Numbers
           /\ work.at = "updating" => work.row \in ItemRows
BY DEF Works, Resting

\* What one row of a list may become.
LEMMA OneItem ==
    ASSUME NEW table, NEW Cells, table \in [TaskLists -> [Numbers -> Cells]],
           NEW l \in TaskLists, NEW i \in Numbers, NEW r \in Cells
    PROVE  /\ [table EXCEPT ![l][i] = r] \in [TaskLists -> [Numbers -> Cells]]
           /\ \A k \in TaskLists, j \in Numbers :
                 [table EXCEPT ![l][i] = r][k][j] = IF k = l /\ j = i THEN r ELSE table[k][j]
OBVIOUS

\* A row with another status or owner is a row.
LEMMA ItemRowChanged ==
    ASSUME NEW r \in ItemRows
    PROVE  /\ \A a \in Agents : /\ [r EXCEPT !.owner = a] \in ItemRows
                                /\ [r EXCEPT !.owner = a].owner = a
           /\ \A s \in ItemStatuses \cup {"absent"} :
                 [r EXCEPT !.status = s] \in ItemRows /\ [r EXCEPT !.status = s].owner = r.owner
           /\ r.status \in ItemStatuses \cup {"absent"}
BY DEF ItemRows

LEMMA ItemsStepInv ==
    ASSUME ItemsInv, [ItemsNext]_itemVars
    PROVE  ItemsInv'
<1> USE TaskListAssumption
<1>0. ItemsTypeOK /\ ItemInv
  BY DEF ItemsInv
<1>1. ASSUME NEW a \in Agents, NEW l \in TaskLists, NEW i \in Numbers, ClaimsItem(a, l, i)
      PROVE  ItemsInv'
  <2> DEFINE row == [items[l][i] EXCEPT !.owner = a]
  <2>1. items[l][i] \in ItemRows /\ row \in ItemRows /\ row.owner = a
    <3>1. items[l][i] \in ItemRows
      BY <1>0 DEF ItemsTypeOK
    <3> QED
      BY <3>1, ItemRowChanged
  <2>2. items[l][i].owner = NoAgent
    BY <1>1 DEF ClaimsItem, Ready, NewItem
  <2>3. items' = [items EXCEPT ![l][i] = row]
    BY <1>1 DEF ClaimsItem
  <2>4. claimants' = [claimants EXCEPT ![l][i] = claimants[l][i] \cup {a}]
    BY <1>1 DEF ClaimsItem
  <2>5. claimants[l][i] \cup {a} \in SUBSET Agents
    BY <1>0 DEF ItemsTypeOK
  <2> HIDE DEF row
  <2>6. /\ items' \in [TaskLists -> [Numbers -> ItemRows]]
        /\ \A k \in TaskLists, j \in Numbers :
              items'[k][j] = IF k = l /\ j = i THEN row ELSE items[k][j]
    BY <1>0, <2>1, <2>3, OneItem DEF ItemsTypeOK
  <2>7. /\ claimants' \in [TaskLists -> [Numbers -> SUBSET Agents]]
        /\ \A k \in TaskLists, j \in Numbers :
              claimants'[k][j] = IF k = l /\ j = i THEN claimants[l][i] \cup {a}
                                 ELSE claimants[k][j]
    BY <1>0, <2>4, <2>5, OneItem DEF ItemsTypeOK
  <2>8. ItemsTypeOK'
    BY <1>0, <1>1, <2>6, <2>7 DEF ClaimsItem, ItemsTypeOK
  <2>9. ItemInv'
    BY <1>0, <1>1, <2>1, <2>2, <2>6, <2>7 DEF ClaimsItem, ItemInv
  <2> QED
    BY <2>8, <2>9 DEF ItemsInv
<1>2. ASSUME NEW a \in Agents, NEW l \in TaskLists, NEW waits \in SUBSET GivenBlockers,
             NumbersItem(a, l, waits)
      PROVE  ItemsInv'
  <2>1. Cardinality(Present(l)) + 1 \in Numbers
    <3>1. IsFiniteSet(Numbers)
      BY FS_Interval DEF Numbers
    <3>2. Cardinality(Present(l)) \in Nat
      BY <3>1, FS_Subset, FS_CardinalityType DEF Present
    <3> QED
      BY <1>2, <3>2 DEF NumbersItem, Numbers
  <2> DEFINE work == [at |-> "numbered", list |-> l, item |-> Cardinality(Present(l)) + 1,
                      waitsFor |-> waits \ {Cardinality(Present(l)) + 1}]
  <2>2. work \in Works
    <3>1. waits \ {Cardinality(Present(l)) + 1} \subseteq Numbers
      BY DEF Numbers
    <3> QED
      BY <2>1, <3>1 DEF Works
  <2>3. working' = [working EXCEPT ![a] = work]
    BY <1>2 DEF NumbersItem, WorkGoes
  <2> HIDE DEF work
  <2> QED
    BY <1>0, <1>2, <2>2, <2>3 DEF NumbersItem, ItemsInv, ItemsTypeOK, ItemInv
<1>3. ASSUME NEW a \in Agents, InsertsItem(a)
      PROVE  ItemsInv'
  <2> DEFINE l == working[a].list
             i == working[a].item
             waits == working[a].waitsFor
  <2>1. /\ l \in TaskLists /\ i \in Numbers /\ waits \in SUBSET Numbers
        /\ working[a].at = "numbered"
    BY <1>0, <1>3, WorksShape DEF InsertsItem, ItemsTypeOK
  <2>2. CASE items[l][i] # AbsentItem
    <3>1. /\ working' = [working EXCEPT ![a] = Resting]
          /\ UNCHANGED <<items, blockers, claimants, asked, clobbered>>
      BY <1>3, <2>2 DEF InsertsItem, WorkGoes
    <3>2. Resting \in Works
      BY DEF Works
    <3>3. ItemInv'
      BY <1>0, <3>1 DEF ItemsInv, ItemInv
    <3> QED
      BY <1>0, <3>1, <3>2, <3>3 DEF ItemsInv, ItemsTypeOK
  <2>3. CASE items[l][i] = AbsentItem
    <3> DEFINE next == IF waits = {} THEN Resting ELSE [working[a] EXCEPT !.at = "linking"]
    <3>1. /\ items' = [items EXCEPT ![l][i] = NewItem]
          /\ asked' = [asked EXCEPT ![l][i] = waits]
          /\ working' = [working EXCEPT ![a] = next]
          /\ UNCHANGED <<blockers, claimants, clobbered>>
      BY <1>3, <2>3 DEF InsertsItem, WorkGoes
    <3>2. next \in Works
      <4>1. working[a] \in Works
        BY <1>0 DEF ItemsTypeOK
      <4> QED
        BY <2>1, <4>1 DEF Works, Resting
    <3>3. NewItem \in ItemRows /\ NewItem.owner = NoAgent /\ AbsentItem.owner = NoAgent
      BY DEF NewItem, AbsentItem, ItemRows, ItemStatuses
    <3> HIDE DEF l, i, waits, next
    <3>4. /\ items' \in [TaskLists -> [Numbers -> ItemRows]]
          /\ \A k \in TaskLists, j \in Numbers :
                items'[k][j] = IF k = l /\ j = i THEN NewItem ELSE items[k][j]
      BY <1>0, <2>1, <3>1, <3>3, OneItem DEF ItemsTypeOK
    <3>5. asked' \in [TaskLists -> [Numbers -> SUBSET Numbers]]
      BY <1>0, <2>1, <3>1, OneItem DEF ItemsTypeOK
    <3>6. ItemsTypeOK'
      BY <1>0, <3>1, <3>2, <3>4, <3>5 DEF ItemsTypeOK
    <3>7. ItemInv'
      BY <1>0, <2>1, <2>3, <3>1, <3>3, <3>4 DEF ItemInv
    <3> QED
      BY <3>6, <3>7 DEF ItemsInv
  <2> QED
    BY <2>2, <2>3
<1>4. ASSUME NEW a \in Agents, LinksItem(a)
      PROVE  ItemsInv'
  <2> DEFINE l == working[a].list
             i == working[a].item
             waits == working[a].waitsFor
  <2>1. /\ l \in TaskLists /\ i \in Numbers /\ waits \in SUBSET Numbers
        /\ working[a].at = "linking" /\ working[a] \in Works
    BY <1>0, <1>4, WorksShape DEF LinksItem, ItemsTypeOK
  <2>2. PICK b \in waits :
           /\ blockers' = [blockers EXCEPT ![l][i] = blockers[l][i] \cup {b}]
           /\ working' = [working EXCEPT ![a] =
                             IF waits = {b} THEN Resting
                             ELSE [working[a] EXCEPT !.waitsFor = waits \ {b}]]
    BY <1>4 DEF LinksItem, WorkGoes
  <2> DEFINE next == IF waits = {b} THEN Resting
                     ELSE [working[a] EXCEPT !.waitsFor = waits \ {b}]
  <2>3. next \in Works
    BY <2>1 DEF Works, Resting
  <2>4. blockers[l][i] \cup {b} \in SUBSET Numbers
    BY <1>0, <2>1 DEF ItemsTypeOK
  <2> HIDE DEF l, i, next
  <2>5. blockers' \in [TaskLists -> [Numbers -> SUBSET Numbers]]
    BY <1>0, <2>1, <2>2, <2>4, OneItem DEF ItemsTypeOK
  <2> QED
    BY <1>0, <1>4, <2>2, <2>3, <2>5 DEF LinksItem, ItemsInv, ItemsTypeOK, ItemInv, next
<1>5. ASSUME NEW a \in Agents, NEW l \in TaskLists, NEW i \in Numbers,
             NEW status \in ItemStatuses, NEW waits \in SUBSET GivenBlockers,
             ReadsItem(a, l, i, status, waits)
      PROVE  ItemsInv'
  <2> DEFINE work == [at |-> "updating", list |-> l, item |-> i, waitsFor |-> waits \ {i},
                      row |-> [items[l][i] EXCEPT !.status = status]]
  <2>1. [items[l][i] EXCEPT !.status = status] \in ItemRows
    <3>1. items[l][i] \in ItemRows
      BY <1>0 DEF ItemsTypeOK
    <3> QED
      BY <3>1, ItemRowChanged
  <2>2. work \in Works
    BY <2>1 DEF Works, Numbers
  <2>3. working' = [working EXCEPT ![a] = work]
    BY <1>5 DEF ReadsItem, WorkGoes
  <2> HIDE DEF work
  <2> QED
    BY <1>0, <1>5, <2>2, <2>3 DEF ReadsItem, ItemsInv, ItemsTypeOK, ItemInv
<1>6. ASSUME NEW a \in Agents, WritesItem(a)
      PROVE  ItemsInv'
  <2> DEFINE l == working[a].list
             i == working[a].item
             waits == working[a].waitsFor
             r == working[a].row
             next == IF waits = {} THEN Resting
                     ELSE [at |-> "linking", list |-> l, item |-> i, waitsFor |-> waits]
  <2>1. /\ l \in TaskLists /\ i \in Numbers /\ waits \in SUBSET Numbers /\ r \in ItemRows
    BY <1>0, <1>6, WorksShape DEF WritesItem, ItemsTypeOK
  <2>2. /\ items' = [items EXCEPT ![l][i] = r]
        /\ clobbered' = IF items[l][i].owner = r.owner THEN clobbered
                        ELSE clobbered \cup {<<l, i>>}
        /\ working' = [working EXCEPT ![a] = next]
        /\ UNCHANGED <<blockers, claimants, asked>>
    BY <1>6 DEF WritesItem, WorkGoes
  <2>3. next \in Works
    BY <2>1 DEF Works
  <2> HIDE DEF l, i, waits, r, next
  <2>4. /\ items' \in [TaskLists -> [Numbers -> ItemRows]]
        /\ \A k \in TaskLists, j \in Numbers :
              items'[k][j] = IF k = l /\ j = i THEN r ELSE items[k][j]
    BY <1>0, <2>1, <2>2, OneItem DEF ItemsTypeOK
  <2>5. ItemsTypeOK'
    BY <1>0, <2>1, <2>2, <2>3, <2>4 DEF ItemsTypeOK
  <2>6. ItemInv'
    BY <1>0, <2>1, <2>2, <2>4 DEF ItemInv
  <2> QED
    BY <2>5, <2>6 DEF ItemsInv
<1>7. ASSUME NEW a \in Agents, AgentDies(a)
      PROVE  ItemsInv'
  BY <1>0, <1>7 DEF AgentDies, WorkGoes, Works, ItemsInv, ItemsTypeOK, ItemInv
<1>8. ASSUME NEW i \in Numbers, WritesBack(i)
      PROVE  ItemsInv'
  <2> DEFINE new(l, s) == [items[l][i] EXCEPT !.status = IF @ = "absent" THEN @ ELSE s]
  <2>1. PICK status \in {"pending", "completed"} :
           items' = [l \in TaskLists |-> [items[l] EXCEPT ![i] = new(l, status)]]
    BY <1>8 DEF WritesBack
  <2>2. ASSUME NEW l \in TaskLists
        PROVE  /\ items[l] \in [Numbers -> ItemRows]
               /\ new(l, status) \in ItemRows /\ new(l, status).owner = items[l][i].owner
    <3>1. items[l] \in [Numbers -> ItemRows] /\ items[l][i] \in ItemRows
      BY <1>0 DEF ItemsTypeOK
    <3>2. (IF items[l][i].status = "absent" THEN items[l][i].status ELSE status)
              \in ItemStatuses \cup {"absent"}
      BY <3>1, ItemRowChanged DEF ItemStatuses
    <3> QED
      BY <3>1, <3>2, ItemRowChanged
  <2> HIDE DEF new
  <2>3. items' \in [TaskLists -> [Numbers -> ItemRows]]
    BY <2>1, <2>2
  <2>4. \A l \in TaskLists, j \in Numbers : items'[l][j].owner = items[l][j].owner
    BY <2>1, <2>2
  <2>5. UNCHANGED <<blockers, working, claimants, clobbered, asked>>
    BY <1>8 DEF WritesBack
  <2> QED
    BY <1>0, <2>3, <2>4, <2>5 DEF ItemsInv, ItemsTypeOK, ItemInv
<1>9. CASE UNCHANGED itemVars
  BY <1>0, <1>9 DEF itemVars, ItemsInv, ItemsTypeOK, ItemInv
<1> QED
  BY <1>1, <1>2, <1>3, <1>4, <1>5, <1>6, <1>7, <1>8, <1>9 DEF ItemsNext

LEMMA ItemsInitInv == ItemsInit => ItemsInv
BY DEF ItemsInit, ItemsInv, ItemsTypeOK, ItemInv, AbsentItem, ItemRows, ItemStatuses, Works

LEMMA ItemsInvariant == ItemsSpec => []ItemsInv
BY ItemsInitInv, ItemsStepInv, PTL DEF ItemsSpec

\* A claim looks at the blockers that are there.
LEMMA ClaimsLook ==
    ASSUME ItemsTypeOK, ItemsNext, NEW l \in TaskLists, NEW i \in Numbers,
           claimants'[l][i] # claimants[l][i]
    PROVE  \/ ~(asked[l][i] \subseteq blockers[l][i])
           \/ \A b \in asked[l][i] : items[l][b].status = "completed"
<1>1. PICK a \in Agents, k \in TaskLists, j \in Numbers : ClaimsItem(a, k, j)
  <2>1. ASSUME NEW a \in Agents, NEW k \in TaskLists,
               \/ \E j \in Numbers, s \in ItemStatuses, w \in SUBSET GivenBlockers :
                     ReadsItem(a, k, j, s, w)
               \/ \E w \in SUBSET GivenBlockers : NumbersItem(a, k, w)
        PROVE  claimants' = claimants
    BY <2>1 DEF ReadsItem, NumbersItem
  <2>2. ASSUME NEW a \in Agents, InsertsItem(a) \/ LinksItem(a) \/ WritesItem(a) \/ AgentDies(a)
        PROVE  claimants' = claimants
    BY <2>2 DEF InsertsItem, LinksItem, WritesItem, AgentDies
  <2>3. ASSUME NEW j \in Numbers, WritesBack(j)
        PROVE  claimants' = claimants
    BY <2>3 DEF WritesBack
  <2> QED
    BY <2>1, <2>2, <2>3 DEF ItemsNext
<1>2. k = l /\ j = i
  BY <1>1 DEF ClaimsItem, ItemsTypeOK
<1> QED
  BY <1>1, <1>2 DEF ClaimsItem, Ready

(***************************************************************************)
(* For any number of agents, lists and items: two agents are told that one *)
(* item is theirs only after an update that wrote an old owner back, and a *)
(* claim finds what the creator of the item made it wait for completed,    *)
(* once that is in the table (tasklist.rs:358-418, 306-340).               *)
(***************************************************************************)
THEOREM ItemsAreAlwaysClaimedInTurn == ItemsSpec => ItemsAreClaimedInTurn
<1>1. ASSUME ItemsInv, NEW l \in TaskLists, NEW i \in Numbers, Cardinality(claimants[l][i]) > 1
      PROVE  <<l, i>> \in clobbered
  <2>1. SUFFICES ASSUME <<l, i>> \notin clobbered
                 PROVE  FALSE
    OBVIOUS
  <2>2. claimants[l][i] \subseteq {items[l][i].owner}
    BY <1>1, <2>1 DEF ItemsInv, ItemInv
  <2>3. claimants[l][i] = {} \/ claimants[l][i] = {items[l][i].owner}
    BY <2>2
  <2>4. Cardinality(claimants[l][i]) \in {0, 1}
    BY <2>3, FS_EmptySet, FS_Singleton
  <2> QED
    BY <1>1, <2>4
<1> DEFINE Told == \A l \in TaskLists, i \in Numbers :
                      Cardinality(claimants[l][i]) > 1 => <<l, i>> \in clobbered
           InTurn == \A l \in TaskLists, i \in Numbers :
                        claimants'[l][i] # claimants[l][i] =>
                            \/ ~(asked[l][i] \subseteq blockers[l][i])
                            \/ \A b \in asked[l][i] : items[l][b].status = "completed"
<1>2. ItemsInv => Told
  BY <1>1
<1>3. ItemsInv /\ [ItemsNext]_itemVars => [InTurn]_itemVars
  BY ClaimsLook DEF ItemsInv, itemVars
<1>4. ItemsSpec => []Told
  BY <1>2, ItemsInvariant, PTL
<1>5. ItemsSpec => [][InTurn]_itemVars
  BY <1>3, ItemsInvariant, PTL DEF ItemsSpec
<1> HIDE DEF Told, InTurn
<1>6. ItemsAreClaimedInTurn <=> []Told /\ [][InTurn]_itemVars
  BY DEF ItemsAreClaimedInTurn, Told, InTurn
<1> QED
  BY <1>4, <1>5, <1>6, PTL

----------------------------------------------------------------------------
(* The queue of results to review                                          *)

ProcessShape(w) ==
    LET me == writer[w] IN
    /\ me.at \in {"looked", "numbered"} => me.kind \in HookKinds \cup ReviewVerdicts \cup {"import"}
    /\ me.at = "looked" /\ me.kind \notin HookKinds => me.id # 0
    /\ me.at = "numbered" => me.kind \in HookKinds /\ me.id # 0
    /\ me.at = "wrote" => me.id # 0
    /\ me.at \in {"added", "renamed"} => me.kind = "import" /\ me.id = 0
    /\ me.kind \in ReviewVerdicts \cup {"import"} => me.who = Anonymous

\* The render of everyone but an import that has added its task is locked.
RenderIsLocked(w) ==
    queueLock = w <=> writer[w].at \in Rendering /\ ~ImportRenders(w)

ViewInv(w) ==
    writer[w].at \in {"read", "truncated"} /\ (queueLock = w \/ ~spoiled) =>
        writer[w].view = reviews

QueueFileInv ==
    queueFile = reviews \/ spoiled \/ \E w \in QueueWriters : writer[w].at \in Rendering

\* A verdict that nobody could overtake: no hook has the task in hand.
VerdictInv ==
    \A i \in judged :
        /\ reviews[i].status # "none"
        /\ i \notin raced =>
              /\ reviews[i].status \notin Open
              /\ i = 1 => ~legacyFile
              /\ \A w \in QueueWriters :
                    writer[w].at \in {"looked", "numbered"} /\ writer[w].id = i =>
                        writer[w].kind \in ReviewVerdicts

\* The session of the task as a hook that has looked will write it.
WillBeOf(w) ==
    IF writer[w].who.session # NoName THEN writer[w].who.session
    ELSE IF writer[w].at = "looked" /\ writer[w].id # 0 THEN reviews[writer[w].id].who.session
    ELSE NoName

Contended(session) == session \in contended \cup {NoName}

InHandApart(w, x) == writer[w].id # writer[x].id \/ writer[w].id = 0

SessionsInv ==
    /\ \A i, j \in Reviews :
          i # j /\ {reviews[i].status, reviews[j].status} \subseteq Open
            /\ reviews[i].who.session = reviews[j].who.session
          => Contended(reviews[i].who.session)
    /\ \A w \in LookingHooks : \A j \in Reviews :
          j # writer[w].id /\ reviews[j].status \in Open
            /\ reviews[j].who.session = WillBeOf(w)
          => Contended(WillBeOf(w))
    /\ \A w, x \in LookingHooks :
          w # x /\ InHandApart(w, x) /\ WillBeOf(w) = WillBeOf(x) => Contended(WillBeOf(w))

ReviewInv ==
    /\ ReviewTypeOK
    /\ \A w \in QueueWriters : ProcessShape(w) /\ RenderIsLocked(w) /\ ViewInv(w)
    /\ QueueFileInv /\ VerdictInv /\ SessionsInv

Processes ==
    [at : {"idle", "looked", "numbered", "wrote", "read", "truncated", "added", "renamed"},
     kind : HookKinds \cup ReviewVerdicts \cup {"none", "import"},
     who : [session : Names("session"), terminal : Names("terminal")],
     id : Reviews \cup {0}, view : [Reviews -> ReviewRows]]

LEMMA WhoIs ==
    /\ Anonymous \in [session : Names("session"), terminal : Names("terminal")]
    /\ Anonymous.session = NoName /\ Anonymous.terminal = NoName
    /\ \A who \in Identities : who \in [session : Names("session"), terminal : Names("terminal")]
<1>1. ASSUME NEW who \in Identities
      PROVE  who \in [session : Names("session"), terminal : Names("terminal")]
  <2>1. who.session \in Names("session") /\ who.terminal \in Names("terminal")
    BY DEF Names
  <2>2. who = [session |-> who.session, terminal |-> who.terminal]
    BY ReviewAssumption
  <2> QED
    BY <2>1, <2>2
<1> QED
  BY <1>1 DEF Anonymous, Names

LEMMA ProcessIs ==
    ASSUME NEW at \in {"idle", "looked", "numbered", "wrote", "read", "truncated",
                      "added", "renamed"},
           NEW kind \in HookKinds \cup ReviewVerdicts \cup {"none", "import"},
           NEW who \in [session : Names("session"), terminal : Names("terminal")],
           NEW id \in Reviews \cup {0}
    PROVE  /\ Process(at, kind, who, id) \in Processes
           /\ Process(at, kind, who, id).at = at /\ Process(at, kind, who, id).kind = kind
           /\ Process(at, kind, who, id).who = who /\ Process(at, kind, who, id).id = id
<1>1. NoReview \in ReviewRows
  BY WhoIs DEF NoReview, ReviewRows
<1> QED
  BY <1>1 DEF Process, Processes

LEMMA NotStartedIs ==
    /\ NotStarted \in Processes /\ NotStarted.at = "idle" /\ NotStarted.kind = "none"
    /\ NotStarted.id = 0 /\ NotStarted.who = Anonymous
BY ProcessIs, WhoIs DEF NotStarted

\* What each operation makes of the process that takes it.
LEMMA StartsIs ==
    ASSUME ReviewInv, NEW w \in QueueWriters, Starts(w)
    PROVE  \E p \in Processes :
              /\ writer' = [writer EXCEPT ![w] = p]
              /\ writer[w] = NotStarted
              /\ UNCHANGED <<reviews, queueLock, queueFile, judged, raced, spoiled, legacyFile>>
              /\ \/ /\ p.at = "looked" /\ p.kind \in HookKinds
                    /\ p.id \in Matches(p.who) \/ (p.id = 0 /\ Matches(p.who) = {})
                    /\ contended' = contended \cup UNION {WorksFor(writer[x].who, writer[x].id)
                                            \cap WorksFor(p.who, p.id) : x \in LookingHooks}
                 \/ /\ p.at = "looked" /\ p.kind \in ReviewVerdicts /\ p.who = Anonymous
                    /\ p.id \in Reviews /\ UNCHANGED contended
                 \/ /\ p.at = "looked" /\ p.kind = "import" /\ p.who = Anonymous
                    /\ p.id = 1 /\ legacyFile /\ UNCHANGED contended
                 \/ /\ p.at = "renamed" /\ p.kind = "import" /\ p.who = Anonymous
                    /\ p.id = 0 /\ UNCHANGED contended
<1>1. /\ writer[w] = NotStarted
      /\ UNCHANGED <<reviews, queueLock, queueFile, judged, raced, spoiled>>
  BY DEF Starts
<1>2. ASSUME NEW kind \in HookKinds, NEW who \in Identities, HookLooks(w, kind, who)
      PROVE  \E p \in Processes :
              /\ writer' = [writer EXCEPT ![w] = p] /\ UNCHANGED legacyFile
              /\ p.at = "looked" /\ p.kind \in HookKinds
              /\ p.id \in Matches(p.who) \/ (p.id = 0 /\ Matches(p.who) = {})
              /\ contended' = contended \cup UNION {WorksFor(writer[x].who, writer[x].id)
                                        \cap WorksFor(p.who, p.id) : x \in LookingHooks}
  <2>1. PICK i \in Matches(who) \cup {0} :
          /\ i = 0 => Matches(who) = {} /\ (kind = "tool" => who # Anonymous)
          /\ writer' = [writer EXCEPT ![w] = Process("looked", kind, who, i)]
          /\ contended' = contended \cup UNION {WorksFor(writer[x].who, writer[x].id)
                                                   \cap WorksFor(who, i) : x \in LookingHooks}
    BY <1>2 DEF HookLooks
  <2>2. Matches(who) \subseteq Reviews
    BY DEF Matches, Fitting
  <2> DEFINE p == Process("looked", kind, who, i)
  <2>3. p \in Processes /\ p.at = "looked" /\ p.kind = kind /\ p.who = who /\ p.id = i
    BY <2>1, <2>2, WhoIs, ProcessIs
  <2>4. UNCHANGED legacyFile
    BY <1>2 DEF HookLooks
  <2>5. /\ writer' = [writer EXCEPT ![w] = p]
        /\ contended' = contended \cup UNION {WorksFor(writer[x].who, writer[x].id)
                                                 \cap WorksFor(p.who, p.id) : x \in LookingHooks}
    BY <2>1, <2>3
  <2> HIDE DEF p
  <2> QED
    BY <2>1, <2>3, <2>4, <2>5
<1>3. ASSUME NEW i \in Reviews, NEW verdict \in ReviewVerdicts, UserDecides(w, i, verdict)
      PROVE  \E p \in Processes :
              /\ writer' = [writer EXCEPT ![w] = p] /\ UNCHANGED <<legacyFile, contended>>
              /\ p.at = "looked" /\ p.kind \in ReviewVerdicts /\ p.who = Anonymous
              /\ p.id \in Reviews
  <2> DEFINE p == Process("looked", verdict, Anonymous, i)
  <2>1. p \in Processes /\ p.at = "looked" /\ p.kind = verdict /\ p.who = Anonymous /\ p.id = i
    BY WhoIs, ProcessIs
  <2>2. writer' = [writer EXCEPT ![w] = p] /\ UNCHANGED <<legacyFile, contended>>
    BY <1>3 DEF UserDecides
  <2> HIDE DEF p
  <2> QED
    BY <2>1, <2>2
<1>4. ASSUME ImportStarts(w)
      PROVE  \E p \in Processes :
              /\ writer' = [writer EXCEPT ![w] = p] /\ UNCHANGED <<legacyFile, contended>>
              /\ p.kind = "import" /\ p.who = Anonymous
              /\ \/ p.at = "looked" /\ p.id = 1 /\ legacyFile
                 \/ p.at = "renamed" /\ p.id = 0
  <2>1. 1 \in Reviews
    BY ReviewAssumption DEF Reviews
  <2>2. CASE legacyFile
    <3> DEFINE p == Process("looked", "import", Anonymous, 1)
    <3>1. p \in Processes /\ p.at = "looked" /\ p.kind = "import" /\ p.who = Anonymous /\ p.id = 1
      BY <2>1, WhoIs, ProcessIs
    <3>2. writer' = [writer EXCEPT ![w] = p] /\ UNCHANGED <<legacyFile, contended>>
      BY <1>4, <2>2 DEF ImportStarts
    <3> HIDE DEF p
    <3> QED
      BY <2>2, <3>1, <3>2
  <2>3. CASE ~legacyFile
    <3> DEFINE p == Process("renamed", "import", Anonymous, 0)
    <3>1. p \in Processes /\ p.at = "renamed" /\ p.kind = "import" /\ p.who = Anonymous /\ p.id = 0
      BY <2>1, WhoIs, ProcessIs
    <3>2. writer' = [writer EXCEPT ![w] = p] /\ UNCHANGED <<legacyFile, contended>>
      BY <1>4, <2>3 DEF ImportStarts
    <3> HIDE DEF p
    <3> QED
      BY <2>3, <3>1, <3>2
  <2> QED
    BY <2>2, <2>3
<1>5. \/ \E kind \in HookKinds, who \in Identities : HookLooks(w, kind, who)
      \/ \E i \in Reviews, verdict \in ReviewVerdicts : UserDecides(w, i, verdict)
      \/ ImportStarts(w)
  BY DEF Starts
<1>6. CASE \E kind \in HookKinds, who \in Identities : HookLooks(w, kind, who)
  BY <1>1, <1>2, <1>6
<1>7. CASE \E i \in Reviews, verdict \in ReviewVerdicts : UserDecides(w, i, verdict)
  BY <1>1, <1>3, <1>7
<1>8. CASE ImportStarts(w)
  BY <1>1, <1>4, <1>8
<1> QED
  BY <1>5, <1>6, <1>7, <1>8

\* The process that a step of call w leaves behind, and the others.
LEMMA OneWriter ==
    ASSUME ReviewTypeOK, NEW w \in QueueWriters, NEW p \in Processes,
           writer' = [writer EXCEPT ![w] = p]
    PROVE  /\ writer' \in [QueueWriters -> Processes] /\ writer'[w] = p
           /\ \A x \in QueueWriters \ {w} : writer'[x] = writer[x]
BY DEF ReviewTypeOK, Processes

\* Steps that touch no task leave the verdicts and the sessions alone.
LEMMA NoTaskTouched ==
    ASSUME ReviewInv,
           UNCHANGED <<reviews, judged, raced, contended>>, legacyFile' => legacyFile,
           \A x \in QueueWriters :
              writer'[x].at \in {"looked", "numbered"} => writer'[x] = writer[x]
    PROVE  VerdictInv' /\ SessionsInv'
<1>1. VerdictInv'
  BY DEF ReviewInv, VerdictInv
<1>2. LookingHooks' \subseteq LookingHooks /\ \A x \in LookingHooks' : writer'[x] = writer[x]
  BY DEF LookingHooks
<1>3. \A x \in LookingHooks' : WillBeOf(x)' = WillBeOf(x)
  BY <1>2 DEF WillBeOf
<1>4. \A s : Contended(s)' <=> Contended(s)
  BY DEF Contended
<1>5. \A x, y \in LookingHooks' : InHandApart(x, y)' => InHandApart(x, y)
  BY <1>2 DEF InHandApart
<1> QED
  BY <1>1, <1>2, <1>3, <1>4, <1>5 DEF ReviewInv, SessionsInv

LEMMA RenderReadsKeeps ==
    ASSUME ReviewInv, NEW w \in QueueWriters, RenderReads(w),
           UNCHANGED <<reviews, legacyFile, started, contended, judged, raced>>
    PROVE  ReviewInv'
<1> DEFINE p == [writer[w] EXCEPT !.at = "read", !.view = reviews]
<1>1. /\ writer' = [writer EXCEPT ![w] = p] /\ UNCHANGED <<queueLock, queueFile, spoiled>>
      /\ writer[w].at \in {"wrote", "renamed"}
  BY DEF RenderReads
<1>2. /\ p \in Processes /\ p.at = "read" /\ p.view = reviews /\ p.kind = writer[w].kind
      /\ p.id = writer[w].id /\ p.who = writer[w].who
  BY DEF ReviewInv, ReviewTypeOK, Processes
<1> HIDE DEF p
<1>3. /\ writer' \in [QueueWriters -> Processes] /\ writer'[w] = p
      /\ \A x \in QueueWriters \ {w} : writer'[x] = writer[x]
  BY <1>1, <1>2, OneWriter DEF ReviewInv
<1>4. ReviewTypeOK'
  BY <1>1, <1>3 DEF ReviewInv, ReviewTypeOK, Processes
<1>5. VerdictInv' /\ SessionsInv'
  BY <1>2, <1>3, NoTaskTouched
<1>6. \A x \in QueueWriters : ProcessShape(x)'
  BY <1>2, <1>3 DEF ReviewInv, ProcessShape
<1>7. \A x \in QueueWriters : RenderIsLocked(x)'
  <2>1. RenderIsLocked(w)'
    BY <1>1, <1>2, <1>3 DEF ReviewInv, RenderIsLocked, ImportRenders, Rendering, ProcessShape
  <2> QED
    BY <1>1, <1>3, <2>1 DEF ReviewInv, RenderIsLocked, ImportRenders
<1>8. \A x \in QueueWriters : ViewInv(x)'
  BY <1>1, <1>2, <1>3 DEF ReviewInv, ViewInv
<1>9. QueueFileInv'
  BY <1>2, <1>3 DEF QueueFileInv, Rendering
<1> QED
  BY <1>4, <1>5, <1>6, <1>7, <1>8, <1>9 DEF ReviewInv

LEMMA TruncatesKeeps ==
    ASSUME ReviewInv, NEW w \in QueueWriters, Truncates(w),
           UNCHANGED <<reviews, legacyFile, started, contended, judged, raced>>
    PROVE  ReviewInv'
<1> DEFINE p == [writer[w] EXCEPT !.at = "truncated"]
<1>1. /\ writer' = [writer EXCEPT ![w] = p] /\ UNCHANGED queueLock /\ queueFile' = Torn
      /\ writer[w].at = "read"
      /\ spoiled' = (spoiled \/ \E x \in QueueWriters : HooksClash(w, x))
  BY DEF Truncates
<1>2. /\ p \in Processes /\ p.at = "truncated" /\ p.view = writer[w].view
      /\ p.kind = writer[w].kind /\ p.id = writer[w].id /\ p.who = writer[w].who
  BY DEF ReviewInv, ReviewTypeOK, Processes
<1> HIDE DEF p
<1>3. /\ writer' \in [QueueWriters -> Processes] /\ writer'[w] = p
      /\ \A x \in QueueWriters \ {w} : writer'[x] = writer[x]
  BY <1>1, <1>2, OneWriter DEF ReviewInv
<1>4. ReviewTypeOK'
  <2>1. queueFile' \in [Reviews -> ReviewRows]
    BY <1>1, WhoIs DEF Torn, ReviewRows
  <2>2. spoiled' \in BOOLEAN
    BY <1>1
  <2> QED
    BY <1>1, <1>3, <2>1, <2>2 DEF ReviewInv, ReviewTypeOK, Processes
<1>5. VerdictInv' /\ SessionsInv'
  BY <1>2, <1>3, NoTaskTouched
<1>6. \A x \in QueueWriters : ProcessShape(x)'
  BY <1>2, <1>3 DEF ReviewInv, ProcessShape
<1>7. \A x \in QueueWriters : RenderIsLocked(x)'
  <2>1. RenderIsLocked(w)'
    BY <1>1, <1>2, <1>3 DEF ReviewInv, RenderIsLocked, ImportRenders, Rendering
  <2> QED
    BY <1>1, <1>3, <2>1 DEF ReviewInv, RenderIsLocked, ImportRenders
<1>10. ~spoiled' => ~spoiled
  BY <1>1
<1>8. \A x \in QueueWriters : ViewInv(x)'
  BY <1>1, <1>2, <1>3, <1>10 DEF ReviewInv, ViewInv
<1>9. QueueFileInv'
  BY <1>2, <1>3 DEF QueueFileInv, Rendering
<1> QED
  BY <1>4, <1>5, <1>6, <1>7, <1>8, <1>9 DEF ReviewInv

LEMMA RenderEndsKeeps ==
    ASSUME ReviewInv, NEW w \in QueueWriters, RenderEnds(w),
           UNCHANGED <<reviews, legacyFile, started, contended, judged, raced>>
    PROVE  ReviewInv'
<1> DEFINE p == IF writer[w].kind = "import" /\ writer[w].id # 0
                THEN Process("added", "import", Anonymous, 0) ELSE NotStarted
<1>1. /\ writer' = [writer EXCEPT ![w] = p] /\ writer[w].at = "truncated"
      /\ queueLock' = IF queueLock = w THEN NoWriter ELSE queueLock
      /\ queueFile' \in {writer[w].view, Torn}
      /\ (\A x \in QueueWriters \ {w} : writer[x].at # "truncated") => queueFile' = writer[w].view
      /\ spoiled' <=> ((\E x \in QueueWriters : HooksClash(w, x)) \/ (spoiled /\ queueLock # w))
      /\ spoiled' \in BOOLEAN
  BY DEF RenderEnds
<1>2. /\ p \in Processes /\ p.at \in {"idle", "added"} /\ p.kind \in {"none", "import"}
      /\ p.id = 0 /\ p.who = Anonymous /\ (p.at = "added" => p.kind = "import")
  BY WhoIs, ProcessIs, NotStartedIs
<1> HIDE DEF p
<1>3. /\ writer' \in [QueueWriters -> Processes] /\ writer'[w] = p
      /\ \A x \in QueueWriters \ {w} : writer'[x] = writer[x]
  BY <1>1, <1>2, OneWriter DEF ReviewInv
<1>4. ReviewTypeOK'
  <2>1. queueFile' \in [Reviews -> ReviewRows]
    <3>1. Torn \in [Reviews -> ReviewRows]
      BY WhoIs DEF Torn, ReviewRows
    <3>2. writer[w].view \in [Reviews -> ReviewRows]
      BY DEF ReviewInv, ReviewTypeOK
    <3> QED
      BY <1>1, <3>1, <3>2
  <2> QED
    BY <1>1, <1>3, <2>1 DEF ReviewInv, ReviewTypeOK, Processes
<1>5. VerdictInv' /\ SessionsInv'
  BY <1>2, <1>3, NoTaskTouched
<1>6. \A x \in QueueWriters : ProcessShape(x)'
  BY <1>2, <1>3 DEF ReviewInv, ProcessShape
<1>7. \A x \in QueueWriters : RenderIsLocked(x)'
  <2>1. RenderIsLocked(w)'
    BY <1>1, <1>2, <1>3, ReviewAssumption DEF RenderIsLocked, Rendering
  <2>2. \A x \in QueueWriters \ {w} : queueLock' = x <=> queueLock = x
    BY <1>1, ReviewAssumption
  <2> QED
    BY <1>1, <1>3, <2>1, <2>2 DEF ReviewInv, RenderIsLocked, ImportRenders
\* Whoever renders beside w has no lock, or w has none; then the file is spoiled.
<1>8. ASSUME ~spoiled'
      PROVE  /\ \A x \in QueueWriters \ {w} : writer[x].at \notin Rendering
             /\ writer[w].view = reviews
  <2>1. (~\E x \in QueueWriters : HooksClash(w, x)) /\ (~spoiled \/ queueLock = w)
    BY <1>1, <1>8
  <2>2. ASSUME NEW x \in QueueWriters \ {w}, writer[x].at \in Rendering
        PROVE  FALSE
    <3>1. ~ImportRenders(w) /\ ~ImportRenders(x)
      BY <2>1, <2>2 DEF HooksClash
    <3> QED
      BY <1>1, <2>2, <3>1 DEF ReviewInv, RenderIsLocked, Rendering
  <2>3. writer[w].view = reviews
    BY <1>1, <2>1 DEF ReviewInv, ViewInv
  <2> QED
    BY <2>2, <2>3
<1>9. ASSUME NEW x \in QueueWriters
      PROVE  ViewInv(x)'
  <2>1. CASE x = w
    BY <1>2, <1>3, <2>1 DEF ViewInv
  <2>2. CASE x # w
    <3>1. queueLock' = x <=> queueLock = x
      BY <1>1, <2>2, ReviewAssumption
    <3>2. ~spoiled' => writer[x].at \notin Rendering
      BY <1>8, <2>2
    <3> QED
      BY <1>3, <2>2, <3>1, <3>2 DEF ReviewInv, ViewInv, Rendering
  <2> QED
    BY <2>1, <2>2
<1>10. QueueFileInv'
  <2>1. CASE spoiled'
    BY <2>1 DEF QueueFileInv
  <2>2. CASE ~spoiled'
    BY <1>1, <1>8, <2>2 DEF QueueFileInv, Rendering
  <2> QED
    BY <2>1, <2>2
<1> QED
  BY <1>4, <1>5, <1>6, <1>7, <1>9, <1>10 DEF ReviewInv

LEMMA ImportRenamesKeeps ==
    ASSUME ReviewInv, NEW w \in QueueWriters, ImportRenames(w)
    PROVE  ReviewInv'
<1> DEFINE p == IF legacyFile THEN Process("renamed", "import", Anonymous, 0) ELSE NotStarted
<1>1. /\ writer' = [writer EXCEPT ![w] = p] /\ writer[w].at = "added" /\ legacyFile' = FALSE
      /\ UNCHANGED <<reviews, queueLock, queueFile, started, contended, judged, raced, spoiled>>
  BY DEF ImportRenames
<1>2. /\ p \in Processes /\ p.at \in {"idle", "renamed"} /\ p.kind \in {"none", "import"}
      /\ p.id = 0 /\ p.who = Anonymous /\ (p.at = "renamed" => p.kind = "import")
  BY WhoIs, ProcessIs, NotStartedIs
<1> HIDE DEF p
<1>3. /\ writer' \in [QueueWriters -> Processes] /\ writer'[w] = p
      /\ \A x \in QueueWriters \ {w} : writer'[x] = writer[x]
  BY <1>1, <1>2, OneWriter DEF ReviewInv
<1>4. ReviewTypeOK'
  BY <1>1, <1>3 DEF ReviewInv, ReviewTypeOK, Processes
<1>5. VerdictInv' /\ SessionsInv'
  BY <1>1, <1>2, <1>3, NoTaskTouched
<1>6. \A x \in QueueWriters : ProcessShape(x)'
  BY <1>2, <1>3 DEF ReviewInv, ProcessShape
<1>7. \A x \in QueueWriters : RenderIsLocked(x)'
  BY <1>1, <1>2, <1>3 DEF ReviewInv, RenderIsLocked, ImportRenders, Rendering
<1>8. \A x \in QueueWriters : ViewInv(x)'
  BY <1>1, <1>2, <1>3 DEF ReviewInv, ViewInv
<1>9. QueueFileInv'
  BY <1>1, <1>2, <1>3 DEF ReviewInv, QueueFileInv, Rendering
<1> QED
  BY <1>4, <1>5, <1>6, <1>7, <1>8, <1>9 DEF ReviewInv

LEMMA WriterDiesKeeps ==
    ASSUME ReviewInv, NEW w \in QueueWriters, WriterDies(w)
    PROVE  ReviewInv'
<1>1. /\ writer' = [writer EXCEPT ![w] = NotStarted]
      /\ queueLock' = IF queueLock = w THEN NoWriter ELSE queueLock
      /\ spoiled' <=> (spoiled \/ writer[w].at \in Rendering)
      /\ spoiled' \in BOOLEAN
      /\ UNCHANGED <<reviews, queueFile, legacyFile, started, contended, judged, raced>>
  BY DEF WriterDies
<1>3. /\ writer' \in [QueueWriters -> Processes] /\ writer'[w] = NotStarted
      /\ \A x \in QueueWriters \ {w} : writer'[x] = writer[x]
  BY <1>1, NotStartedIs, OneWriter DEF ReviewInv
<1>4. ReviewTypeOK'
  BY <1>1, <1>3 DEF ReviewInv, ReviewTypeOK, Processes
<1>5. VerdictInv' /\ SessionsInv'
  BY <1>1, <1>3, NotStartedIs, NoTaskTouched
<1>6. \A x \in QueueWriters : ProcessShape(x)'
  BY <1>3, NotStartedIs, WhoIs DEF ReviewInv, ProcessShape
<1>7. \A x \in QueueWriters : RenderIsLocked(x)'
  <2>1. RenderIsLocked(w)'
    BY <1>1, <1>3, NotStartedIs, ReviewAssumption DEF RenderIsLocked, Rendering
  <2>2. \A x \in QueueWriters \ {w} : queueLock' = x <=> queueLock = x
    BY <1>1, ReviewAssumption
  <2> QED
    BY <1>1, <1>3, <2>1, <2>2 DEF ReviewInv, RenderIsLocked, ImportRenders
<1>8. ASSUME NEW x \in QueueWriters
      PROVE  ViewInv(x)'
  <2>1. CASE x = w
    BY <1>3, <2>1, NotStartedIs DEF ViewInv
  <2>2. CASE x # w
    BY <1>1, <1>3, <2>2, ReviewAssumption DEF ReviewInv, ViewInv
  <2> QED
    BY <2>1, <2>2
<1>9. QueueFileInv'
  BY <1>1, <1>3 DEF ReviewInv, QueueFileInv
<1> QED
  BY <1>4, <1>5, <1>6, <1>7, <1>8, <1>9 DEF ReviewInv
\* Whom a hook will write its task for is one of those it works for.
LEMMA WillIsWorkedFor ==
    ASSUME NEW x
    PROVE  WillBeOf(x) \in WorksFor(writer[x].who, writer[x].id) \cup {NoName}
BY DEF WillBeOf, WorksFor

LEMMA StartsKeeps ==
    ASSUME ReviewInv, NEW w \in QueueWriters, Starts(w)
    PROVE  ReviewInv'
<1> DEFINE Ours == WorksFor(writer'[w].who, writer'[w].id)
<1> DEFINE Met == UNION {WorksFor(writer[x].who, writer[x].id) \cap Ours : x \in LookingHooks}
<1>1. PICK p \in Processes :
              /\ writer' = [writer EXCEPT ![w] = p]
              /\ writer[w] = NotStarted
              /\ UNCHANGED <<reviews, queueLock, queueFile, judged, raced, spoiled, legacyFile>>
              /\ \/ /\ p.at = "looked" /\ p.kind \in HookKinds
                    /\ p.id \in Matches(p.who) \/ (p.id = 0 /\ Matches(p.who) = {})
                    /\ contended' = contended \cup UNION {WorksFor(writer[x].who, writer[x].id)
                                            \cap WorksFor(p.who, p.id) : x \in LookingHooks}
                 \/ /\ p.at = "looked" /\ p.kind \in ReviewVerdicts /\ p.who = Anonymous
                    /\ p.id \in Reviews /\ UNCHANGED contended
                 \/ /\ p.at = "looked" /\ p.kind = "import" /\ p.who = Anonymous
                    /\ p.id = 1 /\ legacyFile /\ UNCHANGED contended
                 \/ /\ p.at = "renamed" /\ p.kind = "import" /\ p.who = Anonymous
                    /\ p.id = 0 /\ UNCHANGED contended
  BY StartsIs
<1>2. /\ writer' \in [QueueWriters -> Processes] /\ writer'[w] = p
      /\ \A x \in QueueWriters \ {w} : writer'[x] = writer[x]
  BY <1>1, OneWriter DEF ReviewInv
<1>3. p.at \in {"looked", "renamed"} /\ p.id \in Reviews \cup {0}
  BY <1>1 DEF Processes
<1>4. started' \in 0 .. MaxWriters
  BY ReviewAssumption DEF ReviewInv, ReviewTypeOK, Starts
<1>5. /\ p.kind \in HookKinds => contended' = contended \cup Met
      /\ p.kind \notin HookKinds => contended' = contended
  BY <1>1, <1>2 DEF HookKinds, ReviewVerdicts
<1>6. /\ p.kind \in HookKinds =>
            /\ p.at = "looked"
            /\ p.id \in Matches(p.who) \/ (p.id = 0 /\ Matches(p.who) = {})
      /\ p.kind = "import" => p.who = Anonymous
      /\ p.kind = "import" /\ p.at = "looked" => p.id = 1 /\ legacyFile
      /\ p.at = "renamed" => p.kind = "import" /\ p.id = 0
      /\ p.kind \in ReviewVerdicts => p.id \in Reviews /\ p.at = "looked" /\ p.who = Anonymous
      /\ p.kind \in HookKinds \cup ReviewVerdicts \cup {"import"}
  BY <1>1 DEF HookKinds, ReviewVerdicts
<1>7. Ours \subseteq Names("session")
  <2>1. p.who.session \in Names("session")
    BY DEF Processes
  <2>2. p.id # 0 => reviews[p.id].who.session \in Names("session")
    BY <1>3 DEF ReviewInv, ReviewTypeOK, ReviewRows
  <2> QED
    BY <1>2, <2>1, <2>2 DEF WorksFor
<1>8. contended' \subseteq Names("session")
  <2>1. Met \subseteq Ours
    OBVIOUS
  <2>2. contended \subseteq Names("session")
    BY DEF ReviewInv, ReviewTypeOK
  <2> HIDE DEF Met, Ours
  <2> QED
    BY <1>5, <1>7, <2>1, <2>2
<1>9. ReviewTypeOK'
  BY <1>1, <1>2, <1>4, <1>8 DEF ReviewInv, ReviewTypeOK, Processes
<1>10. \A x \in QueueWriters : ProcessShape(x)'
  <2>1. ProcessShape(w)'
    BY <1>2, <1>3, <1>6, ReviewAssumption DEF ProcessShape, HookKinds, ReviewVerdicts, Reviews
  <2> QED
    BY <1>2, <2>1 DEF ReviewInv, ProcessShape
<1>11. \A x \in QueueWriters : RenderIsLocked(x)'
  <2>1. RenderIsLocked(w)'
    BY <1>1, <1>2, <1>3, NotStartedIs DEF ReviewInv, RenderIsLocked, Rendering
  <2> QED
    BY <1>1, <1>2, <2>1 DEF ReviewInv, RenderIsLocked, ImportRenders
<1>12. \A x \in QueueWriters : ViewInv(x)'
  BY <1>1, <1>2, <1>3 DEF ReviewInv, ViewInv
<1>13. QueueFileInv'
  BY <1>1, <1>2, NotStartedIs DEF ReviewInv, QueueFileInv, Rendering
<1>14. VerdictInv'
  <2> SUFFICES ASSUME NEW i \in judged, i \notin raced, writer'[w].id = i,
                      writer'[w].at \in {"looked", "numbered"}
               PROVE  p.kind \in ReviewVerdicts
    BY <1>1, <1>2 DEF ReviewInv, VerdictInv
  <2>1. i \in Reviews /\ i # 0
    BY DEF ReviewInv, ReviewTypeOK, Reviews
  <2>2. reviews[i].status \notin Open /\ (i = 1 => ~legacyFile)
    BY DEF ReviewInv, VerdictInv
  <2>3. p.kind \notin HookKinds
    BY <1>2, <1>6, <2>1, <2>2 DEF Matches, Fitting
  <2>4. p.kind # "import"
    BY <1>2, <1>3, <1>6, <2>1, <2>2
  <2> QED
    BY <1>6, <2>3, <2>4
<1>15. /\ LookingHooks' \subseteq LookingHooks \cup {w}
       /\ \A x \in LookingHooks' \ {w} : x \in LookingHooks /\ WillBeOf(x)' = WillBeOf(x)
       /\ w \in LookingHooks' => p.kind \in HookKinds
       /\ w \notin LookingHooks
  BY <1>1, <1>2, NotStartedIs DEF LookingHooks, WillBeOf, HookKinds
<1>16. \A s : Contended(s) => s \in contended' \cup {NoName}
  BY <1>5 DEF Contended
<1>17. ASSUME p.kind \in HookKinds, NEW j \in Reviews, j # p.id, reviews[j].status \in Open,
              reviews[j].who.session = WillBeOf(w)', WillBeOf(w)' # NoName
       PROVE  Contended(WillBeOf(w)')
  <2>1. WillBeOf(w)' = IF p.who.session # NoName THEN p.who.session
                       ELSE IF p.id # 0 THEN reviews[p.id].who.session ELSE NoName
    BY <1>1, <1>2, <1>6, <1>17 DEF WillBeOf
  <2>2. p.id \in Matches(p.who) /\ p.id \in Reviews
    <3>1. CASE p.who.session # NoName
      <4>1. j \in Fitting(reviews, p.who, "session")
        BY <1>17, <2>1, <3>1 DEF Fitting
      <4>2. Matches(p.who) # {}
        BY <4>1 DEF Matches
      <4> QED
        BY <1>6, <1>17, <4>2 DEF Matches, Fitting
    <3>2. CASE p.who.session = NoName
      BY <1>3, <1>6, <1>17, <2>1, <3>2 DEF Reviews
    <3> QED
      BY <3>1, <3>2
  <2>3. reviews[p.id].status \in Open /\ reviews[p.id].who.session = WillBeOf(w)'
    <3>1. CASE p.who.session # NoName
      <4>1. j \in Fitting(reviews, p.who, "session")
        BY <1>17, <2>1, <3>1 DEF Fitting
      <4>2. p.id \in Fitting(reviews, p.who, "session")
        BY <2>2, <4>1 DEF Matches
      <4> QED
        BY <2>1, <3>1, <4>2 DEF Fitting
    <3>2. CASE p.who.session = NoName
      <4>1. p.id # 0
        BY <1>17, <2>1, <3>2
      <4> QED
        BY <2>1, <2>2, <3>2, <4>1 DEF Matches, Fitting
    <3> QED
      BY <3>1, <3>2
  <2> QED
    BY <1>17, <2>2, <2>3 DEF ReviewInv, SessionsInv
<1>18. ASSUME p.kind \in HookKinds, NEW x \in LookingHooks, WillBeOf(w)' = WillBeOf(x)
       PROVE  WillBeOf(w)' \in contended' \cup {NoName}
  <2>1. WillBeOf(x) \in WorksFor(writer[x].who, writer[x].id) \cup {NoName}
    BY WillIsWorkedFor
  <2>2. WillBeOf(w)' \in Ours \cup {NoName}
    BY <1>1 DEF WillBeOf, WorksFor
  <2>3. WillBeOf(w)' # NoName => WillBeOf(w)' \in Met
    BY <1>18, <2>1, <2>2
  <2> HIDE DEF Met, Ours
  <2> QED
    BY <1>5, <1>18, <2>3 DEF Contended
<1> HIDE DEF Met, Ours
<1>19. \A i, j \in Reviews :
          i # j /\ {reviews'[i].status, reviews'[j].status} \subseteq Open
            /\ reviews'[i].who.session = reviews'[j].who.session
          => reviews'[i].who.session \in contended' \cup {NoName}
  BY <1>1, <1>16 DEF ReviewInv, SessionsInv
<1>20. ASSUME NEW y \in LookingHooks', NEW j \in Reviews, j # writer'[y].id,
              reviews[j].status \in Open, reviews[j].who.session = WillBeOf(y)'
       PROVE  WillBeOf(y)' \in contended' \cup {NoName}
  <2>1. CASE y = w
    <3>1. WillBeOf(w)' # NoName => Contended(WillBeOf(w)')
      BY <1>2, <1>15, <1>17, <1>20, <2>1
    <3>2. WillBeOf(w)' = NoName => Contended(WillBeOf(w)')
      BY DEF Contended
    <3> QED
      BY <1>16, <2>1, <3>1, <3>2
  <2>2. CASE y # w
    <3>1. y \in LookingHooks /\ WillBeOf(y)' = WillBeOf(y) /\ writer'[y] = writer[y]
      BY <1>2, <1>15, <1>20, <2>2 DEF LookingHooks
    <3>2. Contended(WillBeOf(y))
      BY <1>20, <3>1 DEF ReviewInv, SessionsInv
    <3> QED
      BY <1>16, <3>1, <3>2
  <2> QED
    BY <2>1, <2>2
<1>21. ASSUME NEW y \in LookingHooks', NEW x \in LookingHooks', y # x,
              InHandApart(y, x)', WillBeOf(y)' = WillBeOf(x)'
       PROVE  WillBeOf(y)' \in contended' \cup {NoName}
  <2>1. CASE y = w
    <3>1. x \in LookingHooks /\ WillBeOf(x)' = WillBeOf(x)
      BY <1>15, <1>21, <2>1
    <3> QED
      BY <1>15, <1>18, <1>21, <2>1, <3>1
  <2>2. CASE x = w
    <3>1. y \in LookingHooks /\ WillBeOf(y)' = WillBeOf(y)
      BY <1>15, <1>21, <2>2
    <3> QED
      BY <1>15, <1>18, <1>21, <2>2, <3>1
  <2>3. CASE y # w /\ x # w
    <3>1. /\ y \in LookingHooks /\ WillBeOf(y)' = WillBeOf(y)
          /\ x \in LookingHooks /\ WillBeOf(x)' = WillBeOf(x)
      BY <1>15, <2>3
    <3>2. InHandApart(y, x)
      BY <1>2, <1>21, <2>3, <3>1 DEF InHandApart, LookingHooks
    <3>3. Contended(WillBeOf(y))
      BY <1>21, <3>1, <3>2 DEF ReviewInv, SessionsInv
    <3> QED
      BY <1>16, <3>1, <3>3
  <2> QED
    BY <2>1, <2>2, <2>3
<1>22. SessionsInv'
  BY <1>1, <1>19, <1>20, <1>21 DEF SessionsInv, Contended
<1> QED
  BY <1>9, <1>10, <1>11, <1>12, <1>13, <1>14, <1>22 DEF ReviewInv
\* A set of natural numbers with an upper bound has a greatest one, so next_id is
\* past every number of the day.
LEMMA LeastOf ==
    ASSUME NEW T, T \subseteq Nat, T # {}
    PROVE  \E x \in T : \A y \in T : x <= y
<1>1. PICK R : IsWellFoundedOn(R, Nat) /\ \A x, y \in Nat : <<x, y>> \in R <=> x < y
  <2>1. IsWellFoundedOn(OpToRel(<, Nat), Nat)
    BY NatLessThanWellFounded
  <2>2. \A x, y \in Nat : <<x, y>> \in OpToRel(<, Nat) <=> x < y
    BY DEF OpToRel
  <2> QED
    BY <2>1, <2>2
<1>2. \A r, s, t : IsWellFoundedOn(r, s) /\ t \subseteq s /\ t # {} =>
                      \E x \in t : \A y \in t : ~ (<<y, x>> \in r)
  BY WFMin, ZenonT(30)
<1>3. PICK x \in T : \A y \in T : ~ (<<y, x>> \in R)
  <2>1. IsWellFoundedOn(R, Nat)
    BY <1>1
  <2> QED
    BY <1>2, <2>1, ZenonT(30)
<1>4. ASSUME NEW y \in T
      PROVE  x <= y
  <2>1. <<y, x>> \in R <=> y < x
    BY <1>1
  <2> QED
    BY <1>3, <2>1
<1> QED
  BY <1>4

LEMMA MaxIs ==
    ASSUME NEW N \in Nat, NEW S, S \subseteq 0 .. N, S # {}
    PROVE  Max(S) \in S /\ \A m \in S : m <= Max(S)
<1> DEFINE T == {k \in Nat : \E n \in S : k = N - n}
<1>1. T # {}
  <2>1. PICK n \in S : TRUE
    OBVIOUS
  <2>2. N - n \in T
    BY <2>1
  <2> QED
    BY <2>2
<1>2. PICK x \in T : \A y \in T : x <= y
  BY <1>1, LeastOf
<1>3. PICK n \in S : x = N - n
  BY <1>2
<1>4. ASSUME NEW m \in S
      PROVE  m <= n
  <2>1. N - m \in T /\ N - m \in Nat
    OBVIOUS
  <2>2. x <= N - m
    BY <1>2, <2>1
  <2> QED
    BY <1>3, <2>2
<1>5. \E g \in S : \A m \in S : g >= m
  BY <1>3, <1>4
<1>6. Max(S) \in S /\ \A m \in S : Max(S) >= m
  BY <1>5, Zenon DEF Max
<1> QED
  BY <1>6

LEMMA NumbersKeeps ==
    ASSUME ReviewInv, NEW w \in QueueWriters, NumbersReview(w)
    PROVE  ReviewInv'
<1> DEFINE Taken == {i \in Reviews : reviews[i] # NoReview} \cup {0}
<1> DEFINE next == Max(Taken) + 1
<1> DEFINE p == [writer[w] EXCEPT !.at = "numbered", !.id = next]
<1>1. /\ writer' = [writer EXCEPT ![w] = p] /\ next \in Reviews
      /\ writer[w].at = "looked" /\ writer[w].id = 0
      /\ UNCHANGED <<reviews, queueLock, queueFile, legacyFile, started, contended, judged, raced,
                     spoiled>>
  BY DEF NumbersReview
<1>2. /\ p \in Processes /\ p.at = "numbered" /\ p.id = next /\ p.kind = writer[w].kind
      /\ p.who = writer[w].who /\ p.view = writer[w].view
  BY <1>1 DEF ReviewInv, ReviewTypeOK, Processes
<1>3. \A i \in Reviews : reviews[i].status # "none" => i # next
  <2>1. Taken \subseteq 0 .. MaxReviews /\ Taken # {} /\ MaxReviews \in Nat
    BY ReviewAssumption DEF Reviews
  <2>2. Max(Taken) \in Taken /\ \A i \in Taken : i <= Max(Taken)
    BY <2>1, MaxIs
  <2>3. \A i \in Reviews : reviews[i].status # "none" => i \in Taken
    BY DEF NoReview
  <2> HIDE DEF Taken
  <2>4. \A i \in Taken : i \in Int
    BY <2>1
  <2> QED
    BY <2>2, <2>3, <2>4
<1> HIDE DEF p, next, Taken
<1>4. /\ writer' \in [QueueWriters -> Processes] /\ writer'[w] = p
      /\ \A x \in QueueWriters \ {w} : writer'[x] = writer[x]
  BY <1>1, <1>2, OneWriter DEF ReviewInv
<1>5. p.kind \in HookKinds /\ p.id # 0
  BY <1>1, <1>2 DEF ReviewInv, ProcessShape, Reviews
<1>6. ReviewTypeOK'
  BY <1>1, <1>4 DEF ReviewInv, ReviewTypeOK, Processes
<1>7. \A x \in QueueWriters : ProcessShape(x)'
  <2>1. ProcessShape(w)'
    BY <1>2, <1>4, <1>5 DEF ReviewInv, ProcessShape, HookKinds
  <2> QED
    BY <1>4, <2>1 DEF ReviewInv, ProcessShape
<1>8. \A x \in QueueWriters : RenderIsLocked(x)' /\ ViewInv(x)'
  <2>1. \A x \in QueueWriters : RenderIsLocked(x)'
    BY <1>1, <1>2, <1>4 DEF ReviewInv, RenderIsLocked, ImportRenders, Rendering
  <2> QED
    BY <1>1, <1>2, <1>4, <2>1 DEF ReviewInv, ViewInv
<1>9. QueueFileInv'
  BY <1>1, <1>2, <1>4 DEF ReviewInv, QueueFileInv, Rendering
<1>10. VerdictInv'
  <2>1. \A i \in judged : i # next /\ i \in Reviews
    BY <1>3 DEF ReviewInv, ReviewTypeOK, VerdictInv
  <2> QED
    BY <1>1, <1>2, <1>4, <2>1 DEF ReviewInv, VerdictInv
<1>11. /\ LookingHooks' = LookingHooks
       /\ \A x \in LookingHooks : WillBeOf(x)' = WillBeOf(x)
       /\ \A x \in LookingHooks : x = w \/ writer'[x].id = writer[x].id
       /\ writer[w].id = 0
  BY <1>1, <1>2, <1>4 DEF LookingHooks, WillBeOf
<1>12. \A x, y \in LookingHooks :
          InHandApart(x, y)' /\ x # y => InHandApart(x, y) \/ InHandApart(y, x)
  BY <1>1, <1>11 DEF InHandApart
<1>13. SessionsInv'
  <2>1. \A s : Contended(s)' <=> Contended(s)
    BY <1>1 DEF Contended
  <2>2. \A x \in LookingHooks : \A j \in Reviews : j # writer'[x].id => j # writer[x].id
    BY <1>11 DEF Reviews
  <2> QED
    BY <1>1, <1>11, <1>12, <2>1, <2>2 DEF ReviewInv, SessionsInv
<1> QED
  BY <1>6, <1>7, <1>8, <1>9, <1>10, <1>13 DEF ReviewInv
\* The row that a process writes.
LEMMA RowWritten ==
    ASSUME ReviewInv, NEW w \in QueueWriters, Writes(w)
    PROVE  \E row \in ReviewRows :
              /\ writer[w].id \in Reviews /\ writer[w].at \in {"looked", "numbered"}
              /\ reviews' = [reviews EXCEPT ![writer[w].id] = row]
              /\ row.status = StatusAfter(writer[w].kind)
              /\ row.status \in Open \cup ReviewVerdicts
              /\ row.status \in Open => writer[w].kind \notin ReviewVerdicts
              /\ writer[w].kind \in HookKinds => row.who.session = WillBeOf(w)
              /\ writer[w].kind = "import" => row.who.session = NoName
              /\ writer[w].kind \in ReviewVerdicts =>
                    row.who.session = reviews[writer[w].id].who.session
<1> DEFINE me == writer[w]
<1> DEFINE old == reviews[me.id].who
<1> DEFINE new == me.at = "numbered" \/ me.kind = "import"
<1> DEFINE who == IF new THEN me.who ELSE Origin(me.who, old)
<1> DEFINE row == [status |-> StatusAfter(me.kind), who |-> who]
<1>1. /\ me.id \in Reviews /\ me.at \in {"looked", "numbered"}
      /\ reviews' = [reviews EXCEPT ![me.id] = row]
  BY DEF Writes, ReviewInv, ReviewTypeOK
<1>2. /\ me.who \in [session : Names("session"), terminal : Names("terminal")]
      /\ old \in [session : Names("session"), terminal : Names("terminal")]
      /\ me.kind \in HookKinds \cup ReviewVerdicts \cup {"import"}
      /\ me.kind = "import" => me.who = Anonymous
      /\ me.at = "numbered" => me.kind \in HookKinds
  BY <1>1 DEF ReviewInv, ReviewTypeOK, ReviewRows, ProcessShape
<1>3. /\ Origin(me.who, old) \in [session : Names("session"), terminal : Names("terminal")]
      /\ Origin(me.who, old).session =
            IF me.who.session # NoName THEN me.who.session ELSE old.session
  BY <1>2 DEF Origin
<1>4. who \in [session : Names("session"), terminal : Names("terminal")]
  BY <1>2, <1>3
<1>5. /\ StatusAfter(me.kind) \in Open \cup ReviewVerdicts
      /\ StatusAfter(me.kind) \in Open => me.kind \notin ReviewVerdicts
  BY <1>2 DEF StatusAfter, Open, ReviewVerdicts
<1>6. row \in ReviewRows /\ row.status = StatusAfter(me.kind) /\ row.who = who
  BY <1>4, <1>5 DEF ReviewRows
<1>7. me.kind \in HookKinds => who.session = WillBeOf(w)
  BY <1>1, <1>2, <1>3 DEF WillBeOf, HookKinds, Reviews
<1>8. me.kind = "import" => who.session = NoName
  BY <1>2, WhoIs
<1>9. me.kind \in ReviewVerdicts => who.session = old.session
  <2>1. ASSUME me.kind \in ReviewVerdicts
        PROVE  me.who.session = NoName /\ ~new
    BY <1>2, <2>1, WhoIs DEF ReviewInv, ProcessShape, HookKinds, ReviewVerdicts
  <2> QED
    BY <1>3, <2>1
<1> HIDE DEF row, who
<1> QED
  BY <1>1, <1>5, <1>6, <1>7, <1>8, <1>9
LEMMA WritesKeeps ==
    ASSUME ReviewInv, NEW w \in QueueWriters, Writes(w)
    PROVE  ReviewInv'
<1> DEFINE k == writer[w].id
<1> DEFINE kind == writer[w].kind
<1> DEFINE p == [writer[w] EXCEPT !.at = "wrote"]
<1>1. PICK row \in ReviewRows :
              /\ k \in Reviews /\ writer[w].at \in {"looked", "numbered"}
              /\ reviews' = [reviews EXCEPT ![k] = row]
              /\ row.status = StatusAfter(kind)
              /\ row.status \in Open \cup ReviewVerdicts
              /\ row.status \in Open => kind \notin ReviewVerdicts
              /\ kind \in HookKinds => row.who.session = WillBeOf(w)
              /\ kind = "import" => row.who.session = NoName
              /\ kind \in ReviewVerdicts => row.who.session = reviews[k].who.session
  BY RowWritten
<1>2. /\ writer' = [writer EXCEPT ![w] = p] /\ queueLock = NoWriter /\ queueLock' = w /\ k # 0
      /\ judged' = IF kind \in ReviewVerdicts THEN judged \cup {k} ELSE judged
      /\ raced' = IF /\ kind \in ReviewVerdicts
                     /\ \/ legacyFile /\ k = 1
                        \/ \E x \in QueueWriters \ {w} : writer[x].id = k
                  THEN raced \cup {k} ELSE raced
      /\ spoiled' <=> (spoiled \/ \E x \in QueueWriters : ImportRenders(x))
      /\ spoiled' \in BOOLEAN
      /\ UNCHANGED <<queueFile, legacyFile, started, contended>>
  BY DEF Writes
<1>3. /\ p \in Processes /\ p.at = "wrote" /\ p.id = k /\ p.kind = kind
      /\ p.who = writer[w].who /\ p.view = writer[w].view
  BY <1>1 DEF ReviewInv, ReviewTypeOK, Processes
<1>4. kind \in HookKinds \cup ReviewVerdicts \cup {"import"}
  BY <1>1 DEF ReviewInv, ProcessShape
<1> HIDE DEF p
<1>5. /\ writer' \in [QueueWriters -> Processes] /\ writer'[w] = p
      /\ \A x \in QueueWriters \ {w} : writer'[x] = writer[x]
  BY <1>2, <1>3, OneWriter DEF ReviewInv
<1>6. /\ reviews' \in [Reviews -> ReviewRows] /\ reviews'[k] = row
      /\ \A i \in Reviews \ {k} : reviews'[i] = reviews[i]
  BY <1>1 DEF ReviewInv, ReviewTypeOK
<1>7. ReviewTypeOK'
  <2>1. judged' \subseteq Reviews /\ raced' \subseteq Reviews
    BY <1>1, <1>2 DEF ReviewInv, ReviewTypeOK
  <2> QED
    BY <1>2, <1>5, <1>6, <2>1 DEF ReviewInv, ReviewTypeOK, Processes
<1>8. \A x \in QueueWriters : ProcessShape(x)'
  <2>1. ProcessShape(w)'
    BY <1>2, <1>3, <1>5 DEF ReviewInv, ProcessShape
  <2> QED
    BY <1>5, <2>1 DEF ReviewInv, ProcessShape
\* The lock was free: whoever renders does so without it, and is an import.
<1>9. \A x \in QueueWriters : writer[x].at \in Rendering => ImportRenders(x)
  BY <1>2, ReviewAssumption DEF ReviewInv, RenderIsLocked
<1>10. \A x \in QueueWriters : RenderIsLocked(x)'
  <2>1. RenderIsLocked(w)'
    BY <1>2, <1>3, <1>5 DEF RenderIsLocked, ImportRenders, Rendering
  <2> QED
    BY <1>2, <1>5, <1>9, <2>1 DEF RenderIsLocked, ImportRenders
<1>11. \A x \in QueueWriters : ViewInv(x)'
  BY <1>2, <1>3, <1>5, <1>9 DEF ViewInv, Rendering
<1>12. QueueFileInv'
  BY <1>3, <1>5 DEF QueueFileInv, Rendering
<1>13. VerdictInv'
  <2> SUFFICES ASSUME NEW i \in judged'
               PROVE  /\ reviews'[i].status # "none"
                      /\ i \notin raced' =>
                            /\ reviews'[i].status \notin Open
                            /\ i = 1 => ~legacyFile'
                            /\ \A x \in QueueWriters :
                                  writer'[x].at \in {"looked", "numbered"} /\ writer'[x].id = i =>
                                      writer'[x].kind \in ReviewVerdicts
    BY DEF VerdictInv
  <2>1. i \in Reviews /\ (i \notin raced' => i \notin raced)
    BY <1>2, <1>7 DEF ReviewTypeOK
  <2>2. CASE i # k
    <3>1. i \in judged
      BY <1>2, <2>2
    <3> QED
      BY <1>2, <1>3, <1>5, <1>6, <2>1, <2>2, <3>1 DEF ReviewInv, VerdictInv
  <2>3. CASE i = k /\ kind \in ReviewVerdicts
    <3>1. reviews'[i].status \in ReviewVerdicts
      BY <1>1, <1>6, <2>1, <2>3 DEF StatusAfter
    <3>2. i \notin raced' =>
              ~(legacyFile /\ i = 1) /\ \A x \in QueueWriters \ {w} : writer[x].id # i
      BY <1>2, <2>3
    <3> QED
      BY <1>2, <1>3, <1>5, <3>1, <3>2 DEF Open, ReviewVerdicts
  <2>4. CASE i = k /\ kind \notin ReviewVerdicts
    <3>1. i \in judged /\ raced' = raced
      BY <1>2, <2>4
    <3>2. i \in raced
      BY <1>1, <2>4, <3>1 DEF ReviewInv, VerdictInv
    <3>3. reviews'[i].status # "none"
      BY <1>1, <1>6, <2>1, <2>4 DEF Open, ReviewVerdicts
    <3> QED
      BY <3>1, <3>2, <3>3
  <2> QED
    BY <2>2, <2>3, <2>4
<1>14. \A s : Contended(s)' <=> Contended(s)
  BY <1>2 DEF Contended
<1>15. /\ LookingHooks' = LookingHooks \ {w}
       /\ \A x \in LookingHooks' : x # w /\ writer'[x] = writer[x]
       /\ kind \in HookKinds => w \in LookingHooks
  BY <1>1, <1>3, <1>5 DEF LookingHooks
\* What another hook will write changes only with the task in its hand.
<1>16. ASSUME NEW x \in LookingHooks'
       PROVE  \/ WillBeOf(x)' = WillBeOf(x)
              \/ /\ writer[x].id = k /\ writer[x].at = "looked"
                 /\ WillBeOf(x)' = row.who.session
                 /\ kind \notin ReviewVerdicts
  <2>1. writer'[x] = writer[x] /\ (writer[x].id # 0 => writer[x].id \in Reviews)
    BY <1>15, <1>16 DEF ReviewInv, ReviewTypeOK, LookingHooks
  <2> QED
    BY <1>1, <1>6, <2>1 DEF WillBeOf
<1>17. row.status \in Open \/ kind \notin ReviewVerdicts =>
          (kind \in HookKinds /\ row.who.session = WillBeOf(w)) \/ row.who.session = NoName
  BY <1>1, <1>4
<1>18. Contended(NoName)
  BY DEF Contended
<1>19. ASSUME NEW j \in Reviews, j # k, reviews[j].status \in Open,
              reviews[j].who.session = row.who.session,
              row.status \in Open \/ kind \notin ReviewVerdicts
       PROVE  Contended(row.who.session)
  <2>1. CASE kind \in HookKinds /\ row.who.session = WillBeOf(w)
    BY <1>15, <1>19, <2>1 DEF ReviewInv, SessionsInv
  <2>2. CASE row.who.session = NoName
    BY <1>18, <2>2
  <2> QED
    BY <1>17, <1>19, <2>1, <2>2
<1>20. ASSUME NEW i \in Reviews, NEW j \in Reviews, i # j,
              {reviews'[i].status, reviews'[j].status} \subseteq Open,
              reviews'[i].who.session = reviews'[j].who.session
       PROVE  Contended(reviews'[i].who.session)
  <2>1. CASE i = k
    BY <1>6, <1>19, <1>20, <2>1
  <2>2. CASE j = k
    BY <1>6, <1>19, <1>20, <2>2
  <2>3. CASE i # k /\ j # k
    BY <1>6, <1>20, <2>3 DEF ReviewInv, SessionsInv
  <2> QED
    BY <2>1, <2>2, <2>3
<1>21. ASSUME NEW x \in LookingHooks', writer[x].id # k, row.who.session = WillBeOf(x),
              row.status \in Open \/ kind \notin ReviewVerdicts
       PROVE  Contended(WillBeOf(x))
  <2>1. CASE kind \in HookKinds /\ row.who.session = WillBeOf(w)
    <3>1. InHandApart(w, x) /\ w # x /\ x \in LookingHooks /\ w \in LookingHooks
      BY <1>15, <1>21, <2>1 DEF InHandApart
    <3>2. WillBeOf(w) = WillBeOf(x)
      BY <1>21, <2>1
    <3> QED
      BY <3>1, <3>2 DEF ReviewInv, SessionsInv
  <2>2. CASE row.who.session = NoName
    BY <1>18, <1>21, <2>2
  <2> QED
    BY <1>17, <1>21, <2>1, <2>2
<1>22. ASSUME NEW x \in LookingHooks', NEW j \in Reviews, j # writer'[x].id,
              reviews'[j].status \in Open, reviews'[j].who.session = WillBeOf(x)'
       PROVE  Contended(WillBeOf(x)')
  <2>1. x \in LookingHooks /\ j # writer[x].id
    BY <1>15, <1>22
  <2>2. CASE WillBeOf(x)' = WillBeOf(x) /\ j # k
    BY <1>6, <1>22, <2>1, <2>2 DEF ReviewInv, SessionsInv
  <2>3. CASE WillBeOf(x)' = WillBeOf(x) /\ j = k
    BY <1>6, <1>21, <1>22, <2>1, <2>3
  <2>4. CASE WillBeOf(x)' = row.who.session /\ kind \notin ReviewVerdicts /\ writer[x].id = k
    BY <1>6, <1>19, <1>22, <2>1, <2>4
  <2> QED
    BY <1>16, <2>2, <2>3, <2>4
<1>23. ASSUME NEW y \in LookingHooks', NEW x \in LookingHooks', y # x,
              InHandApart(y, x)', WillBeOf(y)' = WillBeOf(x)'
       PROVE  Contended(WillBeOf(y)')
  <2>1. /\ x \in LookingHooks /\ y \in LookingHooks
        /\ writer[y].id # writer[x].id \/ (writer[y].id = 0 /\ writer[x].id = 0)
    BY <1>15, <1>23 DEF InHandApart
  <2>2. CASE WillBeOf(y)' = WillBeOf(y) /\ WillBeOf(x)' = WillBeOf(x)
    BY <1>23, <2>1, <2>2 DEF ReviewInv, SessionsInv, InHandApart
  <2>3. CASE WillBeOf(y)' = WillBeOf(y) /\ WillBeOf(x)' = row.who.session
                /\ writer[x].id = k /\ kind \notin ReviewVerdicts
    BY <1>2, <1>21, <1>23, <2>1, <2>3
  <2>4. CASE WillBeOf(x)' = WillBeOf(x) /\ WillBeOf(y)' = row.who.session
                /\ writer[y].id = k /\ kind \notin ReviewVerdicts
    BY <1>2, <1>21, <1>23, <2>1, <2>4
  <2>5. ~(writer[y].id = k /\ writer[x].id = k)
    BY <1>2, <2>1
  <2> QED
    BY <1>16, <1>23, <2>2, <2>3, <2>4, <2>5
<1>24. SessionsInv'
  BY <1>2, <1>20, <1>22, <1>23 DEF SessionsInv, Contended
<1> QED
  BY <1>7, <1>8, <1>10, <1>11, <1>12, <1>13, <1>24 DEF ReviewInv

LEMMA ReviewStarts ==
    ASSUME ReviewInit
    PROVE  ReviewInv
<1>1. NoReview \in ReviewRows /\ NoReview.status = "none"
  BY WhoIs DEF NoReview, ReviewRows
<1>2. \A w \in QueueWriters : writer[w] = NotStarted
  BY DEF ReviewInit
<1>3. ReviewTypeOK
  <2>1. reviews \in [Reviews -> ReviewRows] /\ queueFile \in [Reviews -> ReviewRows]
    BY <1>1 DEF ReviewInit
  <2>2. writer \in [QueueWriters -> Processes]
    BY NotStartedIs DEF ReviewInit
  <2>3. started \in 0 .. MaxWriters
    BY ReviewAssumption DEF ReviewInit
  <2> QED
    BY <2>1, <2>2, <2>3 DEF ReviewInit, ReviewTypeOK, Processes
<1>4. \A w \in QueueWriters : ProcessShape(w) /\ RenderIsLocked(w) /\ ViewInv(w)
  BY <1>2, NotStartedIs, ReviewAssumption
     DEF ReviewInit, ProcessShape, RenderIsLocked, ViewInv, Rendering
<1>5. QueueFileInv /\ VerdictInv
  BY DEF ReviewInit, QueueFileInv, VerdictInv
<1>6. SessionsInv
  <2>1. LookingHooks = {}
    BY <1>2, NotStartedIs DEF LookingHooks
  <2>2. \A i \in Reviews : reviews[i].status \notin Open
    BY <1>1 DEF ReviewInit, Open
  <2> QED
    BY <2>1, <2>2 DEF SessionsInv
<1> QED
  BY <1>3, <1>4, <1>5, <1>6 DEF ReviewInv

LEMMA ReviewStepKeeps ==
    ASSUME ReviewInv, [ReviewNext]_reviewVars
    PROVE  ReviewInv'
<1>1. ASSUME NEW w \in QueueWriters, Renders(w)
      PROVE  ReviewInv'
  BY <1>1, RenderReadsKeeps, TruncatesKeeps, RenderEndsKeeps DEF Renders
<1>2. CASE ReviewNext
  BY <1>1, <1>2, StartsKeeps, NumbersKeeps, WritesKeeps, ImportRenamesKeeps, WriterDiesKeeps
     DEF ReviewNext
<1>3. CASE UNCHANGED reviewVars
  <2> USE <1>3 DEF reviewVars
  <2>1. ReviewTypeOK' /\ QueueFileInv'
    BY DEF ReviewInv, ReviewTypeOK, QueueFileInv
  <2>2. VerdictInv' /\ SessionsInv'
    BY NoTaskTouched
  <2>3. \A w \in QueueWriters : ProcessShape(w)' /\ RenderIsLocked(w)' /\ ViewInv(w)'
    BY DEF ReviewInv, ProcessShape, RenderIsLocked, ImportRenders, ViewInv
  <2> QED
    BY <2>1, <2>2, <2>3 DEF ReviewInv
<1> QED
  BY <1>2, <1>3

LEMMA ReviewInvariant == ReviewSpec => []ReviewInv
<1>1. ReviewInit => ReviewInv
  BY ReviewStarts
<1>2. ReviewInv /\ [ReviewNext]_reviewVars => ReviewInv'
  BY ReviewStepKeeps
<1> QED
  BY <1>1, <1>2, PTL DEF ReviewSpec

\* A session has one open task, unless hooks that worked for it overlapped, a
\* verdict stands unless another process had the task in hand, and tasks.md shows the
\* rows unless a render died or overlapped an import (tasks.rs:297-371; the hooks of
\* conductor-cli main.rs:849-909).
THEOREM ReviewsAreAlwaysKept == ReviewSpec => []ReviewsAreKept
<1>1. ReviewInv => ReviewsAreKept
  <2> SUFFICES ASSUME ReviewInv PROVE ReviewsAreKept
    OBVIOUS
  <2>1. ASSUME NEW i \in Reviews, NEW j \in Reviews, i < j,
               {reviews[i].status, reviews[j].status} \subseteq Open,
               reviews[i].who.session = reviews[j].who.session
        PROVE  reviews[i].who.session \in contended \cup {NoName}
    <3>1. i # j
      BY <2>1 DEF Reviews
    <3> QED
      BY <2>1, <3>1 DEF ReviewInv, SessionsInv, Contended
  <2>2. \A i \in judged : reviews[i].status \in Open => i \in raced
    BY DEF ReviewInv, VerdictInv
  <2> QED
    BY <2>1, <2>2 DEF ReviewInv, QueueFileInv, ReviewsAreKept
<1> QED
  BY <1>1, ReviewInvariant, PTL

----------------------------------------------------------------------------
(* Opening the database                                                    *)

Statements == ScriptFor[watched]
ListTable == "agent_tasks"
MovePlaces == {"looking", "copying", "dropping"}
IsMigrating(p) == opening[p].at \in {"running", "altering"} \cup MovePlaces
Reached(p) == IF opening[p].at = "open" THEN Len(Statements) + 1 ELSE opening[p].next

\* A table has its first column, and the table of goal tasks has goal_id too.
TablesInv ==
    /\ schema \in [watched -> SUBSET UNION {Columns(t) : t \in watched}]
    /\ \A t \in watched : schema[t] \subseteq Columns(t) /\ (Exists(t) => "id" \in schema[t])
    /\ ListTable \in watched => (schema[ListTable] \in {{}, {"id"}} \/ "goal_id" \in schema[ListTable])

\* What an opener has behind it is in the tables, but for a late DROP.
Excused(p, t) == t = ListTable /\ outpaced /\ (p \in contested \/ opening[p].at = "open")
Keeps(p) ==
    \A t \in watched : Brought(Statements, Reached(p), t) \subseteq schema[t] \/ Excused(p, t)

\* Behind the move there is no old list.
HasMoved(p) == \E j \in DOMAIN Statements : j < Reached(p) /\ Statements[j].verb = "move"

OpenerInv(p) ==
    /\ IsMigrating(p) => opening[p].next \in DOMAIN Statements
    /\ opening[p].at = "altering" =>
          /\ Todo(p).verb = "ensure"
          /\ (p \in contested \/ ~ (Todo(p).columns \subseteq schema[Todo(p).table]))
    /\ opening[p].at \in MovePlaces => Todo(p).verb = "move"
    /\ opening[p].at = "looking" => (p \in contested \/ Exists(ListTable))
    /\ opening[p].at \in {"copying", "dropping"} => (p \in contested \/ schema[ListTable] = {"id"})
    /\ opening[p].at = "dropping" => itemIn # {ListTable}
    /\ (IsMigrating(p) \/ opening[p].at = "open") => Keeps(p)
    /\ (IsMigrating(p) \/ opening[p].at = "open") => (HasMoved(p) => schema[ListTable] # {"id"})
    /\ opening[p].at = "failed" => p \in contested

SchemaInv ==
    /\ opening \in [Openers -> [at : OpeningPlaces, next : Nat]]
    /\ contested \subseteq Openers /\ outpaced \in BOOLEAN
    /\ watched \in Watches \cup {{}}
    /\ watched = {} => /\ \A p \in Openers : opening[p].at = "closed"
                       /\ written = "none"
    /\ TablesInv
    /\ \A p \in Openers : OpenerInv(p)
    /\ itemIn \subseteq {ListTable, "agent_tasklist_items"}
    /\ written \in {"none", "stored", "lost"}
    /\ written = "stored" => ListTable \in watched
    /\ written = "stored" => (outpaced \/ "goal_id" \in schema[ListTable])
    /\ written = "lost" => outpaced

LEMMA IdIsAColumn == \A t : "id" \in Columns(t)
BY DEF Columns

LEMMA OrderedScript ==
    ASSUME NEW w \in Watches
    PROVE  ScriptInOrder(ScriptFor[w], w)
BY ScriptAssumption

LEMMA ScriptIsASequence ==
    ASSUME NEW w \in Watches
    PROVE  /\ DOMAIN ScriptFor[w] = 1 .. Len(ScriptFor[w])
           /\ Len(ScriptFor[w]) \in Nat /\ Len(ScriptFor[w]) >= 1
<1> DEFINE script == ScriptFor[w]
           texts == Range(Script)
           none == <<>>
<1>1. script \in Seq(texts) /\ script # none
  BY OrderedScript DEF ScriptInOrder
<1>2. \A x \in Seq(texts) : x = none \/ Len(x) >= 1
  <2> HIDE DEF texts
  <2> QED
    OBVIOUS
<1> HIDE DEF script, texts, none
<1>3. Len(script) >= 1
  BY <1>1, <1>2
<1>4. DOMAIN script = 1 .. Len(script) /\ Len(script) \in Nat
  BY <1>1
<1> QED
  BY <1>3, <1>4 DEF script

\* A statement of a script in order, and what the order says of it.
LEMMA OrderedStatement ==
    ASSUME NEW w \in Watches, NEW i \in DOMAIN ScriptFor[w]
    PROVE  LET script == ScriptFor[w]
               s == script[i] IN
           /\ s.verb \in {"create", "ensure", "try", "use", "move"}
           /\ s.table \in w /\ s.columns \subseteq Columns(s.table)
           /\ s.verb \in {"ensure", "try"} => "id" \in Brought(script, i, s.table)
           /\ s.verb = "use" => s.columns \subseteq Brought(script, i, s.table)
           /\ s.table = ListTable => s.verb \in {"create", "use", "move"}
           /\ (s.table = ListTable /\ s.verb = "create") =>
                 /\ s.columns = {"goal_id"}
                 /\ \E j \in 1 .. (i - 1) : script[j].verb = "move"
           /\ s.verb = "move" => s.table = ListTable /\ Brought(script, i, ListTable) = {}
<1> DEFINE script == ScriptFor[w]
<1>1. ScriptInOrder(script, w)
  BY OrderedScript
<1> HIDE DEF script
<1> QED
  BY <1>1 DEF ScriptInOrder, ListTable, script

LEMMA EndOfScript ==
    ASSUME NEW w \in Watches, NEW t \in w
    PROVE  Columns(t) \subseteq Brought(ScriptFor[w], Len(ScriptFor[w]) + 1, t)
BY OrderedScript DEF ScriptInOrder

LEMMA NothingBrought ==
    ASSUME NEW script, NEW t
    PROVE  Brought(script, 1, t) = {}
<1>1. 1 .. (1 - 1) = {}
  OBVIOUS
<1> QED
  BY <1>1 DEF Brought

LEMMA BroughtByOneMore ==
    ASSUME NEW script, NEW t, NEW n \in Nat, n >= 1
    PROVE  Brought(script, n + 1, t)
               = Brought(script, n, t) \cup (IF script[n].table = t THEN Brings(script[n]) ELSE {})
<1>1. 1 .. ((n + 1) - 1) = (1 .. (n - 1)) \cup {n}
  OBVIOUS
<1>2. ASSUME NEW x
      PROVE  x \in Brought(script, n + 1, t) <=>
                (x \in Brought(script, n, t) \/ (script[n].table = t /\ x \in Brings(script[n])))
  <2>1. x \in Brought(script, n + 1, t) <=>
           \E i \in (1 .. (n - 1)) \cup {n} : script[i].table = t /\ x \in Brings(script[i])
    BY <1>1 DEF Brought
  <2>2. x \in Brought(script, n, t) <=>
           \E i \in 1 .. (n - 1) : script[i].table = t /\ x \in Brings(script[i])
    BY DEF Brought
  <2> QED
    BY <2>1, <2>2
<1> QED
  BY <1>2

\* What is brought to the table of goal tasks has goal_id, or is nothing.
LEMMA ListIsBroughtWhole ==
    ASSUME NEW w \in Watches, NEW n \in Nat, n <= Len(ScriptFor[w]) + 1
    PROVE  \/ Brought(ScriptFor[w], n, ListTable) = {}
           \/ "goal_id" \in Brought(ScriptFor[w], n, ListTable)
<1> DEFINE script == ScriptFor[w]
<1>1. ASSUME NEW i \in 1 .. (n - 1), script[i].table = ListTable
      PROVE  Brings(script[i]) = {} \/ "goal_id" \in Brings(script[i])
  <2>1. i \in DOMAIN script
    BY ScriptIsASequence
  <2>2. script[i].verb \in {"create", "use", "move"}
    BY <1>1, <2>1, OrderedStatement
  <2>3. CASE script[i].verb = "create"
    <3>1. script[i].columns = {"goal_id"}
      BY <1>1, <2>1, <2>3, OrderedStatement
    <3> QED
      BY <1>1, <2>3, <3>1 DEF Brings, ListTable
  <2>4. CASE script[i].verb \in {"use", "move"}
    BY <2>4 DEF Brings
  <2> QED
    BY <2>2, <2>3, <2>4
<1> HIDE DEF script
<1> QED
  BY <1>1 DEF Brought, script

LEMMA GoalIdIsAColumn ==
    ASSUME NEW w \in Watches, ListTable \in w
    PROVE  "goal_id" \in Columns(ListTable)
<1> DEFINE script == ScriptFor[w]
           n == Len(script) + 1
<1>1. n \in Nat /\ n <= Len(script) + 1
  BY ScriptIsASequence
<1>2. "id" \in Brought(script, n, ListTable)
  BY EndOfScript, IdIsAColumn
<1>3. "goal_id" \in Brought(script, n, ListTable)
  BY <1>1, <1>2, ListIsBroughtWhole
<1>4. PICK i \in 1 .. (n - 1) : script[i].table = ListTable /\ "goal_id" \in Brings(script[i])
  BY <1>3 DEF Brought
<1>5. i \in DOMAIN script
  BY <1>1, <1>4, ScriptIsASequence
<1>6. "goal_id" \in script[i].columns
  BY <1>4 DEF Brings
<1> QED
  BY <1>4, <1>5, <1>6, OrderedStatement

\* Every opener that is anywhere in the script has a database to open.
LEMMA InAScript ==
    ASSUME SchemaInv, NEW p \in Openers, opening[p].at # "closed"
    PROVE  watched \in Watches
BY DEF SchemaInv

LEMMA PlacesOf ==
    ASSUME SchemaInv, NEW p \in Openers
    PROVE  /\ opening[p].at \in OpeningPlaces /\ opening[p].next \in Nat
           /\ opening[p] = [at |-> opening[p].at, next |-> opening[p].next]
BY DEF SchemaInv

\* An opener that does not step keeps its invariant if tables only grow, ...
LEMMA OthersGrow ==
    ASSUME SchemaInv, NEW p \in Openers, NEW q \in Openers \ {p},
           opening'[q] = opening[q], watched' = watched, outpaced' = outpaced,
           q \in contested => q \in contested',
           \A t \in watched : schema[t] \subseteq schema'[t],
           schema'[ListTable] = schema[ListTable] \/ "goal_id" \in schema'[ListTable],
           schema' = schema \/ (IsMigrating(q) => q \in contested'),
           opening[q].at = "failed" => q \in contested',
           itemIn # {ListTable} => itemIn' # {ListTable}
    PROVE  OpenerInv(q)'
<1>1. OpenerInv(q)
  BY DEF SchemaInv
<1>2. IsMigrating(q)' <=> IsMigrating(q)
  BY DEF IsMigrating
<1>3. Reached(q)' = Reached(q) /\ Todo(q)' = Todo(q) /\ Statements' = Statements
  BY DEF Reached, Todo, Statements
<1>4. HasMoved(q)' <=> HasMoved(q)
  BY <1>3 DEF HasMoved
<1>5. Keeps(q) => Keeps(q)'
  BY <1>3 DEF Keeps, Excused
<1>6. (HasMoved(q) => schema[ListTable] # {"id"}) => (HasMoved(q)' => schema'[ListTable] # {"id"})
  BY <1>4
<1>7. CASE schema' = schema
  BY <1>1, <1>2, <1>3, <1>4, <1>5, <1>7 DEF OpenerInv, Exists, MovePlaces, IsMigrating
<1>8. CASE IsMigrating(q) /\ q \in contested'
  BY <1>1, <1>2, <1>3, <1>5, <1>6, <1>8 DEF OpenerInv, MovePlaces, IsMigrating
<1>9. CASE ~IsMigrating(q)
  <2>1. opening[q].at \notin MovePlaces \cup {"altering", "running"}
    BY <1>9 DEF IsMigrating
  <2> QED
    BY <1>1, <1>2, <1>3, <1>5, <1>6, <1>9, <2>1 DEF OpenerInv, MovePlaces
<1> QED
  BY <1>7, <1>8, <1>9

\* ... and if the old list is dropped, which is late or does it no harm.
LEMMA OthersSeeTheDrop ==
    ASSUME SchemaInv, NEW p \in Openers, NEW q \in Openers \ {p},
           opening'[q] = opening[q], watched' = watched, ListTable \in watched,
           outpaced' \/ (schema[ListTable] = {"id"} /\ outpaced' = outpaced),
           q \in contested => q \in contested',
           IsMigrating(q) => q \in contested',
           \A t \in watched \ {ListTable} : schema'[t] = schema[t],
           schema'[ListTable] = {},
           itemIn' # {ListTable}
    PROVE  OpenerInv(q)'
<1>1. OpenerInv(q)
  BY DEF SchemaInv
<1>2. IsMigrating(q)' <=> IsMigrating(q)
  BY DEF IsMigrating
<1>3. Reached(q)' = Reached(q) /\ Todo(q)' = Todo(q) /\ Statements' = Statements
  BY DEF Reached, Todo, Statements
<1>4. HasMoved(q)' => schema'[ListTable] # {"id"}
  OBVIOUS
<1>5. ASSUME IsMigrating(q) \/ opening[q].at = "open"
      PROVE  Keeps(q)'
  <2>1. ASSUME NEW t \in watched
        PROVE  Brought(Statements, Reached(q), t) \subseteq schema'[t] \/ Excused(q, t)'
    <3>1. CASE t # ListTable
      <4>1. Brought(Statements, Reached(q), t) \subseteq schema[t]
        BY <1>1, <1>5, <3>1 DEF OpenerInv, Keeps, Excused
      <4> QED
        BY <3>1, <4>1
    <3>2. CASE t = ListTable /\ outpaced'
      BY <1>5, <3>2 DEF Excused
    <3>3. CASE t = ListTable /\ schema[ListTable] = {"id"} /\ outpaced' = outpaced
      <4>1. CASE Excused(q, t)
        BY <1>5, <3>3, <4>1 DEF Excused
      <4>2. CASE Brought(Statements, Reached(q), t) \subseteq schema[t]
        <5>1. watched \in Watches
          BY <1>5, InAScript DEF IsMigrating, MovePlaces
        <5>2. Reached(q) \in Nat /\ Reached(q) <= Len(Statements) + 1
          BY <1>1, <1>5, <5>1, ScriptIsASequence, PlacesOf DEF Reached, OpenerInv, Statements
        <5>3. "goal_id" \notin Brought(Statements, Reached(q), t)
          BY <3>3, <4>2
        <5>4. Brought(Statements, Reached(q), t) = {}
          BY <3>3, <5>1, <5>2, <5>3, ListIsBroughtWhole DEF Statements
        <5> QED
          BY <5>4
      <4> QED
        BY <1>1, <1>5, <4>1, <4>2 DEF OpenerInv, Keeps
    <3> QED
      BY <3>1, <3>2, <3>3
  <2> QED
    BY <1>3, <2>1 DEF Keeps
<1>6. CASE IsMigrating(q)
  BY <1>1, <1>2, <1>3, <1>4, <1>5, <1>6 DEF OpenerInv, MovePlaces, IsMigrating
<1>7. CASE ~IsMigrating(q)
  <2>1. opening[q].at \notin MovePlaces \cup {"altering", "running"}
    BY <1>7 DEF IsMigrating
  <2> QED
    BY <1>1, <1>2, <1>3, <1>4, <1>5, <1>7, <2>1 DEF OpenerInv, MovePlaces
<1> QED
  BY <1>6, <1>7

\* An opener keeps its invariant when it goes on behind a statement whose
\* columns are there.
LEMMA GoneOn ==
    ASSUME SchemaInv, NEW p \in Openers, IsMigrating(p), watched' = watched, GoesOn(p),
           p \in contested => p \in contested', outpaced => outpaced',
           \A t \in watched : \/ Brought(Statements, opening[p].next, t) \subseteq schema'[t]
                             \/ (t = ListTable /\ outpaced' /\ p \in contested'),
           \/ Brings(Todo(p)) \subseteq schema'[Todo(p).table]
           \/ (Todo(p).table = ListTable /\ outpaced' /\ p \in contested'),
           (HasMoved(p) \/ Todo(p).verb = "move") => schema'[ListTable] # {"id"}
    PROVE  OpenerInv(p)'
<1> DEFINE n == opening[p].next
<1>1. watched \in Watches
  BY InAScript DEF IsMigrating, MovePlaces
<1>2. n \in Nat /\ n >= 1 /\ n <= Len(Statements) /\ Len(Statements) \in Nat
      /\ DOMAIN Statements = 1 .. Len(Statements)
  BY <1>1, ScriptIsASequence, PlacesOf DEF SchemaInv, OpenerInv, Statements
<1>3. Todo(p) = Statements[n] /\ Statements' = Statements
  BY DEF Todo, Statements
<1>4. Reached(p) = n
  BY DEF Reached, IsMigrating, MovePlaces
<1>5. /\ opening'[p].at = "open" \/ opening'[p].at = "running"
      /\ opening'[p].at = "running" => opening'[p].next = n + 1 /\ n < Len(Statements)
      /\ opening'[p].at = "open" => n = Len(Statements)
  BY <1>2 DEF GoesOn, OpeningAt, Statements, SchemaInv
<1>6. Reached(p)' = n + 1
  BY <1>3, <1>5 DEF Reached
<1>7. \A t : Brought(Statements, n + 1, t)
        = Brought(Statements, n, t) \cup (IF Todo(p).table = t THEN Brings(Todo(p)) ELSE {})
  <2> TAKE t
  <2> DEFINE script == Statements
  <2>1. Brought(script, n + 1, t)
          = Brought(script, n, t) \cup (IF script[n].table = t THEN Brings(script[n]) ELSE {})
    <3> HIDE DEF script, n
    <3> QED
      BY <1>2, BroughtByOneMore
  <2> QED
    BY <1>3, <2>1
<1>8. Keeps(p)'
  <2>1. ASSUME NEW t \in watched
        PROVE  Brought(Statements, n + 1, t) \subseteq schema'[t] \/ Excused(p, t)'
    BY <1>7 DEF Excused
  <2> QED
    BY <1>3, <1>6, <2>1 DEF Keeps
<1>9. HasMoved(p)' => schema'[ListTable] # {"id"}
  <2>1. HasMoved(p)' => HasMoved(p) \/ Todo(p).verb = "move"
    BY <1>2, <1>3, <1>4, <1>6 DEF HasMoved
  <2> QED
    BY <2>1
<1>10. IsMigrating(p)' => opening'[p].next \in DOMAIN Statements
  BY <1>2, <1>5 DEF IsMigrating, MovePlaces
<1> QED
  BY <1>3, <1>5, <1>8, <1>9, <1>10 DEF OpenerInv, MovePlaces

\* It keeps it when it is somewhere else within its statement, or has failed.
LEMMA GoneWithin ==
    ASSUME SchemaInv, NEW p \in Openers, NEW place \in {"altering", "looking", "copying", "dropping"},
           IsMigrating(p), OpeningGoes(p, place),
           UNCHANGED <<watched, schema, contested, outpaced>>,
           place = "altering" => /\ Todo(p).verb = "ensure"
                                 /\ ~ (Todo(p).columns \subseteq schema[Todo(p).table]),
           place \in MovePlaces => Todo(p).verb = "move",
           place = "looking" => Exists(ListTable),
           place \in {"copying", "dropping"} => (p \in contested \/ schema[ListTable] = {"id"}),
           place = "dropping" => itemIn' # {ListTable}
    PROVE  OpenerInv(p)'
<1>1. OpenerInv(p)
  BY DEF SchemaInv
<1>2. opening'[p].at = place /\ opening'[p].next = opening[p].next
  BY DEF OpeningGoes, SchemaInv
<1>3. IsMigrating(p)' /\ opening'[p].at # "open" /\ opening'[p].at # "failed"
  BY <1>2 DEF IsMigrating, MovePlaces
<1>4. opening[p].at # "open"
  BY DEF IsMigrating, MovePlaces
<1>5. Reached(p)' = Reached(p) /\ Todo(p)' = Todo(p) /\ Statements' = Statements
  BY <1>2, <1>3, <1>4 DEF Reached, Todo, Statements
<1>6. Keeps(p)'
  BY <1>1, <1>3, <1>4, <1>5 DEF OpenerInv, Keeps, Excused
<1>7. HasMoved(p)' => schema'[ListTable] # {"id"}
  BY <1>1, <1>5 DEF OpenerInv, HasMoved
<1> QED
  BY <1>1, <1>2, <1>3, <1>5, <1>6, <1>7 DEF OpenerInv, MovePlaces, Exists

LEMMA HasFailed ==
    ASSUME SchemaInv, NEW p \in Openers, OpenFails(p), p \in contested'
    PROVE  OpenerInv(p)'
<1>1. opening'[p].at = "failed"
  BY DEF OpenFails, OpeningAt, SchemaInv
<1> QED
  BY <1>1 DEF OpenerInv, IsMigrating, MovePlaces

\* Where a migrating opener is, and what the script's order says of it.
LEMMA AtAStatement ==
    ASSUME SchemaInv, NEW p \in Openers, IsMigrating(p)
    PROVE  LET s == Todo(p)
               brought == Brought(Statements, opening[p].next, s.table) IN
           /\ watched \in Watches
           /\ s.verb \in {"create", "ensure", "try", "use", "move"}
           /\ s.table \in watched /\ s.columns \subseteq Columns(s.table)
           /\ s.verb \in {"ensure", "try"} => "id" \in brought
           /\ s.verb = "use" => s.columns \subseteq brought
           /\ s.table = ListTable => s.verb \in {"create", "use", "move"}
           /\ (s.table = ListTable /\ s.verb = "create") => (s.columns = {"goal_id"} /\ HasMoved(p))
           /\ s.verb = "move" => (s.table = ListTable /\ brought = {})
<1> DEFINE n == opening[p].next
           s == Todo(p)
<1>1. watched \in Watches
  BY InAScript DEF IsMigrating, MovePlaces
<1>2. n \in DOMAIN Statements /\ n \in Nat
  BY PlacesOf DEF SchemaInv, OpenerInv
<1>3. s = Statements[n] /\ s = ScriptFor[watched][n] /\ n \in DOMAIN ScriptFor[watched]
  BY <1>2 DEF Todo, Statements
<1>4. /\ s.verb \in {"create", "ensure", "try", "use", "move"}
      /\ s.table \in watched /\ s.columns \subseteq Columns(s.table)
      /\ s.verb \in {"ensure", "try"} => "id" \in Brought(Statements, n, s.table)
      /\ s.verb = "use" => s.columns \subseteq Brought(Statements, n, s.table)
      /\ s.table = ListTable => s.verb \in {"create", "use", "move"}
      /\ (s.table = ListTable /\ s.verb = "create") =>
            /\ s.columns = {"goal_id"}
            /\ \E j \in 1 .. (n - 1) : Statements[j].verb = "move"
      /\ s.verb = "move" => s.table = ListTable /\ Brought(Statements, n, ListTable) = {}
  BY <1>1, <1>3, OrderedStatement DEF Statements
<1>5. Reached(p) = n
  BY DEF Reached, IsMigrating, MovePlaces
<1>6. DOMAIN Statements = 1 .. Len(Statements) /\ Len(Statements) \in Nat
  BY <1>1, ScriptIsASequence DEF Statements
<1>7. (\E j \in 1 .. (n - 1) : Statements[j].verb = "move") => HasMoved(p)
  BY <1>2, <1>5, <1>6 DEF HasMoved
<1> QED
  BY <1>1, <1>4, <1>7

\* What a migrating opener has behind it.
LEMMA BehindIt ==
    ASSUME SchemaInv, NEW p \in Openers, IsMigrating(p), NEW t \in watched
    PROVE  \/ Brought(Statements, opening[p].next, t) \subseteq schema[t]
           \/ (t = ListTable /\ outpaced /\ p \in contested)
<1>1. Reached(p) = opening[p].next /\ opening[p].at # "open"
  BY DEF Reached, IsMigrating, MovePlaces
<1> QED
  BY <1>1 DEF SchemaInv, OpenerInv, Keeps, Excused

LEMMA MovedBehindIt ==
    ASSUME SchemaInv, NEW p \in Openers, IsMigrating(p), HasMoved(p)
    PROVE  schema[ListTable] # {"id"}
BY DEF SchemaInv, OpenerInv

LEMMA TablesAre ==
    ASSUME SchemaInv, NEW t \in watched
    PROVE  /\ schema[t] \subseteq Columns(t) /\ (schema[t] = {} \/ "id" \in schema[t])
           /\ t = ListTable => (schema[t] \in {{}, {"id"}} \/ "goal_id" \in schema[t])
           /\ DOMAIN schema = watched
BY DEF SchemaInv, TablesInv, Exists

\* The others, when a step leaves the tables alone.
LEMMA OthersRest ==
    ASSUME SchemaInv, NEW p \in Openers, UNCHANGED <<watched, schema, outpaced>>,
           \A q \in Openers \ {p} : opening'[q] = opening[q] /\ (q \in contested <=> q \in contested'),
           itemIn # {ListTable} => itemIn' # {ListTable}
    PROVE  \A q \in Openers \ {p} : OpenerInv(q)'
<1> SUFFICES ASSUME NEW q \in Openers \ {p}
             PROVE  OpenerInv(q)'
  OBVIOUS
<1>1. opening[q].at = "failed" => q \in contested'
  BY DEF SchemaInv, OpenerInv
<1> QED
  BY <1>1, OthersGrow

LEMMA TablesRest ==
    ASSUME SchemaInv, UNCHANGED <<watched, schema>>
    PROVE  TablesInv'
BY DEF SchemaInv, TablesInv, Exists

LEMMA OpensInv ==
    ASSUME SchemaInv, NEW p \in Openers, Opens(p)
    PROVE  SchemaInv'
<1>1. watched \in Watches /\ watched' = watched /\ schema' = schema
  BY DEF Opens, SchemaInv
<1>2. /\ opening' \in [Openers -> [at : OpeningPlaces, next : Nat]]
      /\ \A q \in Openers \ {p} : opening'[q] = opening[q]
      /\ opening'[p] = OpeningAt("running", 1)
  BY DEF Opens, SchemaInv, OpeningAt, OpeningPlaces
<1>3. opening'[p].at = "running" /\ opening'[p].next = 1
  BY <1>2 DEF OpeningAt
<1>4. OpenerInv(p)'
  <2>1. 1 \in DOMAIN Statements'
    BY <1>1, ScriptIsASequence DEF Statements
  <2>2. Reached(p)' = 1
    BY <1>3 DEF Reached
  <2>3. Keeps(p)'
    BY <2>2, NothingBrought DEF Keeps
  <2>4. ~HasMoved(p)'
    <3>1. DOMAIN Statements' = 1 .. Len(Statements') /\ Len(Statements') \in Nat
      BY <1>1, ScriptIsASequence DEF Statements
    <3> QED
      BY <2>2, <3>1 DEF HasMoved
  <2> QED
    BY <1>3, <2>1, <2>3, <2>4 DEF OpenerInv, MovePlaces
<1>5. \A q \in Openers \ {p} : OpenerInv(q)'
  BY <1>2, OthersRest DEF Opens
<1>6. TablesInv'
  BY <1>1, TablesRest
<1> QED
  BY <1>1, <1>2, <1>4, <1>5, <1>6 DEF Opens, SchemaInv

LEMMA OpenerEndsInv ==
    ASSUME SchemaInv, NEW p \in Openers, OpenerEnds(p)
    PROVE  SchemaInv'
<1>1. watched \in Watches /\ watched' = watched /\ schema' = schema
  BY InAScript DEF OpenerEnds
<1>2. /\ opening' \in [Openers -> [at : OpeningPlaces, next : Nat]]
      /\ \A q \in Openers \ {p} : opening'[q] = opening[q]
      /\ opening'[p] = NotOpening
  BY DEF OpenerEnds, SchemaInv, OpeningAt, NotOpening, OpeningPlaces
<1>3. OpenerInv(p)'
  <2>1. opening'[p].at = "closed"
    BY <1>2 DEF NotOpening, OpeningAt
  <2> QED
    BY <2>1 DEF OpenerInv, IsMigrating, MovePlaces
<1>4. \A q \in Openers \ {p} : OpenerInv(q)'
  BY <1>2, OthersRest DEF OpenerEnds
<1>5. TablesInv'
  BY <1>1, TablesRest
<1> QED
  BY <1>1, <1>2, <1>3, <1>4, <1>5 DEF OpenerEnds, SchemaInv

LEMMA WritesGoalTaskInv ==
    ASSUME SchemaInv, NEW p \in Openers, WritesGoalTask(p)
    PROVE  SchemaInv'
<1>1. watched' = watched /\ schema' = schema /\ watched \in Watches
  BY InAScript DEF WritesGoalTask
<1>2. \A q \in Openers \ {p} : OpenerInv(q)'
  BY OthersRest DEF WritesGoalTask
<1>3. OpenerInv(p)'
  <2>1. OpenerInv(p)
    BY DEF SchemaInv
  <2> QED
    BY <2>1 DEF WritesGoalTask, OpenerInv, IsMigrating, Keeps, Excused, HasMoved, Reached, Statements,
                Todo, Exists, MovePlaces
<1>4. TablesInv'
  BY <1>1, TablesRest
<1> QED
  BY <1>1, <1>2, <1>3, <1>4 DEF WritesGoalTask, SchemaInv, ListTable

\* What is left to show of a step that changes no table.
LEMMA StepsWithin ==
    ASSUME SchemaInv, NEW p \in Openers, watched \in Watches, watched # {},
           UNCHANGED <<watched, schema, contested, written, outpaced>>,
           opening' \in [Openers -> [at : OpeningPlaces, next : Nat]],
           \A q \in Openers \ {p} : opening'[q] = opening[q],
           itemIn' \subseteq {ListTable, "agent_tasklist_items"},
           itemIn # {ListTable} => itemIn' # {ListTable},
           OpenerInv(p)'
    PROVE  SchemaInv'
<1>1. \A q \in Openers \ {p} : OpenerInv(q)'
  BY OthersRest
<1>2. TablesInv'
  BY TablesRest
<1> QED
  BY <1>1, <1>2 DEF SchemaInv

LEMMA OpeningStays ==
    ASSUME SchemaInv, NEW p \in Openers,
           \/ GoesOn(p) \/ OpenFails(p)
           \/ \E place \in {"altering", "looking", "copying", "dropping"} : OpeningGoes(p, place)
    PROVE  /\ opening' \in [Openers -> [at : OpeningPlaces, next : Nat]]
           /\ \A q \in Openers \ {p} : opening'[q] = opening[q]
<1>1. CASE GoesOn(p)
  BY <1>1 DEF GoesOn, SchemaInv, OpeningAt, OpeningPlaces
<1>2. CASE OpenFails(p)
  BY <1>2 DEF OpenFails, SchemaInv, OpeningAt, OpeningPlaces
<1>3. ASSUME NEW place \in {"altering", "looking", "copying", "dropping"}, OpeningGoes(p, place)
      PROVE  /\ opening' \in [Openers -> [at : OpeningPlaces, next : Nat]]
             /\ \A q \in Openers \ {p} : opening'[q] = opening[q]
  BY <1>3 DEF OpeningGoes, SchemaInv, OpeningPlaces
<1> QED
  BY <1>1, <1>2, <1>3

LEMMA LooksUpColumnInv ==
    ASSUME SchemaInv, NEW p \in Openers, LooksUpColumn(p)
    PROVE  SchemaInv'
<1> DEFINE s == Todo(p)
<1>1. IsMigrating(p)
  BY DEF LooksUpColumn, IsMigrating
<1>2. watched \in Watches /\ watched # {} /\ s.table \in watched /\ s.table # ListTable
  BY <1>1, AtAStatement DEF LooksUpColumn
<1>3. OpenerInv(p)'
  <2>1. CASE s.columns \subseteq schema[s.table]
    <3>1. GoesOn(p) /\ UNCHANGED <<watched, schema, contested, outpaced>>
      BY <2>1 DEF LooksUpColumn
    <3>2. Brings(s) = s.columns /\ s.verb = "ensure"
      BY DEF LooksUpColumn, Brings
    <3>3. \A t \in watched : \/ Brought(Statements, opening[p].next, t) \subseteq schema'[t]
                              \/ (t = ListTable /\ outpaced' /\ p \in contested')
      BY <1>1, <3>1, BehindIt
    <3>4. (HasMoved(p) \/ s.verb = "move") => schema'[ListTable] # {"id"}
      BY <1>1, <3>1, <3>2, MovedBehindIt
    <3>5. Brings(s) \subseteq schema'[s.table]
      BY <2>1, <3>1, <3>2
    <3> HIDE DEF s
    <3> QED
      BY <1>1, <3>1, <3>3, <3>4, <3>5, GoneOn DEF s
  <2>2. CASE ~ (s.columns \subseteq schema[s.table])
    <3>1. OpeningGoes(p, "altering") /\ UNCHANGED <<watched, schema, contested, outpaced>>
      BY <2>2 DEF LooksUpColumn
    <3> QED
      BY <1>1, <2>2, <3>1, GoneWithin DEF LooksUpColumn, MovePlaces
  <2> QED
    BY <2>1, <2>2
<1>4. /\ opening' \in [Openers -> [at : OpeningPlaces, next : Nat]]
      /\ \A q \in Openers \ {p} : opening'[q] = opening[q]
  BY OpeningStays DEF LooksUpColumn
<1>5. itemIn \subseteq {ListTable, "agent_tasklist_items"}
  BY DEF SchemaInv
<1> QED
  BY <1>2, <1>3, <1>4, <1>5, StepsWithin DEF LooksUpColumn

\* An opener that goes on within the move, or past it when the list is not the
\* old one.
LEMMA GoneOnPastTheMove ==
    ASSUME SchemaInv, NEW p \in Openers, IsMigrating(p), Todo(p).verb = "move",
           GoesOn(p), UNCHANGED <<watched, schema, contested, outpaced>>, schema[ListTable] # {"id"}
    PROVE  OpenerInv(p)'
<1>1. Brings(Todo(p)) = {}
  BY DEF Brings
<1>2. \A t \in watched : \/ Brought(Statements, opening[p].next, t) \subseteq schema'[t]
                          \/ (t = ListTable /\ outpaced' /\ p \in contested')
  BY BehindIt
<1> QED
  BY <1>1, <1>2, GoneOn

LEMMA LooksForOldListInv ==
    ASSUME SchemaInv, NEW p \in Openers, LooksForOldList(p)
    PROVE  SchemaInv'
<1>1. IsMigrating(p) /\ Todo(p).verb = "move"
  BY DEF LooksForOldList, IsMigrating
<1>2. watched \in Watches /\ watched # {} /\ ListTable \in watched
  BY <1>1, AtAStatement
<1>3. OpenerInv(p)'
  <2>1. CASE Exists(ListTable)
    <3>1. OpeningGoes(p, "looking")
      BY <2>1 DEF LooksForOldList, ListTable
    <3> QED
      BY <1>1, <2>1, <3>1, GoneWithin DEF LooksForOldList
  <2>2. CASE ~Exists(ListTable)
    <3>1. GoesOn(p)
      BY <2>2 DEF LooksForOldList, ListTable
    <3> QED
      BY <1>1, <2>2, <3>1, GoneOnPastTheMove DEF LooksForOldList, Exists
  <2> QED
    BY <2>1, <2>2
<1>4. /\ opening' \in [Openers -> [at : OpeningPlaces, next : Nat]]
      /\ \A q \in Openers \ {p} : opening'[q] = opening[q]
  BY OpeningStays DEF LooksForOldList
<1>5. itemIn \subseteq {ListTable, "agent_tasklist_items"}
  BY DEF SchemaInv
<1> QED
  BY <1>2, <1>3, <1>4, <1>5, StepsWithin DEF LooksForOldList

LEMMA ChecksOldListInv ==
    ASSUME SchemaInv, NEW p \in Openers, ChecksOldList(p)
    PROVE  SchemaInv'
<1>1. IsMigrating(p) /\ Todo(p).verb = "move"
  BY DEF ChecksOldList, IsMigrating, SchemaInv, OpenerInv, MovePlaces
<1>2. watched \in Watches /\ watched # {} /\ ListTable \in watched
  BY <1>1, AtAStatement
<1>3. OpenerInv(p)'
  <2>1. CASE "goal_id" \in schema[ListTable]
    <3>1. GoesOn(p)
      BY <2>1 DEF ChecksOldList, ListTable
    <3>2. schema[ListTable] # {"id"}
      BY <2>1
    <3> QED
      BY <1>1, <3>1, <3>2, GoneOnPastTheMove DEF ChecksOldList
  <2>2. CASE "goal_id" \notin schema[ListTable]
    <3>1. OpeningGoes(p, "copying")
      BY <2>2 DEF ChecksOldList, ListTable
    <3>2. p \in contested \/ Exists(ListTable)
      BY DEF ChecksOldList, SchemaInv, OpenerInv
    <3>3. p \in contested \/ schema[ListTable] = {"id"}
      BY <1>2, <2>2, <3>2, TablesAre DEF Exists
    <3> QED
      BY <1>1, <3>1, <3>3, GoneWithin DEF ChecksOldList
  <2> QED
    BY <2>1, <2>2
<1>4. /\ opening' \in [Openers -> [at : OpeningPlaces, next : Nat]]
      /\ \A q \in Openers \ {p} : opening'[q] = opening[q]
  BY OpeningStays DEF ChecksOldList
<1>5. itemIn \subseteq {ListTable, "agent_tasklist_items"}
  BY DEF SchemaInv
<1> QED
  BY <1>2, <1>3, <1>4, <1>5, StepsWithin DEF ChecksOldList

LEMMA CopiesItemsInv ==
    ASSUME SchemaInv, NEW p \in Openers, CopiesItems(p)
    PROVE  SchemaInv'
<1>1. IsMigrating(p) /\ Todo(p).verb = "move"
  BY DEF CopiesItems, IsMigrating, SchemaInv, OpenerInv, MovePlaces
<1>2. watched \in Watches /\ watched # {} /\ ListTable \in watched
  BY <1>1, AtAStatement
<1>3. itemIn' \subseteq {ListTable, "agent_tasklist_items"} /\ (itemIn # {ListTable} => itemIn' # {ListTable})
  <2>1. itemIn \subseteq {ListTable, "agent_tasklist_items"}
    BY DEF SchemaInv
  <2>2. itemIn' = itemIn \/ itemIn' = itemIn \cup {"agent_tasklist_items"}
    BY DEF CopiesItems
  <2>3. ListTable # "agent_tasklist_items"
    BY DEF ListTable
  <2> QED
    BY <2>1, <2>2, <2>3
<1>4. OpenerInv(p)'
  <2>1. CASE schema[ListTable] = {"id"}
    <3>1. OpeningGoes(p, "dropping")
      BY <2>1 DEF CopiesItems, ListTable
    <3>2. itemIn' # {ListTable}
      <4>1. itemIn' = IF ListTable \in itemIn THEN itemIn \cup {"agent_tasklist_items"} ELSE itemIn
        BY <2>1 DEF CopiesItems, ListTable
      <4>2. ListTable # "agent_tasklist_items"
        BY DEF ListTable
      <4> QED
        BY <4>1, <4>2
    <3> QED
      BY <1>1, <2>1, <3>1, <3>2, GoneWithin DEF CopiesItems
  <2>2. CASE schema[ListTable] # {"id"}
    <3>1. OpenFails(p)
      BY <2>2 DEF CopiesItems, ListTable
    <3>2. p \in contested
      BY <2>2 DEF CopiesItems, SchemaInv, OpenerInv
    <3> QED
      BY <3>1, <3>2, HasFailed DEF CopiesItems
  <2> QED
    BY <2>1, <2>2
<1>5. /\ opening' \in [Openers -> [at : OpeningPlaces, next : Nat]]
      /\ \A q \in Openers \ {p} : opening'[q] = opening[q]
  BY OpeningStays DEF CopiesItems
<1> QED
  BY <1>2, <1>3, <1>4, <1>5, StepsWithin DEF CopiesItems

LEMMA Altered ==
    ASSUME SchemaInv, NEW p \in Openers, NEW t \in watched, NEW columns, Alters(p, t, columns)
    PROVE  /\ schema'[t] = columns /\ DOMAIN schema' = watched
           /\ \A u \in watched \ {t} : schema'[u] = schema[u]
           /\ columns = schema[t] => schema' = schema
           /\ contested \subseteq contested' /\ (p \in contested' => p \in contested)
           /\ contested' \subseteq Openers
           /\ columns # schema[t] => \A q \in Openers \ {p} : IsMigrating(q) => q \in contested'
<1>1. DOMAIN schema = watched /\ schema = [u \in watched |-> schema[u]]
  BY DEF SchemaInv, TablesInv
<1>2. schema' = [schema EXCEPT ![t] = columns]
  BY DEF Alters
<1>3. /\ contested' = IF columns = schema[t] THEN contested
                      ELSE contested \cup {q \in Openers \ {p} : Migrating(q)}
      /\ contested \subseteq Openers
  BY DEF Alters, SchemaInv
<1>4. \A q : IsMigrating(q) => Migrating(q)
  BY DEF IsMigrating, MovePlaces, Migrating
<1>5. schema'[t] = columns /\ DOMAIN schema' = watched /\ \A u \in watched \ {t} : schema'[u] = schema[u]
  BY <1>1, <1>2
<1>6. columns = schema[t] => schema' = schema
  BY <1>1, <1>2
<1> QED
  BY <1>3, <1>4, <1>5, <1>6

\* What is left to show of a step in which a table grows or stays.
LEMMA StepsGrow ==
    ASSUME SchemaInv, NEW p \in Openers, NEW t \in watched, NEW columns, Alters(p, t, columns),
           UNCHANGED <<watched, itemIn, written, outpaced>>,
           schema[t] \subseteq columns, columns \subseteq Columns(t),
           columns = schema[t] \/ "id" \in columns,
           t = ListTable => (columns = schema[t] \/ "goal_id" \in columns),
           opening' \in [Openers -> [at : OpeningPlaces, next : Nat]],
           \A q \in Openers \ {p} : opening'[q] = opening[q],
           OpenerInv(p)'
    PROVE  SchemaInv'
<1> DEFINE old == schema
<1>1. /\ schema'[t] = columns /\ DOMAIN schema' = watched
      /\ \A u \in watched \ {t} : schema'[u] = schema[u]
      /\ columns = schema[t] => schema' = schema
      /\ contested \subseteq contested' /\ contested' \subseteq Openers
      /\ columns # schema[t] => \A q \in Openers \ {p} : IsMigrating(q) => q \in contested'
  BY Altered
<1>2. \A u \in watched : schema[u] \subseteq schema'[u]
  BY <1>1
<1>3. schema'[ListTable] = schema[ListTable] \/ "goal_id" \in schema'[ListTable]
  <2>1. CASE t = ListTable
    BY <1>1, <2>1
  <2>2. CASE t # ListTable /\ ListTable \in watched
    BY <1>1, <2>2
  <2>3. CASE t # ListTable /\ ListTable \notin watched
    BY <2>3 DEF Alters
  <2> QED
    BY <2>1, <2>2, <2>3
<1>4. ASSUME NEW q \in Openers \ {p}
      PROVE  OpenerInv(q)'
  <2>1. opening[q].at = "failed" => q \in contested'
    BY <1>1 DEF SchemaInv, OpenerInv
  <2>2. schema' = schema \/ (IsMigrating(q) => q \in contested')
    BY <1>1
  <2> QED
    BY <1>1, <1>2, <1>3, <2>1, <2>2, OthersGrow
<1>5. TablesInv'
  <2>1. ASSUME NEW u \in watched
        PROVE  /\ schema'[u] \subseteq Columns(u) /\ (schema'[u] = {} \/ "id" \in schema'[u])
    BY <1>1, TablesAre
  <2>2. schema' \in [watched -> SUBSET UNION {Columns(u) : u \in watched}]
    <3>1. schema' = [u \in watched |-> schema'[u]]
      BY DEF Alters, SchemaInv, TablesInv
    <3>2. \A u \in watched : schema'[u] \in SUBSET UNION {Columns(v) : v \in watched}
      BY <2>1
    <3> QED
      BY <3>1, <3>2
  <2>3. ListTable \in watched => (schema'[ListTable] \in {{}, {"id"}} \/ "goal_id" \in schema'[ListTable])
    BY <1>3, TablesAre
  <2> QED
    BY <2>1, <2>2, <2>3 DEF TablesInv, Exists
<1>6. written = "stored" => (outpaced \/ "goal_id" \in schema'[ListTable])
  BY <1>3 DEF SchemaInv
<1> QED
  BY <1>1, <1>4, <1>5, <1>6 DEF SchemaInv

LEMMA AddsColumnInv ==
    ASSUME SchemaInv, NEW p \in Openers, AddsColumn(p)
    PROVE  SchemaInv'
<1> DEFINE s == Todo(p)
           added == schema[s.table] \cup s.columns
<1>1. IsMigrating(p) /\ s.verb = "ensure"
  BY DEF AddsColumn, IsMigrating, SchemaInv, OpenerInv
<1>2. /\ watched \in Watches /\ watched # {} /\ s.table \in watched /\ s.table # ListTable
      /\ s.columns \subseteq Columns(s.table)
      /\ "id" \in Brought(Statements, opening[p].next, s.table)
  BY <1>1, AtAStatement
<1>3. "id" \in schema[s.table]
  BY <1>1, <1>2, BehindIt
<1>4. CASE s.columns \subseteq schema[s.table]
  <2>1. OpenFails(p) /\ UNCHANGED <<schema, contested, watched, itemIn, written, outpaced>>
    BY <1>4 DEF AddsColumn
  <2>2. p \in contested
    BY <1>4 DEF AddsColumn, SchemaInv, OpenerInv
  <2>3. OpenerInv(p)'
    BY <2>1, <2>2, HasFailed
  <2>4. /\ opening' \in [Openers -> [at : OpeningPlaces, next : Nat]]
        /\ \A q \in Openers \ {p} : opening'[q] = opening[q]
    BY <2>1, OpeningStays
  <2>5. itemIn \subseteq {ListTable, "agent_tasklist_items"}
    BY DEF SchemaInv
  <2> QED
    BY <1>2, <2>1, <2>3, <2>4, <2>5, StepsWithin
<1>5. CASE ~ (s.columns \subseteq schema[s.table])
  <2>1. Alters(p, s.table, added) /\ GoesOn(p) /\ UNCHANGED <<watched, itemIn, written, outpaced>>
    BY <1>3, <1>5 DEF AddsColumn, Exists
  <2>2. /\ schema'[s.table] = added
        /\ \A u \in watched \ {s.table} : schema'[u] = schema[u]
        /\ contested \subseteq contested'
    <3> HIDE DEF s, added
    <3> QED
      BY <1>2, <2>1, Altered
  <2>3. OpenerInv(p)'
    <3>1. Brings(s) \subseteq schema'[s.table]
      BY <1>1, <2>2 DEF Brings
    <3>2. \A t \in watched : \/ Brought(Statements, opening[p].next, t) \subseteq schema'[t]
                              \/ (t = ListTable /\ outpaced' /\ p \in contested')
      <4>1. \A t \in watched : schema[t] \subseteq schema'[t]
        BY <2>2
      <4> QED
        BY <1>1, <2>1, <2>2, <4>1, BehindIt
    <3>3. (HasMoved(p) \/ s.verb = "move") => schema'[ListTable] # {"id"}
      <4>1. schema'[ListTable] = schema[ListTable]
        <5>1. CASE ListTable \in watched
          BY <1>2, <2>2, <5>1
        <5>2. CASE ListTable \notin watched
          BY <1>2, <2>1, <5>2 DEF Alters
        <5> QED
          BY <5>1, <5>2
      <4> QED
        BY <1>1, <4>1, MovedBehindIt
    <3> HIDE DEF s, added
    <3> QED
      BY <1>1, <2>1, <2>2, <3>1, <3>2, <3>3, GoneOn DEF s
  <2>4. /\ opening' \in [Openers -> [at : OpeningPlaces, next : Nat]]
        /\ \A q \in Openers \ {p} : opening'[q] = opening[q]
    BY <2>1, OpeningStays
  <2>5. schema[s.table] \subseteq added /\ added \subseteq Columns(s.table) /\ "id" \in added
    BY <1>2, <1>3, TablesAre
  <2> HIDE DEF s, added
  <2> QED
    BY <1>2, <2>1, <2>3, <2>4, <2>5, StepsGrow
<1> QED
  BY <1>4, <1>5

LEMMA ExecutesInv ==
    ASSUME SchemaInv, NEW p \in Openers, Executes(p)
    PROVE  SchemaInv'
<1> DEFINE s == Todo(p)
           left == IF s.verb = "create" /\ ~Exists(s.table) THEN {"id"} \cup s.columns
                   ELSE IF s.verb = "try" /\ Exists(s.table) THEN schema[s.table] \cup s.columns
                   ELSE schema[s.table]
<1>1. IsMigrating(p) /\ s.verb \in {"create", "try", "use"} /\ opening[p].at = "running"
  BY DEF Executes, IsMigrating
<1>2. /\ watched \in Watches /\ watched # {} /\ s.table \in watched
      /\ s.columns \subseteq Columns(s.table)
      /\ s.verb = "try" => (s.table # ListTable /\ "id" \in Brought(Statements, opening[p].next, s.table))
      /\ s.verb = "use" => s.columns \subseteq Brought(Statements, opening[p].next, s.table)
      /\ (s.table = ListTable /\ s.verb = "create") => (s.columns = {"goal_id"} /\ HasMoved(p))
  BY <1>1, AtAStatement
<1>3. CASE s.verb = "use" /\ ~ (s.columns \subseteq schema[s.table])
  <2>1. OpenFails(p) /\ UNCHANGED <<schema, contested, watched, itemIn, written, outpaced>>
    BY <1>3 DEF Executes
  <2>2. p \in contested
    BY <1>1, <1>2, <1>3, BehindIt
  <2>3. OpenerInv(p)'
    BY <2>1, <2>2, HasFailed
  <2>4. /\ opening' \in [Openers -> [at : OpeningPlaces, next : Nat]]
        /\ \A q \in Openers \ {p} : opening'[q] = opening[q]
    BY <2>1, OpeningStays
  <2>5. itemIn \subseteq {ListTable, "agent_tasklist_items"}
    BY DEF SchemaInv
  <2> QED
    BY <1>2, <2>1, <2>3, <2>4, <2>5, StepsWithin
<1>4. CASE ~ (s.verb = "use" /\ ~ (s.columns \subseteq schema[s.table]))
  <2>1. Alters(p, s.table, left) /\ GoesOn(p) /\ UNCHANGED <<watched, itemIn, written, outpaced>>
    BY <1>4 DEF Executes
  <2>2. /\ schema'[s.table] = left
        /\ \A u \in watched \ {s.table} : schema'[u] = schema[u]
        /\ contested \subseteq contested'
    <3> HIDE DEF s, left
    <3> QED
      BY <1>2, <2>1, Altered
  <2>3. /\ schema[s.table] \subseteq left /\ left \subseteq Columns(s.table)
        /\ left = schema[s.table] \/ "id" \in left
        /\ s.table = ListTable => (left = schema[s.table] \/ "goal_id" \in left)
    <3>1. schema[s.table] \subseteq Columns(s.table) /\ (schema[s.table] = {} \/ "id" \in schema[s.table])
      BY <1>2, TablesAre
    <3> QED
      BY <1>2, <3>1, IdIsAColumn DEF Exists
  <2>4. Brings(s) \subseteq left
    <3>1. CASE s.verb = "create" /\ ~Exists(s.table)
      BY <3>1 DEF Brings
    <3>2. CASE s.verb = "create" /\ Exists(s.table)
      <4>1. "id" \in schema[s.table] /\ left = schema[s.table]
        BY <1>2, <3>2, TablesAre DEF Exists
      <4>2. CASE s.table # ListTable
        BY <3>2, <4>1, <4>2 DEF Brings, ListTable
      <4>3. CASE s.table = ListTable
        <5>1. schema[ListTable] # {"id"}
          BY <1>1, <1>2, <3>2, <4>3, MovedBehindIt
        <5>2. "goal_id" \in schema[ListTable] /\ s.columns = {"goal_id"}
          BY <1>2, <3>2, <4>3, <5>1, TablesAre DEF Exists
        <5> QED
          BY <3>2, <4>1, <4>3, <5>2 DEF Brings
      <4> QED
        BY <4>2, <4>3
    <3>3. CASE s.verb = "try"
      <4>1. "id" \in schema[s.table]
        BY <1>1, <1>2, <3>3, BehindIt
      <4> QED
        BY <3>3, <4>1 DEF Brings, Exists
    <3>4. CASE s.verb = "use"
      BY <3>4 DEF Brings
    <3> QED
      BY <1>1, <3>1, <3>2, <3>3, <3>4
  <2>5. (HasMoved(p) \/ s.verb = "move") => schema'[ListTable] # {"id"}
    <3>1. HasMoved(p) => schema[ListTable] # {"id"}
      BY <1>1, MovedBehindIt
    <3>2. CASE s.table = ListTable
      BY <1>1, <2>2, <2>3, <3>1, <3>2
    <3>3. CASE s.table # ListTable /\ ListTable \in watched
      BY <1>1, <2>2, <3>1, <3>3
    <3>4. CASE s.table # ListTable /\ ListTable \notin watched
      <4>1. schema'[ListTable] = schema[ListTable]
        BY <1>2, <2>1, <3>4 DEF Alters
      <4> QED
        BY <1>1, <3>1, <4>1
    <3> QED
      BY <3>2, <3>3, <3>4
  <2>6. \A t \in watched : \/ Brought(Statements, opening[p].next, t) \subseteq schema'[t]
                            \/ (t = ListTable /\ outpaced' /\ p \in contested')
    <3>1. \A t \in watched : schema[t] \subseteq schema'[t]
      BY <2>2, <2>3
    <3> QED
      BY <1>1, <2>1, <2>2, <3>1, BehindIt
  <2>7. /\ opening' \in [Openers -> [at : OpeningPlaces, next : Nat]]
        /\ \A q \in Openers \ {p} : opening'[q] = opening[q]
    BY <2>1, OpeningStays
  <2> HIDE DEF s, left
  <2>8. OpenerInv(p)'
    BY <1>1, <2>1, <2>2, <2>4, <2>5, <2>6, GoneOn DEF s
  <2> QED
    BY <1>2, <2>1, <2>3, <2>7, <2>8, StepsGrow
<1> QED
  BY <1>3, <1>4

LEMMA DropsOldListInv ==
    ASSUME SchemaInv, NEW p \in Openers, DropsOldList(p)
    PROVE  SchemaInv'
<1>1. IsMigrating(p) /\ Todo(p).verb = "move" /\ opening[p].at = "dropping"
  BY DEF DropsOldList, IsMigrating, SchemaInv, OpenerInv, MovePlaces
<1>2. watched \in Watches /\ watched # {} /\ ListTable \in watched /\ watched' = watched
  BY <1>1, AtAStatement DEF DropsOldList
<1>3. (p \in contested \/ schema[ListTable] = {"id"}) /\ itemIn # {ListTable}
  BY <1>1 DEF SchemaInv, OpenerInv
<1>4. CASE ~Exists(ListTable)
  <2>1. OpenFails(p) /\ UNCHANGED <<schema, contested, itemIn, written, outpaced>>
    BY <1>4 DEF DropsOldList, ListTable
  <2>2. p \in contested
    BY <1>3, <1>4 DEF Exists
  <2>3. OpenerInv(p)'
    BY <2>1, <2>2, HasFailed
  <2>4. /\ opening' \in [Openers -> [at : OpeningPlaces, next : Nat]]
        /\ \A q \in Openers \ {p} : opening'[q] = opening[q]
    BY <2>1, OpeningStays
  <2>5. itemIn \subseteq {ListTable, "agent_tasklist_items"}
    BY DEF SchemaInv
  <2> QED
    BY <1>2, <2>1, <2>3, <2>4, <2>5, StepsWithin
<1>5. CASE Exists(ListTable)
  <2> DEFINE none == {}
  <2>1. /\ Alters(p, ListTable, none) /\ GoesOn(p)
        /\ itemIn' = (IF itemIn = {ListTable} THEN {"lost"} ELSE itemIn \ {ListTable})
        /\ written' = (IF written = "stored" THEN "lost" ELSE written)
        /\ outpaced' = (outpaced \/ p \in contested)
    BY <1>5 DEF DropsOldList, ListTable
  <2>2. /\ schema'[ListTable] = none /\ DOMAIN schema' = watched
        /\ \A u \in watched \ {ListTable} : schema'[u] = schema[u]
        /\ contested \subseteq contested' /\ (p \in contested' => p \in contested)
        /\ contested' \subseteq Openers
        /\ none # schema[ListTable] => \A q \in Openers \ {p} : IsMigrating(q) => q \in contested'
    <3> HIDE DEF none
    <3> QED
      BY <1>2, <2>1, Altered
  <2>3. \A q \in Openers \ {p} : IsMigrating(q) => q \in contested'
    BY <1>5, <2>2 DEF Exists
  <2>4. /\ opening' \in [Openers -> [at : OpeningPlaces, next : Nat]]
        /\ \A q \in Openers \ {p} : opening'[q] = opening[q]
    BY <2>1, OpeningStays
  <2>5. outpaced \in BOOLEAN /\ outpaced' \in BOOLEAN
    BY <2>1 DEF SchemaInv
  <2>6. outpaced' \/ (schema[ListTable] = {"id"} /\ outpaced' = outpaced)
    <3>1. CASE p \in contested
      BY <2>1, <3>1
    <3>2. CASE p \notin contested
      <4>1. outpaced' = outpaced
        BY <2>1, <2>5, <3>2
      <4> QED
        BY <1>3, <3>2, <4>1
    <3> QED
      BY <3>1, <3>2
  <2>7. itemIn' = itemIn \ {ListTable}
    BY <1>3, <2>1
  <2>8. ASSUME NEW q \in Openers \ {p}
        PROVE  OpenerInv(q)'
    <3>1. itemIn' # {ListTable}
      BY <2>7
    <3>2. schema'[ListTable] = {} /\ (\A t \in watched \ {ListTable} : schema'[t] = schema[t])
      BY <2>2
    <3>3. (q \in contested => q \in contested') /\ (IsMigrating(q) => q \in contested')
      BY <2>2, <2>3
    <3> QED
      BY <1>2, <2>4, <2>6, <3>1, <3>2, <3>3, OthersSeeTheDrop
  <2>9. OpenerInv(p)'
    <3>1. Brings(Todo(p)) = {}
      BY <1>1 DEF Brings
    <3>2. ASSUME NEW t \in watched
          PROVE  \/ Brought(Statements, opening[p].next, t) \subseteq schema'[t]
                 \/ (t = ListTable /\ outpaced' /\ p \in contested')
      <4>1. CASE t = ListTable
        <5>1. Brought(Statements, opening[p].next, ListTable) = {}
          BY <1>1, AtAStatement
        <5> QED
          BY <4>1, <5>1
      <4>2. CASE t # ListTable
        BY <1>1, <2>2, <4>2, BehindIt
      <4> QED
        BY <4>1, <4>2
    <3>3. schema'[ListTable] # {"id"}
      BY <2>2
    <3>4. (p \in contested => p \in contested') /\ (outpaced => outpaced')
      BY <2>1, <2>2
    <3>5. Brings(Todo(p)) \subseteq schema'[Todo(p).table]
      BY <3>1
    <3> QED
      BY <1>1, <1>2, <2>1, <3>2, <3>3, <3>4, <3>5, GoneOn
  <2>10. TablesInv'
    <3>1. ASSUME NEW u \in watched
          PROVE  /\ schema'[u] \subseteq Columns(u) /\ (schema'[u] = {} \/ "id" \in schema'[u])
      BY <2>2, TablesAre
    <3>2. schema' \in [watched -> SUBSET UNION {Columns(u) : u \in watched}]
      <4>1. schema' = [u \in watched |-> schema'[u]]
        BY <2>1 DEF Alters, SchemaInv, TablesInv
      <4>2. \A u \in watched : schema'[u] \in SUBSET UNION {Columns(v) : v \in watched}
        BY <3>1
      <4> QED
        BY <4>1, <4>2
    <3>3. schema'[ListTable] = {}
      BY <2>2
    <3> QED
      BY <1>2, <3>1, <3>2, <3>3 DEF TablesInv, Exists
  <2>11. /\ itemIn' \subseteq {ListTable, "agent_tasklist_items"}
         /\ written' \in {"none", "stored", "lost"} /\ written' # "stored"
    BY <2>1, <2>7 DEF SchemaInv
  <2>12. written' = "lost" => outpaced'
    <3>1. CASE written = "stored"
      <4>1. outpaced \/ "goal_id" \in schema[ListTable]
        BY <3>1 DEF SchemaInv
      <4> QED
        BY <2>1, <2>6, <4>1
    <3>2. CASE written # "stored"
      BY <2>1, <3>2 DEF SchemaInv
    <3> QED
      BY <3>1, <3>2
  <2> QED
    BY <1>2, <2>2, <2>4, <2>5, <2>8, <2>9, <2>10, <2>11, <2>12 DEF SchemaInv
<1> QED
  BY <1>4, <1>5

LEMMA FindsDatabaseInv ==
    ASSUME SchemaInv, FindsDatabase
    PROVE  SchemaInv'
<1>1. /\ watched' \in Watches /\ watched = {}
      /\ \A t \in watched' : schema'[t] \in {{}, {"id"}, Columns(t)}
      /\ schema' = [t \in watched' |-> schema'[t]]
      /\ itemIn' = {t \in {ListTable} \cap watched' : schema'[t] = {"id"}}
      /\ UNCHANGED <<opening, contested, written, outpaced>>
  BY DEF FindsDatabase, ListTable
<1>2. \A p \in Openers : opening[p].at = "closed"
  BY <1>1 DEF SchemaInv
<1>3. \A p \in Openers : OpenerInv(p)'
  BY <1>1, <1>2 DEF OpenerInv, IsMigrating, MovePlaces
<1>4. TablesInv'
  <2>1. \A t \in watched' : schema'[t] \subseteq Columns(t) /\ (schema'[t] = {} \/ "id" \in schema'[t])
    BY <1>1, IdIsAColumn
  <2>2. schema' \in [watched' -> SUBSET UNION {Columns(u) : u \in watched'}]
    <3>1. \A u \in watched' : schema'[u] \in SUBSET UNION {Columns(v) : v \in watched'}
      BY <2>1
    <3> QED
      BY <1>1, <3>1
  <2>3. ListTable \in watched' => (schema'[ListTable] \in {{}, {"id"}} \/ "goal_id" \in schema'[ListTable])
    BY <1>1, GoalIdIsAColumn
  <2> QED
    BY <2>1, <2>2, <2>3 DEF TablesInv, Exists
<1>5. written = "none"
  BY <1>1 DEF SchemaInv
<1> QED
  BY <1>1, <1>2, <1>3, <1>4, <1>5 DEF SchemaInv

LEMMA SchemaInitInv == SchemaInit => SchemaInv
<1> SUFFICES ASSUME SchemaInit
             PROVE  SchemaInv
  OBVIOUS
<1>1. \A p \in Openers : opening[p].at = "closed"
  BY DEF SchemaInit, NotOpening, OpeningAt
<1>2. \A p \in Openers : OpenerInv(p)
  BY <1>1 DEF OpenerInv, IsMigrating, MovePlaces
<1>3. opening \in [Openers -> [at : OpeningPlaces, next : Nat]]
  BY DEF SchemaInit, NotOpening, OpeningAt, OpeningPlaces
<1>4. watched = {} /\ schema \in [watched -> SUBSET UNION {Columns(t) : t \in watched}]
  <2>1. watched = {} /\ DOMAIN schema = {} /\ schema = [t \in {} |-> schema[t]]
    BY DEF SchemaInit
  <2> QED
    BY <2>1
<1>5. TablesInv
  BY <1>4 DEF TablesInv
<1> QED
  BY <1>1, <1>2, <1>3, <1>5 DEF SchemaInit, SchemaInv

LEMMA SchemaStepInv == SchemaInv /\ [SchemaNext]_schemaVars => SchemaInv'
<1> SUFFICES ASSUME SchemaInv, [SchemaNext]_schemaVars
             PROVE  SchemaInv'
  OBVIOUS
<1>1. ASSUME NEW p \in Openers,
             \/ Opens(p) \/ OpenerEnds(p) \/ WritesGoalTask(p)
             \/ Executes(p) \/ LooksUpColumn(p) \/ AddsColumn(p)
             \/ LooksForOldList(p) \/ ChecksOldList(p) \/ CopiesItems(p) \/ DropsOldList(p)
      PROVE  SchemaInv'
  BY <1>1, OpensInv, OpenerEndsInv, WritesGoalTaskInv, ExecutesInv, LooksUpColumnInv, AddsColumnInv,
     LooksForOldListInv, ChecksOldListInv, CopiesItemsInv, DropsOldListInv
<1>2. CASE UNCHANGED schemaVars
  <2>1. UNCHANGED <<watched, schema, opening, contested, itemIn, written, outpaced>>
    BY <1>2 DEF schemaVars
  <2>2. TablesInv'
    BY <2>1, TablesRest
  <2>3. \A p \in Openers : OpenerInv(p)'
    BY <2>1 DEF SchemaInv, OpenerInv, IsMigrating, Keeps, Excused, HasMoved, Reached, Statements,
                Todo, Exists, MovePlaces
  <2> QED
    BY <2>1, <2>2, <2>3 DEF SchemaInv
<1> QED
  BY <1>1, <1>2, FindsDatabaseInv DEF SchemaNext

LEMMA WholeWhenOpen == SchemaInv => OpenedDatabasesAreWhole
<1> SUFFICES ASSUME SchemaInv
             PROVE  OpenedDatabasesAreWhole
  OBVIOUS
<1>1. ASSUME NEW p \in Openers, opening[p].at = "open", ~outpaced, NEW t \in watched
      PROVE  schema[t] = Columns(t)
  <2>1. watched \in Watches
    BY <1>1, InAScript
  <2>2. Columns(t) \subseteq Brought(Statements, Reached(p), t)
    BY <1>1, <2>1, EndOfScript DEF Reached, Statements
  <2>3. Brought(Statements, Reached(p), t) \subseteq schema[t]
    BY <1>1 DEF SchemaInv, OpenerInv, Keeps, Excused
  <2> QED
    BY <2>2, <2>3, TablesAre
<1>2. \A p \in Openers : opening[p].at = "failed" => p \in contested
  BY DEF SchemaInv, OpenerInv
<1>3. "lost" \notin itemIn /\ (outpaced \/ written # "lost")
  BY DEF SchemaInv, ListTable
<1> QED
  BY <1>1, <1>2, <1>3 DEF OpenedDatabasesAreWhole

\* Whatever version left the database and wherever migrations died, a process
\* that got its pool sees every table and column of its script, no item of the
\* old task list and no goal task is lost but by a DROP that comes late, and
\* opening fails only when another process changes the tables meanwhile.
THEOREM DatabasesAlwaysOpenWhole == SchemaSpec => []OpenedDatabasesAreWhole
<1> QED
  BY SchemaInitInv, SchemaStepInv, WholeWhenOpen, PTL DEF SchemaSpec

\* A process that is not in the script has no place in it.
RestsInv == \A p \in Openers : opening[p].at \in {"closed", "open", "failed"} => opening[p].next = 0

LEMMA PlaceOrRest ==
    ASSUME SchemaInv, RestsInv, NEW p \in Openers, NEW r,
           opening' = [opening EXCEPT ![p] = r],
           r.at \in {"closed", "open", "failed"} => r.next = 0
    PROVE  RestsInv'
BY DEF SchemaInv, RestsInv

LEMMA GoesOnRests ==
    ASSUME SchemaInv, RestsInv, NEW p \in Openers, GoesOn(p) \/ OpenFails(p)
    PROVE  RestsInv'
<1>1. PICK r \in {OpeningAt("open", 0), OpeningAt("running", opening[p].next + 1),
                  OpeningAt("failed", 0)} :
         opening' = [opening EXCEPT ![p] = r]
  <2>1. CASE GoesOn(p)
    BY <2>1 DEF GoesOn, SchemaInv
  <2>2. CASE OpenFails(p)
    BY <2>2 DEF OpenFails
  <2> QED
    BY <2>1, <2>2
<1>2. r.at \in {"closed", "open", "failed"} => r.next = 0
  BY DEF OpeningAt
<1> QED
  BY <1>1, <1>2, PlaceOrRest

LEMMA WithinRests ==
    ASSUME SchemaInv, RestsInv, NEW p \in Openers,
           NEW place \in {"altering", "looking", "copying", "dropping"}, OpeningGoes(p, place)
    PROVE  RestsInv'
BY DEF OpeningGoes, SchemaInv, RestsInv

LEMMA SchemaStepRests ==
    ASSUME SchemaInv, RestsInv, [SchemaNext]_schemaVars
    PROVE  RestsInv'
<1>1. ASSUME UNCHANGED opening PROVE RestsInv'
  BY <1>1 DEF RestsInv
<1>2. CASE UNCHANGED schemaVars
  BY <1>1, <1>2 DEF schemaVars
<1>3. CASE FindsDatabase
  BY <1>1, <1>3 DEF FindsDatabase
<1>4. ASSUME NEW p \in Openers, Opens(p) \/ OpenerEnds(p)
      PROVE  RestsInv'
  <2>1. PICK r \in {OpeningAt("running", 1), NotOpening} : opening' = [opening EXCEPT ![p] = r]
    BY <1>4 DEF Opens, OpenerEnds
  <2>2. r.at \in {"closed", "open", "failed"} => r.next = 0
    BY DEF OpeningAt, NotOpening
  <2> QED
    BY <2>1, <2>2, PlaceOrRest
<1>5. ASSUME NEW p \in Openers, WritesGoalTask(p)
      PROVE  RestsInv'
  BY <1>1, <1>5 DEF WritesGoalTask
<1>6. ASSUME NEW p \in Openers,
             \/ Executes(p) \/ LooksUpColumn(p) \/ AddsColumn(p)
             \/ LooksForOldList(p) \/ ChecksOldList(p) \/ CopiesItems(p) \/ DropsOldList(p)
      PROVE  RestsInv'
  <2>1. \/ GoesOn(p) \/ OpenFails(p)
        \/ \E place \in {"altering", "looking", "copying", "dropping"} : OpeningGoes(p, place)
    BY <1>6 DEF Executes, LooksUpColumn, AddsColumn, LooksForOldList, ChecksOldList, CopiesItems,
                DropsOldList
  <2> QED
    BY <2>1, GoesOnRests, WithinRests
<1> QED
  BY <1>2, <1>3, <1>4, <1>5, <1>6 DEF SchemaNext

LEMMA SchemaTypeCorrect == SchemaSpec => []SchemaTypeOK
<1>1. SchemaInit => RestsInv
  BY DEF SchemaInit, RestsInv, NotOpening, OpeningAt
<1>2. SchemaInv /\ RestsInv /\ [SchemaNext]_schemaVars => RestsInv'
  BY SchemaStepRests
<1>3. SchemaInv /\ RestsInv => SchemaTypeOK
  <2> SUFFICES ASSUME SchemaInv, RestsInv PROVE SchemaTypeOK
    OBVIOUS
  <2>1. ASSUME NEW p \in Openers
        PROVE  /\ opening[p].at \in OpeningPlaces
               /\ opening[p].next = 0 \/ opening[p].next \in DOMAIN ScriptFor[watched]
    <3>1. opening[p].at \in OpeningPlaces /\ (IsMigrating(p) => opening[p].next \in DOMAIN Statements)
      BY DEF SchemaInv, OpenerInv
    <3>2. IsMigrating(p) \/ opening[p].at \in {"closed", "open", "failed"}
      BY <3>1 DEF IsMigrating, MovePlaces, OpeningPlaces
    <3> QED
      BY <3>1, <3>2 DEF RestsInv, Statements
  <2>2. schema \in [watched -> SUBSET UNION {Columns(t) : t \in watched}]
    BY DEF SchemaInv, TablesInv
  <2>3. itemIn \subseteq {"agent_tasks", "agent_tasklist_items", "lost"}
    BY DEF SchemaInv, ListTable
  <2> QED
    BY <2>1, <2>2, <2>3 DEF SchemaInv, SchemaTypeOK
<1> QED
  BY <1>1, <1>2, <1>3, SchemaInitInv, SchemaStepInv, PTL DEF SchemaSpec

=============================================================================
