---------------------------- MODULE MemoryEntries ----------------------------
(***************************************************************************)
(* Long-term memory: the entries of one key in one scope and the chunks    *)
(* that the search reads (memory.rs), as the chat tools memory.set and     *)
(* memory.delete, the promotion of a memory candidate (chat/turns.rs), the *)
(* prompt of a turn (chat/prompt.rs) and the desktop's commands use them.  *)
(*                                                                         *)
(*   Entries   ids (UUIDs): an id that was handed out is not used again    *)
(*   Rememberers   calls of these functions that may be in flight at once  *)
(*   RecallLimit   entries a prompt takes from the search (5)              *)
(*                                                                         *)
(* An entry has one chunk, named after its id, which is written and        *)
(* deleted by statements of its own.  The vector of a chunk only ranks     *)
(* it: the search may put any entry first.  A text is known by the entry   *)
(* it was set for, and every query and scope is the one of the key.        *)
(***************************************************************************)
EXTENDS Integers, FiniteSets

CONSTANTS Entries, Rememberers, RecallLimit

VARIABLES
    entries,     \* entries[e]: status of the row, or that there is none
    chunks,      \* entries whose chunk is in memory_chunks
    recalling,   \* recalling[w]: what call w is in the middle of
    rivals,      \* history: ids of new entries whose sets overlapped
    mislaid,     \* history: ids whose row went as a duplicate or while another
                 \* call held them, or that were indexed during their delete
    overtaken,   \* ids that were put away while a prompt that has found
                 \* them is about to read them
    exposed      \* history: other ids a prompt showed although put away

rowVars == <<entries, chunks, rivals, mislaid>>
promptVars == <<overtaken, exposed>>
memoryVars == <<entries, chunks, recalling, rivals, mislaid, overtaken, exposed>>

LiveStatuses == {"active", "candidate", "archived", "quarantined"}
EntryStatuses == {"none", "deleted", "forgotten"} \cup LiveStatuses
RecallPlaces == {"idle", "inserting", "updating", "deduplicating", "indexing", "marking",
                 "cleaning", "deleting", "rebuilding", "listing", "fetching"}

\* held: ids the call remembers across its await points.
Recall(place, held) == [at |-> place, held |-> held]
NotRecalling == Recall("idle", {})

MemoryTypeOK ==
    /\ entries \in [Entries -> EntryStatuses]
    /\ chunks \subseteq Entries
    /\ recalling \in [Rememberers -> [at : RecallPlaces, held : SUBSET Entries]]
    /\ rivals \subseteq Entries
    /\ mislaid \subseteq Entries
    /\ overtaken \subseteq Entries
    /\ exposed \subseteq Entries

MemoryInit ==
    /\ entries = [e \in Entries |-> "none"]
    /\ chunks = {}
    /\ recalling = [w \in Rememberers |-> NotRecalling]
    /\ rivals = {}
    /\ mislaid = {}
    /\ overtaken = {}
    /\ exposed = {}

PutAway == {"forgotten", "archived", "quarantined"}
Rows == {e \in Entries : entries[e] \notin {"none", "deleted"}}
HeldBy(others) == UNION {recalling[w].held : w \in others}
HeldAt(place) == HeldBy({w \in Rememberers : recalling[w].at = place})
Unborn == HeldAt("inserting")
OvertakenBy(put) == overtaken' = (overtaken \cup put) \cap HeldAt("fetching")'
RecallGoes(w, place, held) == recalling' = [recalling EXCEPT ![w] = Recall(place, held)]
RecallFrom(w, from, place) ==
    recalling[w].at = from /\ RecallGoes(w, place, recalling[w].held)
RecallEnds(w) == recalling' = [recalling EXCEPT ![w] = NotRecalling]

---------------------------------------------------------------------------
\* set_with_scope_and_path.  write_gate makes the entry active or candidate.

\* Faulty: the SELECT looks at active entries only, as get does.
SetReadsActive(w, e) ==
    /\ recalling[w] = NotRecalling
    /\ \/ entries[e] = "active" /\ RecallGoes(w, "updating", {e}) /\ UNCHANGED rivals
       \/ /\ \A d \in Rows : entries[d] # "active"
          /\ entries[e] = "none" /\ e \notin Unborn
          /\ RecallGoes(w, "inserting", {e})
          /\ rivals' = IF Unborn = {} THEN rivals ELSE rivals \cup Unborn \cup {e}
    /\ UNCHANGED <<entries, chunks, mislaid>>

\* The SELECT: a row of any status, the latest by a time that is taken
\* before the first statement; or none, and a new id.
SetReads(w, e) ==
    /\ recalling[w] = NotRecalling
    /\ \/ e \in Rows /\ RecallGoes(w, "updating", {e}) /\ UNCHANGED rivals
       \/ /\ Rows = {}
          /\ entries[e] = "none" /\ e \notin Unborn
          /\ RecallGoes(w, "inserting", {e})
          /\ rivals' = IF Unborn = {} THEN rivals ELSE rivals \cup Unborn \cup {e}
    /\ UNCHANGED <<entries, chunks, mislaid>>

SetInserts(w) ==
    /\ RecallFrom(w, "inserting", "indexing")
    /\ \E e \in recalling[w].held, status \in {"active", "candidate"} :
          entries' = [entries EXCEPT ![e] = status]
    /\ UNCHANGED <<chunks, rivals, mislaid>>

\* An UPDATE by id: nothing says that the row is still there.
SetUpdates(w) ==
    /\ RecallFrom(w, "updating", "deduplicating")
    /\ \E status \in {"active", "candidate"} :
          entries' = [e \in Entries |-> IF e \in recalling[w].held \cap Rows THEN status
                                                                            ELSE entries[e]]
    /\ UNCHANGED <<chunks, rivals, mislaid>>

\* The DELETE of the other rows of the key takes no chunk along.
SetDeduplicates(w) ==
    /\ RecallFrom(w, "deduplicating", "indexing")
    /\ LET duplicates == Rows \ recalling[w].held IN
          /\ entries' = [e \in Entries |-> IF e \in duplicates THEN "deleted" ELSE entries[e]]
          /\ mislaid' = mislaid \cup duplicates
    /\ UNCHANGED <<chunks, rivals>>

\* index_memory_entry upserts the chunk of an entry as the call holds it; its
\* error is logged only.
Indexes(held) ==
    \/ UNCHANGED <<chunks, mislaid>>
    \/ /\ chunks' = chunks \cup held
       /\ mislaid' = mislaid \cup (held \cap HeldAt("deleting"))

SetIndexes(w) ==
    /\ recalling[w].at = "indexing"
    /\ RecallEnds(w)
    /\ Indexes(recalling[w].held)
    /\ UNCHANGED <<entries, rivals>>

SetStep(w) == SetInserts(w) \/ SetUpdates(w) \/ SetDeduplicates(w) \/ SetIndexes(w)

---------------------------------------------------------------------------
\* forget by key: one id of the key is read, all rows are marked, the chunk
\* of the one id is deleted.
ForgetReads(w, e) ==
    /\ recalling[w] = NotRecalling
    /\ e \in Rows /\ entries[e] # "forgotten"
    /\ RecallGoes(w, "marking", {e})
    /\ UNCHANGED <<entries, chunks, rivals, mislaid>>

ForgetMarks(w) ==
    /\ recalling[w].at = "marking"
    /\ LET marked == {e \in Rows : entries[e] # "forgotten"} IN
          /\ entries' = [e \in Entries |-> IF e \in marked THEN "forgotten" ELSE entries[e]]
          /\ IF marked = {} THEN RecallEnds(w)
                            ELSE RecallGoes(w, "cleaning", recalling[w].held)
          /\ OvertakenBy(marked)
    /\ UNCHANGED <<chunks, rivals, mislaid, exposed>>

\* cleanup_entry_chunks.
ForgetCleans(w) ==
    /\ recalling[w].at = "cleaning"
    /\ chunks' = chunks \ recalling[w].held
    /\ RecallEnds(w)
    /\ UNCHANGED <<entries, rivals, mislaid>>

\* update_status_by_id, and with it forget_by_id and the desktop's archive.
SetsStatus(e, status) ==
    /\ e \in Rows
    /\ entries' = [entries EXCEPT ![e] = status]
    /\ UNCHANGED <<chunks, recalling, rivals, mislaid, exposed>>
    /\ OvertakenBy(IF status \in PutAway THEN {e} ELSE {})

---------------------------------------------------------------------------
\* Faulty: only an active entry is taken to have a chunk.
DeletesActiveChunk(w, e) ==
    /\ recalling[w] = NotRecalling
    /\ entries[e] # "none"
    /\ chunks' = IF entries[e] = "active" THEN chunks \ {e} ELSE chunks
    /\ RecallGoes(w, "deleting", {e})
    /\ UNCHANGED <<entries, rivals, mislaid>>

\* delete_by_id: the chunk first, then the row.
DeletesChunk(w, e) ==
    /\ recalling[w] = NotRecalling
    /\ entries[e] # "none"
    /\ chunks' = chunks \ {e}
    /\ RecallGoes(w, "deleting", {e})
    /\ UNCHANGED <<entries, rivals, mislaid>>

DeletesRow(w) ==
    /\ recalling[w].at = "deleting"
    /\ LET gone == recalling[w].held \cap Rows IN
          /\ entries' = [e \in Entries |-> IF e \in gone THEN "deleted" ELSE entries[e]]
          /\ mislaid' = mislaid \cup (gone \cap HeldBy(Rememberers \ {w}))
    /\ RecallEnds(w)
    /\ UNCHANGED <<chunks, rivals>>

\* rebuild_embeddings: all chunks are deleted, the active entries are listed
\* and indexed one by one.
RebuildClears(w) ==
    /\ recalling[w] = NotRecalling
    /\ chunks' = {}
    /\ RecallGoes(w, "listing", {})
    /\ UNCHANGED <<entries, rivals, mislaid>>

RebuildLists(w) ==
    /\ recalling[w].at = "listing"
    /\ RecallGoes(w, "rebuilding", {e \in Rows : entries[e] = "active"})
    /\ UNCHANGED <<entries, chunks, rivals, mislaid>>

RebuildIndexes(w) ==
    /\ recalling[w].at = "rebuilding"
    /\ IF recalling[w].held = {} THEN RecallEnds(w) /\ UNCHANGED <<chunks, mislaid>>
       ELSE \E e \in recalling[w].held :
               /\ Indexes({e})
               /\ RecallGoes(w, "rebuilding", recalling[w].held \ {e})
    /\ UNCHANGED <<entries, rivals>>

---------------------------------------------------------------------------
\* search_memory_filtered: chunks whose entry is in use, or is not there.
Searchable == {e \in chunks : e \in Rows => entries[e] \notin PutAway}

\* recall_for_prompt_with_context: the best entries of the search, by id.
PromptSearches(w) ==
    /\ recalling[w] = NotRecalling
    /\ \E found \in SUBSET Searchable :
          /\ IF Cardinality(Searchable) > RecallLimit THEN Cardinality(found) = RecallLimit
                                                     ELSE found = Searchable
          /\ RecallGoes(w, "fetching", found)
    /\ UNCHANGED <<rowVars, promptVars>>

\* fetch_entry_by_id: a row of whatever status is shown; a missing one is left out.
PromptFetches(w) ==
    /\ recalling[w].at = "fetching"
    /\ IF recalling[w].held = {} THEN RecallEnds(w) /\ UNCHANGED promptVars
       ELSE \E e \in recalling[w].held :
               /\ RecallGoes(w, "fetching", recalling[w].held \ {e})
               /\ exposed' = IF e \in Rows \ overtaken /\ entries[e] \in PutAway
                             THEN exposed \cup {e} ELSE exposed
               /\ OvertakenBy({})
    /\ UNCHANGED rowVars

---------------------------------------------------------------------------
\* A call is dropped: its turn ran out of time, or the program ends.
RecallDies(w) ==
    /\ recalling[w] # NotRecalling
    /\ RecallEnds(w)
    /\ OvertakenBy({})
    /\ UNCHANGED <<rowVars, exposed>>

MemoryNext ==
    \/ \E w \in Rememberers :
          \/ /\ \/ \E e \in Entries : SetReads(w, e) \/ ForgetReads(w, e) \/ DeletesChunk(w, e)
                \/ SetStep(w) \/ ForgetCleans(w) \/ DeletesRow(w)
                \/ RebuildClears(w) \/ RebuildLists(w) \/ RebuildIndexes(w)
             /\ UNCHANGED promptVars
          \/ ForgetMarks(w)
          \/ PromptSearches(w) \/ PromptFetches(w)
          \/ RecallDies(w)
    \/ \E e \in Entries, status \in {"forgotten"} \cup LiveStatuses : SetsStatus(e, status)

MemorySpec == MemoryInit /\ [][MemoryNext]_memoryVars

---------------------------------------------------------------------------
(***************************************************************************)
(* A key has one row, whatever was forgotten, archived or deleted before:  *)
(* two rows are there only when the sets that inserted them overlapped and *)
(* both had read that there was none (memory.rs:561-690).  And a chunk has *)
(* a row: the search returns a chunk whose entry does not exist any more   *)
(* (memory.rs:2124, "ment.id IS NULL OR").  Such a chunk is left only when *)
(* the entry was removed as a duplicate, or when a set or a rebuild and    *)
(* the delete of the entry overlapped: a delete that dies half-way leaves  *)
(* the row, not the chunk (memory.rs:974-991, 608-622).  What the user put *)
(* away does not get into a prompt, but when he does it while the prompt   *)
(* is put together: the rows are read after the search, and whatever their *)
(* status (memory.rs:1564-1680).                                           *)
(***************************************************************************)
RowsAndChunksAgree ==
    /\ Cardinality(Rows) > 1 => Rows \subseteq rivals
    /\ chunks \subseteq Rows \cup mislaid
    /\ exposed = {}

=============================================================================
