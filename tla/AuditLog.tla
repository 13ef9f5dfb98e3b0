------------------------------- MODULE AuditLog -------------------------------
(***************************************************************************)
(* The hash-chained audit log (app/security/audit.py, the AuditRecord      *)
(* table of app/database/models.py) and the DELETE /audit route that       *)
(* clears it (app/api/routes.py).                                          *)
(*                                                                         *)
(* Every call records at most one entry, so an entry's content is the call *)
(* that recorded it; Forged is the content of a row changed behind the     *)
(* logger's back.  SHA-256 is taken to be free of collisions: the hash of  *)
(* an entry is the sequence of the contents it was computed over, and the  *)
(* genesis hash the empty one.  entries() and verify_chain() read the log  *)
(* and change nothing.                                                     *)
(***************************************************************************)
EXTENDS Naturals, Sequences

CONSTANTS
  Recorders,  \* calls to record(), by the orchestrator, the routes and authn
  Clearers,   \* DELETE /audit requests
  Forged,     \* what a tampered row says
  None        \* no call

Calls == Recorders \cup Clearers

ASSUME CallsAssumption == Recorders \cap Clearers = {}
ASSUME ForgedAssumption == Forged \notin Calls
ASSUME NoneAssumption == None \notin Calls

VARIABLES
  log,      \* the stored entries
  holder,   \* the call that holds the logger's lock
  prev,     \* the previous hash the holder has read
  pc,       \* where each call stands
  tampered  \* rows were changed since the log was last cleared

vars == << log, holder, prev, pc, tampered >>

Content == Calls \cup { Forged }
Digest  == Seq(Content)
Entry   == [content : Content, prev_hash : Digest, entry_hash : Digest]
Row(content, prev_hash, entry_hash) ==
  [content |-> content, prev_hash |-> prev_hash, entry_hash |-> entry_hash]

\* _hash and _GENESIS
Hash(digest, content) == Append(digest, content)
Genesis == << >>

TypeOK ==
  /\ log \in Seq(Entry)
  /\ holder \in Calls \cup { None }
  /\ prev \in Digest
  /\ pc \in [Calls -> { "idle", "cleared", "reading", "done", "lost" }]
  /\ tampered \in BOOLEAN

Init ==
  /\ log = << >>
  /\ holder = None
  /\ prev = Genesis
  /\ pc = [c \in Calls |-> "idle"]
  /\ tampered = FALSE

\* The hash the entry after position i must name.
HashBefore(i) == IF i = 1 THEN Genesis ELSE log[i - 1].entry_hash

\* A check that recomputes the hashes and does not follow the links.
MutSoundWithoutLinks(i) == log[i].entry_hash = Hash(log[i].prev_hash, log[i].content)

Sound(i) ==
  /\ log[i].prev_hash = HashBefore(i)
  /\ log[i].entry_hash = Hash(log[i].prev_hash, log[i].content)

\* _verify
Verify == \A i \in DOMAIN log : Sound(i)

-----------------------------------------------------------------------------
(* record(), under the lock, and clear() with the entry that follows it.   *)

\* Whose next step is to record: a recorder at once, a clearer once it cleared.
Ready(c) == pc[c] = IF c \in Clearers THEN "cleared" ELSE "idle"

\* A first entry chained to nothing rather than to the genesis hash.
MutReadLastNoGenesis(c) ==
  /\ Ready(c)
  /\ holder = None
  /\ holder' = c
  /\ prev' = IF log = << >> THEN None ELSE HashBefore(Len(log) + 1)
  /\ pc' = [pc EXCEPT ![c] = "reading"]
  /\ UNCHANGED << log, tampered >>

\* A record() that reads the last hash outside the lock.
MutReadLastUnlocked(c) ==
  /\ Ready(c)
  /\ holder' = c
  /\ prev' = HashBefore(Len(log) + 1)
  /\ pc' = [pc EXCEPT ![c] = "reading"]
  /\ UNCHANGED << log, tampered >>

\* Take the lock and read the last entry's hash ...
ReadLast(c) ==
  /\ Ready(c)
  /\ holder = None
  /\ holder' = c
  /\ prev' = HashBefore(Len(log) + 1)
  /\ pc' = [pc EXCEPT ![c] = "reading"]
  /\ UNCHANGED << log, tampered >>

\* ... append the entry, commit, and let the lock go.
AppendEntry(c) ==
  /\ pc[c] = "reading"
  /\ log' = Append(log, Row(c, prev, Hash(prev, c)))
  /\ holder' = None
  /\ pc' = [pc EXCEPT ![c] = "done"]
  /\ UNCHANGED << prev, tampered >>

\* A clearance that says nothing when there was nothing to clear.
MutClearSkipsEmpty(c) ==
  /\ c \in Clearers
  /\ pc[c] = "idle"
  /\ holder = None
  /\ log' = << >>
  /\ tampered' = FALSE
  /\ pc' = [pc EXCEPT ![c] = IF log = << >> THEN "done" ELSE "cleared"]
  /\ UNCHANGED << holder, prev >>

\* clear() drops every entry in one transaction.
Clear(c) ==
  /\ c \in Clearers
  /\ pc[c] = "idle"
  /\ holder = None
  /\ log' = << >>
  /\ tampered' = FALSE
  /\ pc' = [pc EXCEPT ![c] = "cleared"]
  /\ UNCHANGED << holder, prev >>

\* The process restarts: committed rows stay, the calls under way are gone.
Restart ==
  /\ \E c \in Calls : pc[c] \in { "cleared", "reading" }
  /\ pc' = [c \in Calls |-> IF pc[c] \in { "cleared", "reading" } THEN "lost"
                                                                 ELSE pc[c]]
  /\ holder' = None
  /\ UNCHANGED << log, prev, tampered >>

-----------------------------------------------------------------------------
(* Rows changed behind the logger's back, in the database file.            *)

Tamper(rows) ==
  /\ log' = rows
  /\ tampered' = TRUE
  /\ UNCHANGED << holder, prev, pc >>

\* Somebody edits what an entry says ...
EditContent(i) ==
  /\ log[i].content # Forged
  /\ Tamper([log EXCEPT ![i] = Row(Forged, @.prev_hash, @.entry_hash)])

\* ... or, but for the newest, its hash too ...
EditAndRehash(i) ==
  /\ i < Len(log)
  /\ Tamper([log EXCEPT ![i] = Row(Forged, @.prev_hash, Hash(@.prev_hash, Forged))])

\* ... or deletes one that others follow.
DeleteRow(i) ==
  /\ i < Len(log)
  /\ Tamper([j \in 1 .. Len(log) - 1 |-> IF j < i THEN log[j] ELSE log[j + 1]])

-----------------------------------------------------------------------------
LoggerStep ==
  \/ \E c \in Calls : ReadLast(c) \/ AppendEntry(c) \/ Clear(c)
  \/ Restart

TamperStep ==
  \E i \in DOMAIN log : EditContent(i) \/ EditAndRehash(i) \/ DeleteRow(i)

Next == LoggerStep \/ TamperStep

Spec == Init /\ [][Next]_vars

-----------------------------------------------------------------------------
(* Properties.                                                             *)

\* No false alarm: whatever records, clearances and restarts interleave, a
\* log nobody tampered with verifies.
ChainIntact == ~tampered => Verify

\* "Changing any historical row breaks the chain from that point on, which
\* verify_chain detects" (AuditRecord): once rows were changed, the log fails
\* to verify until it is cleared, whatever is recorded or changed after that.
TamperEvident == tampered => ~Verify

\* A clearance leaves its trace: after a DELETE /audit has answered, an
\* untampered log names one, unless another clearance has emptied it again
\* and is still to be recorded, or died in between.
ClearanceLeavesTrace ==
  (\E c \in Clearers : pc[c] = "done") /\ ~tampered =>
    \/ \E i \in DOMAIN log : log[i].content \in Clearers
    \/ \E c \in Clearers : pc[c] \in { "cleared", "reading", "lost" }

\* The inductive invariant behind ChainIntact and TamperEvident.  A genuine
\* row carries the hash of its content; the hashes grow along the log, so a
\* row can only be linked to the one it was recorded after; and no hash a
\* later row was linked to ends in a forged content.
EndsForged(digest) == digest # << >> /\ digest[Len(digest)] = Forged

RowsWellFormed ==
  \A i \in DOMAIN log :
    /\ log[i].content # Forged =>
         log[i].entry_hash = Hash(log[i].prev_hash, log[i].content)
    /\ Len(log[i].entry_hash) = Len(log[i].prev_hash) + 1
    /\ ~EndsForged(log[i].prev_hash)

HashesGrow ==
  \A i, j \in DOMAIN log :
    i < j => Len(log[i].prev_hash) < Len(log[j].prev_hash)

NewestIsGenuine == log # << >> => ~EndsForged(log[Len(log)].entry_hash)

HolderIsCurrent ==
  /\ \A c \in Calls : pc[c] = "reading" => holder = c
  /\ holder # None => prev = HashBefore(Len(log) + 1)

ChainInv ==
  /\ TypeOK
  /\ RowsWellFormed
  /\ HashesGrow
  /\ NewestIsGenuine
  /\ HolderIsCurrent
  /\ ChainIntact
  /\ TamperEvident
=============================================================================
