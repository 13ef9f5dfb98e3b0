---------------------------- MODULE AuditLogProofs ----------------------------
(***************************************************************************)
(* Proofs about AuditLog, for any set of recorders and clearers: the log   *)
(* verifies as long as nobody tampers with it, and a tampered log does not *)
(* verify until it is cleared.                                             *)
(***************************************************************************)
EXTENDS AuditLog, SequenceTheorems, TLAPS

\* A hash is longer than the one it extends and ends in the content hashed,
\* so it tells contents apart.
LEMMA HashFacts ==
  ASSUME NEW d \in Digest, NEW c \in Content
  PROVE  /\ Hash(d, c) \in Digest
         /\ Len(d) \in Nat
         /\ Len(Hash(d, c)) = Len(d) + 1
         /\ Hash(d, c) # << >>
         /\ Hash(d, c)[Len(Hash(d, c))] = c
BY DEF Digest, Hash

LEMMA RowFacts ==
  ASSUME NEW c \in Content, NEW p \in Digest, NEW h \in Digest
  PROVE  /\ Row(c, p, h) \in Entry
         /\ Row(c, p, h).content = c
         /\ Row(c, p, h).prev_hash = p
         /\ Row(c, p, h).entry_hash = h
BY DEF Row, Entry

LEMMA EntryFacts ==
  ASSUME NEW e \in Entry
  PROVE  /\ e.content \in Content
         /\ e.prev_hash \in Digest
         /\ e.entry_hash \in Digest
         /\ Len(e.prev_hash) \in Nat
         /\ Len(e.entry_hash) \in Nat
BY DEF Entry, Digest

\* What a log is made of.
LEMMA LogFacts ==
  ASSUME TypeOK
  PROVE  /\ log \in Seq(Entry)
         /\ Len(log) \in Nat
         /\ DOMAIN log = 1 .. Len(log)
         /\ \A i \in 1 .. Len(log) : log[i] \in Entry
BY LenProperties, ElementOfSeq DEF TypeOK

\* The hash to chain to is a hash.
LEMMA HashBeforeType ==
  ASSUME TypeOK, NEW i \in 1 .. Len(log) + 1
  PROVE  HashBefore(i) \in Digest
<1>1. CASE i = 1
  BY <1>1, EmptySeq DEF HashBefore, Genesis, Digest
<1>2. CASE i # 1
  <2>1. i - 1 \in 1 .. Len(log)
    BY <1>2, LogFacts
  <2>2. QED
    BY <1>2, <2>1, LogFacts, EntryFacts DEF HashBefore
<1>3. QED
  BY <1>1, <1>2

\* What the ways of changing rows leave: every action but these leaves the
\* log alone or empties it.
LEMMA AppendRows ==
  ASSUME TypeOK, NEW c \in Calls, AppendEntry(c)
  PROVE  /\ log' \in Seq(Entry)
         /\ Len(log') = Len(log) + 1
         /\ log'[Len(log) + 1] = Row(c, prev, Hash(prev, c))
         /\ \A i \in 1 .. Len(log) : log'[i] = log[i]
<1>1. c \in Content /\ prev \in Digest
  BY DEF TypeOK, Content
<1>2. Row(c, prev, Hash(prev, c)) \in Entry
  BY <1>1, HashFacts, RowFacts
<1>3. QED
  BY <1>2, LogFacts DEF AppendEntry

LEMMA ReplaceRow ==
  ASSUME TypeOK, NEW i \in DOMAIN log, NEW e \in Entry,
         log' = [log EXCEPT ![i] = e]
  PROVE  /\ log' \in Seq(Entry)
         /\ Len(log') = Len(log)
         /\ \A j \in 1 .. Len(log) : log'[j] = IF j = i THEN e ELSE log[j]
BY LogFacts, ExceptSeq

LEMMA RemoveRow ==
  ASSUME TypeOK, NEW i \in DOMAIN log, DeleteRow(i)
  PROVE  /\ log' \in Seq(Entry)
         /\ Len(log') = Len(log) - 1
         /\ \A j \in 1 .. Len(log) - 1 :
              log'[j] = IF j < i THEN log[j] ELSE log[j + 1]
<1> DEFINE n == Len(log) - 1
           s == [j \in 1 .. n |-> IF j < i THEN log[j] ELSE log[j + 1]]
<1>1. n \in Nat /\ log' = s
  BY LogFacts DEF DeleteRow, Tamper
<1>2. s \in [1 .. n -> Entry]
  BY <1>1, LogFacts
<1>3. s \in Seq(Entry) /\ Len(s) = n
  BY <1>1, <1>2, SeqDef, LenProperties
<1>4. QED
  BY <1>1, <1>3

-----------------------------------------------------------------------------
\* The type invariant is inductive.
LEMMA TypeInit == Init => TypeOK
BY EmptySeq DEF Init, TypeOK, Digest, Genesis

LEMMA TypeStep == TypeOK /\ [Next]_vars => TypeOK'
<1> SUFFICES ASSUME TypeOK, [Next]_vars PROVE TypeOK'
  OBVIOUS
<1>1. ASSUME NEW c \in Calls, ReadLast(c) PROVE TypeOK'
  <2>1. HashBefore(Len(log) + 1) \in Digest
    BY HashBeforeType, LogFacts
  <2>2. QED
    BY <1>1, <2>1 DEF ReadLast, TypeOK
<1>2. ASSUME NEW c \in Calls, AppendEntry(c) PROVE TypeOK'
  <2>1. log' \in Seq(Entry)
    BY <1>2, AppendRows
  <2>2. QED
    BY <1>2, <2>1 DEF AppendEntry, TypeOK
<1>3. ASSUME NEW c \in Calls, Clear(c) PROVE TypeOK'
  BY <1>3, EmptySeq DEF Clear, TypeOK
<1>4. CASE Restart
  BY <1>4 DEF Restart, TypeOK
<1>5. ASSUME NEW i \in DOMAIN log, EditContent(i) PROVE TypeOK'
  <2>1. Row(Forged, log[i].prev_hash, log[i].entry_hash) \in Entry
    BY LogFacts, EntryFacts, RowFacts DEF Content
  <2>2. QED
    BY <1>5, <2>1, ReplaceRow DEF EditContent, Tamper, TypeOK
<1>6. ASSUME NEW i \in DOMAIN log, EditAndRehash(i) PROVE TypeOK'
  <2>1. Row(Forged, log[i].prev_hash, Hash(log[i].prev_hash, Forged)) \in Entry
    BY LogFacts, EntryFacts, HashFacts, RowFacts DEF Content
  <2>2. QED
    BY <1>6, <2>1, ReplaceRow DEF EditAndRehash, Tamper, TypeOK
<1>7. ASSUME NEW i \in DOMAIN log, DeleteRow(i) PROVE TypeOK'
  BY <1>7, RemoveRow DEF DeleteRow, Tamper, TypeOK
<1>8. CASE UNCHANGED vars
  BY <1>8 DEF vars, TypeOK
<1>9. QED
  BY <1>1, <1>2, <1>3, <1>4, <1>5, <1>6, <1>7, <1>8
  DEF Next, LoggerStep, TamperStep

\* The log, the lock and the calls are always what their types say.
THEOREM TypeCorrect == Spec => []TypeOK
<1>1. Init => TypeOK
  BY TypeInit
<1>2. TypeOK /\ [Next]_vars => TypeOK'
  BY TypeStep
<1>3. QED
  BY <1>1, <1>2, PTL DEF Spec

-----------------------------------------------------------------------------
\* record() links its entry to the newest one, so a log that verified still
\* does, and one that did not still does not.
LEMMA AppendKeepsChain ==
  ASSUME ChainInv, NEW c \in Calls, AppendEntry(c)
  PROVE  ChainInv'
<1> DEFINE n == Len(log)
<1>1. /\ TypeOK /\ TypeOK'
      /\ holder = c /\ c # None
      /\ prev = HashBefore(n + 1)
      /\ c \in Content /\ c # Forged
      /\ prev \in Digest
  <2>1. TypeOK /\ TypeOK'
    BY TypeStep DEF ChainInv, Next, LoggerStep
  <2>2. holder = c /\ c # None /\ prev = HashBefore(n + 1)
    BY NoneAssumption DEF ChainInv, HolderIsCurrent, AppendEntry
  <2>3. QED
    BY <2>1, <2>2, ForgedAssumption DEF Content, TypeOK
<1>2. /\ n \in Nat /\ Len(log') = n + 1
      /\ DOMAIN log = 1 .. n /\ DOMAIN log' = 1 .. n + 1
      /\ log'[n + 1] = Row(c, prev, Hash(prev, c))
      /\ \A i \in 1 .. n : log'[i] = log[i] /\ log[i] \in Entry
  BY <1>1, LogFacts, AppendRows, LenProperties
<1>3. /\ log'[n + 1].content = c
      /\ log'[n + 1].prev_hash = prev
      /\ log'[n + 1].entry_hash = Hash(prev, c)
  BY <1>1, <1>2, HashFacts, RowFacts
<1>4. \A i \in 1 .. n + 1 : HashBefore(i)' = HashBefore(i)
  BY <1>2 DEF HashBefore
<1>5. n # 0 => prev = log[n].entry_hash /\ n \in 1 .. n
  BY <1>1, <1>2 DEF HashBefore
<1>6. ~EndsForged(prev)
  <2>1. CASE n = 0
    BY <1>1, <1>2, <2>1 DEF HashBefore, Genesis, EndsForged
  <2>2. CASE n # 0
    BY <1>2, <1>5, <2>2, EmptySeq DEF ChainInv, NewestIsGenuine
  <2>3. QED
    BY <2>1, <2>2
<1>7. RowsWellFormed'
  <2> SUFFICES ASSUME NEW i \in 1 .. n + 1
               PROVE  /\ log'[i].content # Forged =>
                           log'[i].entry_hash = Hash(log'[i].prev_hash, log'[i].content)
                      /\ Len(log'[i].entry_hash) = Len(log'[i].prev_hash) + 1
                      /\ ~EndsForged(log'[i].prev_hash)
    BY <1>2 DEF RowsWellFormed, Hash, EndsForged
  <2>1. CASE i = n + 1
    BY <1>1, <1>3, <1>6, <2>1, HashFacts
  <2>2. CASE i \in 1 .. n
    BY <1>2, <2>2 DEF ChainInv, RowsWellFormed
  <2>3. QED
    BY <1>2, <2>1, <2>2
<1>8. HashesGrow'
  <2>1. ASSUME NEW i \in 1 .. n PROVE Len(log[i].prev_hash) < Len(prev)
    <3>1. Len(prev) = Len(log[n].prev_hash) + 1
      BY <1>2, <1>5, <2>1 DEF ChainInv, RowsWellFormed
    <3>2. Len(log[i].prev_hash) <= Len(log[n].prev_hash)
      BY <1>2, <2>1, EntryFacts, SMTT(60) DEF ChainInv, HashesGrow
    <3>3. QED
      BY <1>2, <1>5, <2>1, <3>1, <3>2, EntryFacts
  <2>2. QED
    BY <1>2, <1>3, <2>1 DEF ChainInv, HashesGrow
<1>9. NewestIsGenuine'
  BY <1>1, <1>2, <1>3, HashFacts DEF NewestIsGenuine, EndsForged
<1>10. HolderIsCurrent'
  BY <1>1, NoneAssumption DEF ChainInv, HolderIsCurrent, AppendEntry, TypeOK
<1>11. ASSUME NEW i \in 1 .. n PROVE Sound(i)' <=> Sound(i)
  <2>1. log'[i] = log[i] /\ HashBefore(i)' = HashBefore(i)
    BY <1>2, <1>4
  <2>2. QED
    BY <2>1 DEF Sound, Hash
<1>12. ASSUME NEW i \in Nat, i = n + 1 PROVE Sound(i)'
  <2>1. /\ log'[i].prev_hash = HashBefore(i)'
        /\ log'[i].entry_hash = Append(log'[i].prev_hash, log'[i].content)
    BY <1>1, <1>2, <1>3, <1>4, <1>12 DEF Hash
  <2>2. QED
    BY <2>1 DEF Sound, Hash
<1>13. Verify' <=> Verify
  BY <1>2, <1>11, <1>12 DEF Verify
<1>14. QED
  BY <1>1, <1>7, <1>8, <1>9, <1>10, <1>13
  DEF ChainInv, ChainIntact, TamperEvident, AppendEntry

\* Changing rows leaves the newest hash, and with it what record() chains to.
LEMMA TamperKeepsNewest ==
  ASSUME ChainInv, TypeOK', log # << >>, log' # << >>,
         log'[Len(log')].entry_hash = log[Len(log)].entry_hash,
         UNCHANGED << holder, prev, pc >>
  PROVE  NewestIsGenuine' /\ HolderIsCurrent'
<1>1. Len(log) \in Nat \ { 0 } /\ Len(log') \in Nat \ { 0 }
  BY EmptySeq DEF ChainInv, TypeOK
<1>2. NewestIsGenuine'
  BY DEF ChainInv, NewestIsGenuine, EndsForged
<1>3. HashBefore(Len(log) + 1)' = HashBefore(Len(log) + 1)
  BY <1>1 DEF HashBefore
<1>4. HolderIsCurrent'
  BY <1>3 DEF ChainInv, HolderIsCurrent
<1>5. QED
  BY <1>2, <1>4

\* A row whose content is changed no longer carries its hash.
LEMMA EditIsEvident ==
  ASSUME ChainInv, NEW i \in DOMAIN log, EditContent(i)
  PROVE  ChainInv'
<1>1. /\ TypeOK /\ TypeOK'
      /\ tampered'
      /\ UNCHANGED << holder, prev, pc >>
  BY TypeStep DEF ChainInv, Next, TamperStep, EditContent, Tamper
<1>2. /\ Len(log) \in Nat /\ Len(log') = Len(log)
      /\ DOMAIN log = 1 .. Len(log) /\ DOMAIN log' = 1 .. Len(log)
      /\ i \in 1 .. Len(log)
      /\ \A j \in 1 .. Len(log) : log[j] \in Entry
  <2>1. Row(Forged, log[i].prev_hash, log[i].entry_hash) \in Entry
    BY <1>1, LogFacts, EntryFacts, RowFacts DEF Content
  <2>2. QED
    BY <1>1, <2>1, LogFacts, ReplaceRow, LenProperties DEF EditContent, Tamper
<1>3. /\ log'[i].content = Forged
      /\ log'[i].prev_hash = log[i].prev_hash
      /\ log'[i].entry_hash = log[i].entry_hash
      /\ \A j \in 1 .. Len(log) : j # i => log'[j] = log[j]
  <2>1. log[i].prev_hash \in Digest /\ log[i].entry_hash \in Digest
    BY <1>2, EntryFacts
  <2>2. log' = [log EXCEPT ![i] = Row(Forged, log[i].prev_hash, log[i].entry_hash)]
    BY DEF EditContent, Tamper
  <2>3. Forged \in Content
    BY DEF Content
  <2>4. QED
    BY <1>1, <1>2, <2>1, <2>2, <2>3, RowFacts, ReplaceRow
<1>4. RowsWellFormed'
  <2> SUFFICES ASSUME NEW j \in 1 .. Len(log)
               PROVE  /\ log'[j].content # Forged =>
                           log'[j].entry_hash = Append(log'[j].prev_hash, log'[j].content)
                      /\ Len(log'[j].entry_hash) = Len(log'[j].prev_hash) + 1
                      /\ ~EndsForged(log'[j].prev_hash)
    BY <1>2 DEF RowsWellFormed, Hash, EndsForged
  <2>1. QED
    BY <1>2, <1>3 DEF ChainInv, RowsWellFormed, Hash
<1>5. HashesGrow'
  BY <1>2, <1>3 DEF ChainInv, HashesGrow
<1>6. NewestIsGenuine' /\ HolderIsCurrent'
  <2>1. log # << >> /\ log' # << >>
    BY <1>2
  <2>2. log'[Len(log')].entry_hash = log[Len(log)].entry_hash
    BY <1>2, <1>3
  <2>3. QED
    BY <1>1, <2>1, <2>2, TamperKeepsNewest
<1>7. ~Verify'
  <2>1. log[i].entry_hash = Hash(log[i].prev_hash, log[i].content)
    BY <1>2 DEF ChainInv, RowsWellFormed, EditContent
  <2>2. /\ log[i].entry_hash[Len(log[i].entry_hash)] = log[i].content
        /\ Hash(log[i].prev_hash, Forged)[Len(log[i].entry_hash)] = Forged
    BY <1>2, <2>1, EntryFacts, HashFacts DEF Content
  <2>3. log'[i].entry_hash # Append(log'[i].prev_hash, log'[i].content)
    BY <1>3, <2>2 DEF EditContent, Hash
  <2>4. QED
    BY <1>2, <2>3 DEF Verify, Sound, Hash
<1>8. QED
  BY <1>1, <1>4, <1>5, <1>6, <1>7 DEF ChainInv, ChainIntact, TamperEvident

\* A row rehashed over a forged content is no longer what the next one names.
LEMMA RehashIsEvident ==
  ASSUME ChainInv, NEW i \in DOMAIN log, EditAndRehash(i)
  PROVE  ChainInv'
<1>1. /\ TypeOK /\ TypeOK'
      /\ tampered'
      /\ UNCHANGED << holder, prev, pc >>
  BY TypeStep DEF ChainInv, Next, TamperStep, EditAndRehash, Tamper
<1>2. /\ log[i].prev_hash \in Digest
      /\ Hash(log[i].prev_hash, Forged) \in Digest
      /\ Forged \in Content
  BY <1>1, LogFacts, EntryFacts, HashFacts DEF Content
<1>3. /\ Len(log) \in Nat /\ Len(log') = Len(log)
      /\ DOMAIN log = 1 .. Len(log) /\ DOMAIN log' = 1 .. Len(log)
      /\ i \in 1 .. Len(log) /\ i < Len(log)
      /\ \A j \in 1 .. Len(log) : log[j] \in Entry
  <2>1. Row(Forged, log[i].prev_hash, Hash(log[i].prev_hash, Forged)) \in Entry
    BY <1>2, RowFacts
  <2>2. QED
    BY <1>1, <2>1, LogFacts, ReplaceRow, LenProperties DEF EditAndRehash, Tamper
<1>4. /\ log'[i].content = Forged
      /\ log'[i].prev_hash = log[i].prev_hash
      /\ log'[i].entry_hash = Hash(log[i].prev_hash, Forged)
      /\ \A j \in 1 .. Len(log) : j # i => log'[j] = log[j]
  <2>1. log' = [log EXCEPT ![i] =
                  Row(Forged, log[i].prev_hash, Hash(log[i].prev_hash, Forged))]
    BY DEF EditAndRehash, Tamper
  <2>2. QED
    BY <1>1, <1>2, <1>3, <2>1, RowFacts, ReplaceRow
<1>5. RowsWellFormed'
  <2> SUFFICES ASSUME NEW j \in 1 .. Len(log)
               PROVE  /\ log'[j].content # Forged =>
                           log'[j].entry_hash = Append(log'[j].prev_hash, log'[j].content)
                      /\ Len(log'[j].entry_hash) = Len(log'[j].prev_hash) + 1
                      /\ ~EndsForged(log'[j].prev_hash)
    BY <1>3 DEF RowsWellFormed, Hash, EndsForged
  <2>1. Len(Hash(log[i].prev_hash, Forged)) = Len(log[i].prev_hash) + 1
    BY <1>2, HashFacts
  <2>2. CASE j = i
    BY <1>3, <1>4, <2>1, <2>2 DEF ChainInv, RowsWellFormed
  <2>3. CASE j # i
    BY <1>3, <1>4, <2>3 DEF ChainInv, RowsWellFormed, Hash
  <2>4. QED
    BY <2>2, <2>3
<1>6. HashesGrow'
  BY <1>3, <1>4 DEF ChainInv, HashesGrow
<1>7. NewestIsGenuine' /\ HolderIsCurrent'
  <2>1. log # << >> /\ log' # << >>
    BY <1>3
  <2>2. log'[Len(log')].entry_hash = log[Len(log)].entry_hash
    BY <1>3, <1>4
  <2>3. QED
    BY <1>1, <2>1, <2>2, TamperKeepsNewest
<1>8. ~Verify'
  <2>1. /\ i + 1 \in 1 .. Len(log) /\ i + 1 # 1 /\ i + 1 # i
        /\ (i + 1) - 1 = i
    BY <1>3
  <2>2. EndsForged(log'[i].entry_hash)
    BY <1>2, <1>4, HashFacts DEF EndsForged
  <2>3. ~EndsForged(log'[i + 1].prev_hash)
    BY <1>3, <1>4, <2>1 DEF ChainInv, RowsWellFormed
  <2>4. log'[i + 1].prev_hash # HashBefore(i + 1)'
    BY <2>1, <2>2, <2>3 DEF HashBefore
  <2>5. QED
    BY <1>3, <2>1, <2>4 DEF Verify, Sound
<1>9. QED
  BY <1>1, <1>5, <1>6, <1>7, <1>8 DEF ChainInv, ChainIntact, TamperEvident

\* After a deleted row comes one whose link is too long for its new place.
LEMMA DeletionIsEvident ==
  ASSUME ChainInv, NEW i \in DOMAIN log, DeleteRow(i)
  PROVE  ChainInv'
<1>1. /\ TypeOK /\ TypeOK'
      /\ tampered'
      /\ UNCHANGED << holder, prev, pc >>
  BY TypeStep, SMTT(60) DEF ChainInv, Next, TamperStep, DeleteRow, Tamper
<1>2. PICK n \in Nat : n = Len(log)
  BY <1>1, LogFacts
<1>3. /\ DOMAIN log = 1 .. n /\ i \in 1 .. n - 1
      /\ Len(log') = n - 1 /\ DOMAIN log' = 1 .. n - 1
      /\ \A j \in 1 .. n - 1 : log'[j] = IF j < i THEN log[j] ELSE log[j + 1]
      /\ \A j \in 1 .. n : log[j] \in Entry
  BY <1>1, <1>2, LogFacts, RemoveRow, LenProperties DEF DeleteRow
<1>4. RowsWellFormed'
  <2> SUFFICES ASSUME NEW j \in 1 .. n - 1
               PROVE  /\ log'[j].content # Forged =>
                           log'[j].entry_hash = Append(log'[j].prev_hash, log'[j].content)
                      /\ Len(log'[j].entry_hash) = Len(log'[j].prev_hash) + 1
                      /\ ~EndsForged(log'[j].prev_hash)
    BY <1>3 DEF RowsWellFormed, Hash, EndsForged
  <2>1. PICK k \in 1 .. n : log'[j] = log[k]
    BY <1>3
  <2>2. QED
    BY <1>3, <2>1 DEF ChainInv, RowsWellFormed, Hash
<1>5. HashesGrow'
  <2> SUFFICES ASSUME NEW j \in 1 .. n - 1, NEW k \in 1 .. n - 1, j < k
               PROVE  Len(log'[j].prev_hash) < Len(log'[k].prev_hash)
    BY <1>3 DEF HashesGrow
  <2>1. PICK a \in 1 .. n, b \in 1 .. n :
          log'[j] = log[a] /\ log'[k] = log[b] /\ a < b
    <3>1. CASE k < i
      BY <1>3, <3>1
    <3>2. CASE j < i /\ i <= k
      BY <1>3, <3>2
    <3>3. CASE i <= j
      BY <1>3, <3>3
    <3>4. QED
      BY <1>3, <3>1, <3>2, <3>3
  <2>2. QED
    BY <1>3, <2>1 DEF ChainInv, HashesGrow
<1>6. NewestIsGenuine' /\ HolderIsCurrent'
  <2>1. log # << >> /\ log' # << >>
    BY <1>2, <1>3
  <2>2. log'[Len(log')].entry_hash = log[Len(log)].entry_hash
    BY <1>2, <1>3
  <2>3. QED
    BY <1>1, <2>1, <2>2, TamperKeepsNewest
<1>7. ~Verify'
  <2>1. log'[i].prev_hash = log[i + 1].prev_hash
    BY <1>3
  <2>2. Len(log[i + 1].prev_hash) > Len(log[i].prev_hash)
    BY <1>3, EntryFacts DEF ChainInv, HashesGrow
  <2>3. Len(HashBefore(i)') < Len(log'[i].prev_hash)
    <3>1. CASE i = 1
      <4>1. HashBefore(i)' = << >>
        BY <3>1 DEF HashBefore, Genesis
      <4>2. QED
        BY <1>3, <2>1, <2>2, <4>1, EmptySeq, EntryFacts
    <3>2. CASE i # 1
      <4>1. i - 1 \in 1 .. n - 1 /\ i - 1 < i
        BY <1>3, <3>2
      <4>2. HashBefore(i)' = log[i - 1].entry_hash
        BY <1>3, <3>2, <4>1 DEF HashBefore
      <4>3. Len(log[i - 1].entry_hash) = Len(log[i - 1].prev_hash) + 1
        BY <1>3, <4>1 DEF ChainInv, RowsWellFormed
      <4>4. Len(log[i - 1].prev_hash) < Len(log[i].prev_hash)
        BY <1>3, <4>1 DEF ChainInv, HashesGrow
      <4>5. /\ Len(log[i - 1].prev_hash) \in Nat
            /\ Len(log[i].prev_hash) \in Nat
            /\ Len(log[i + 1].prev_hash) \in Nat
        BY <1>3, <4>1, EntryFacts
      <4>6. QED
        BY <2>1, <2>2, <4>2, <4>3, <4>4, <4>5
    <3>3. QED
      BY <3>1, <3>2
  <2>4. log'[i].prev_hash # HashBefore(i)'
    BY <1>1, <1>3, <2>3, LogFacts, EntryFacts
  <2>5. QED
    BY <1>3, <2>4 DEF Verify, Sound
<1>8. QED
  BY <1>1, <1>4, <1>5, <1>6, <1>7 DEF ChainInv, ChainIntact, TamperEvident

-----------------------------------------------------------------------------
LEMMA ChainInit == Init => ChainInv
<1> SUFFICES ASSUME Init PROVE ChainInv
  OBVIOUS
<1>1. TypeOK
  BY TypeInit
<1>2. DOMAIN log = {}
  BY EmptySeq, LenProperties DEF Init
<1>3. QED
  BY <1>1, <1>2 DEF Init, ChainInv, RowsWellFormed, HashesGrow, NewestIsGenuine,
                    HolderIsCurrent, ChainIntact, TamperEvident, Verify

\* Reading, clearing and restarting change no row that is left.
LEMMA ChainStep == ChainInv /\ [Next]_vars => ChainInv'
<1> SUFFICES ASSUME ChainInv, [Next]_vars PROVE ChainInv'
  OBVIOUS
<1> DEFINE RowsKept ==
      RowsWellFormed' /\ HashesGrow' /\ NewestIsGenuine' /\ ChainIntact' /\ TamperEvident'
<1>1. TypeOK /\ TypeOK'
  BY TypeStep DEF ChainInv
<1>2. ASSUME UNCHANGED << log, tampered >> PROVE RowsKept
  BY <1>2 DEF ChainInv, RowsWellFormed, HashesGrow, NewestIsGenuine, ChainIntact,
              TamperEvident, Verify, Sound, HashBefore
<1>3. ASSUME NEW c \in Calls, ReadLast(c) PROVE ChainInv'
  <2>1. HolderIsCurrent'
    <3>1. \A d \in Calls : pc'[d] = "reading" => d = c
      BY <1>1, <1>3, NoneAssumption DEF ReadLast, ChainInv, HolderIsCurrent, TypeOK
    <3>2. HashBefore(Len(log) + 1)' = HashBefore(Len(log) + 1)
      BY <1>3 DEF ReadLast, HashBefore
    <3>3. QED
      BY <1>3, <3>1, <3>2 DEF ReadLast, HolderIsCurrent
  <2>2. QED
    BY <1>1, <1>2, <1>3, <2>1 DEF ReadLast, ChainInv
<1>4. ASSUME NEW c \in Calls, Clear(c) PROVE ChainInv'
  <2>1. log' = << >> /\ DOMAIN log' = {} /\ ~tampered' /\ holder' = None
    BY <1>4, EmptySeq, LenProperties DEF Clear
  <2>2. HolderIsCurrent'
    BY <1>1, <1>4, <2>1, NoneAssumption DEF Clear, ChainInv, HolderIsCurrent, TypeOK
  <2>3. QED
    BY <1>1, <2>1, <2>2 DEF ChainInv, RowsWellFormed, HashesGrow, NewestIsGenuine,
                            ChainIntact, TamperEvident, Verify
<1>5. CASE Restart
  <2>1. HolderIsCurrent'
    BY <1>5 DEF Restart, HolderIsCurrent
  <2>2. QED
    BY <1>1, <1>2, <1>5, <2>1 DEF Restart, ChainInv
<1>6. CASE UNCHANGED vars
  <2>1. HolderIsCurrent'
    BY <1>6 DEF vars, ChainInv, HolderIsCurrent, HashBefore
  <2>2. QED
    BY <1>1, <1>2, <1>6, <2>1 DEF vars, ChainInv
<1>7. QED
  BY <1>3, <1>4, <1>5, <1>6, AppendKeepsChain, EditIsEvident, RehashIsEvident,
     DeletionIsEvident DEF Next, LoggerStep, TamperStep

\* No false alarm: a log nobody tampered with verifies, whatever records,
\* clearances and restarts interleave (audit.py, _verify).
THEOREM UntamperedLogVerifies == Spec => []ChainIntact
<1>1. ChainInv => ChainIntact
  BY DEF ChainInv
<1>2. QED
  BY <1>1, ChainInit, ChainStep, PTL DEF Spec

\* Tampering shows: once rows were changed, verify_chain fails until the log
\* is cleared, whatever is recorded or changed after that.
THEOREM TamperingIsEvident == Spec => []TamperEvident
<1>1. ChainInv => TamperEvident
  BY DEF ChainInv
<1>2. QED
  BY <1>1, ChainInit, ChainStep, PTL DEF Spec

\* A clearance leaves its trace in the log it opened (routes.py, clear_audit).
THEOREM ClearancesAreTraced == Spec => []ClearanceLeavesTrace
<1> DEFINE Inv == TypeOK /\ ClearanceLeavesTrace
<1>1. Init => Inv
  BY TypeInit DEF Init, ClearanceLeavesTrace, Calls
<1>2. Inv /\ [Next]_vars => Inv'
  <2> SUFFICES ASSUME Inv, [Next]_vars PROVE ClearanceLeavesTrace'
    BY TypeStep
  <2> USE DEF ClearanceLeavesTrace
  <2>1. ASSUME NEW c \in Calls, ReadLast(c) PROVE ClearanceLeavesTrace'
    BY <2>1 DEF ReadLast, Ready, TypeOK, Calls
  <2>2. ASSUME NEW c \in Calls, AppendEntry(c) PROVE ClearanceLeavesTrace'
    <3>1. /\ DOMAIN log = 1 .. Len(log) /\ DOMAIN log' = 1 .. Len(log) + 1
          /\ Len(log) \in Nat
          /\ log'[Len(log) + 1].content = c
          /\ \A i \in 1 .. Len(log) : log'[i] = log[i]
      <4>1. TypeOK /\ c \in Content /\ prev \in Digest
        BY DEF TypeOK, Content
      <4>2. Row(c, prev, Hash(prev, c)).content = c
        BY <4>1, HashFacts, RowFacts
      <4>3. QED
        BY <2>2, <4>1, <4>2, LogFacts, AppendRows, LenProperties
    <3>2. CASE c \in Clearers
      <4>1. Len(log) + 1 \in DOMAIN log' /\ log'[Len(log) + 1].content \in Clearers
        BY <3>1, <3>2
      <4>2. \E i \in DOMAIN log' : log'[i].content \in Clearers
        BY <4>1
      <4>3. QED
        BY <4>2
    <3>3. CASE c \notin Clearers
      BY <2>2, <3>1, <3>3 DEF AppendEntry, TypeOK, Calls
    <3>4. QED
      BY <3>2, <3>3
  <2>3. ASSUME NEW c \in Calls, Clear(c) PROVE ClearanceLeavesTrace'
    BY <2>3 DEF Clear, TypeOK
  <2>4. CASE Restart
    BY <2>4 DEF Restart, TypeOK, Calls
  <2>5. CASE TamperStep
    BY <2>5 DEF TamperStep, EditContent, EditAndRehash, DeleteRow, Tamper
  <2>6. CASE UNCHANGED vars
    BY <2>6 DEF vars
  <2>7. QED
    BY <2>1, <2>2, <2>3, <2>4, <2>5, <2>6 DEF Next, LoggerStep
<1>3. QED
  BY <1>1, <1>2, PTL DEF Spec
=============================================================================
