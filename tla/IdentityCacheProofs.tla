-------------------------- MODULE IdentityCacheProofs --------------------------
(***************************************************************************)
(* Theorems of IdentityCache, for every value of its constants.             *)
(*                                                                          *)
(* The argument: reading is set under the lock by whoever starts a goroutine, *)
(* and only the goroutine that is past its store clears it. So one goroutine   *)
(* at most may write what is published, what it loaded at its start is what    *)
(* it replaces, and what it carries forward was read beside its own path.      *)
(***************************************************************************)
EXTENDS IdentityCache, TLAPS

-------------------------------------------------------------------------------
(* The inductive invariant *)

\* What a goroutine holds is what it read beside its path, and what it will replace
\* is what is published.
Reads(r) ==
    /\ reader[r].phase \in {"account", "prefs", "store"} => reader[r].path \in Paths
    /\ reader[r].phase \in {"prefs", "store"} =>
          /\ reader[r].previous = published
          /\ reader[r].account \in Document
          /\ reader[r].account.beside = reader[r].path
    /\ reader[r].phase = "store" =>
          /\ reader[r].prefs \in Document
          /\ reader[r].prefs.beside = reader[r].path

IdentityInv ==
    /\ TypeOK
    /\ SingleWriter
    /\ NoForeignDocuments
    /\ \A r \in Readers : Reads(r)

\* At startup nothing is published and nobody reads.
LEMMA InitIdentity == Init => IdentityInv
<1> SUFFICES ASSUME Init PROVE IdentityInv
  OBVIOUS
<1> USE IdentityConstants DEF Init
<1>1. accountOf \in [Paths -> Versions] /\ prefsOf \in [Paths -> Versions]
  OBVIOUS
<1>2. NotRunning \in Goroutine
  BY DEF NotRunning, Goroutine, Phases, Answer
<1>3. reader \in [Readers -> Goroutine]
  BY <1>2
<1>4. drawing \in Answer /\ drawn \in [account : Answer, prefs : Answer]
  BY DEF Answer
<1>5. TypeOK
  <2>1. /\ source \in Paths \cup {NoPath}
        /\ poll \in {"waiting", "moved"}
        /\ updates \in BOOLEAN
    OBVIOUS
  <2>2. edits \in 0 .. MaxEdits /\ moves \in 0 .. MaxMoves
    OBVIOUS
  <2>3. /\ published \in documents \cup {NoDocuments}
        /\ reading \in BOOLEAN
        /\ forced \in BOOLEAN
    OBVIOUS
  <2>4. /\ pc \in {"idle", "source", "load", "remote", "lock"}
        /\ accessor \in {"Account", "Preferences"}
        /\ path \in IF pc \in {"idle", "source"} THEN {NoPath} ELSE Paths
        /\ seen \in documents \cup {NoDocuments}
    OBVIOUS
  <2>5. /\ remote \in BOOLEAN
        /\ asked \in BOOLEAN
        /\ unforced \in [Remote -> Nat]
    OBVIOUS
  <2> HIDE DEF Init
  <2>6. QED
    BY <1>1, <1>3, <1>4, <2>1, <2>2, <2>3, <2>4, <2>5 DEF TypeOK
<1>6. \A r \in Readers : reader[r].phase = "idle"
  BY DEF NotRunning
<1>7. QED
  BY <1>5, <1>6 DEF IdentityInv, SingleWriter, NoForeignDocuments, Reads, Live

-------------------------------------------------------------------------------
(* Goroutines of Cache.read, one at a time *)

\* A goroutine that moves on while it holds the guard stays the only one, and the
\* others keep what they hold.
LEMMA OnlyReaderMoves ==
    ASSUME IdentityInv, NEW r \in Readers, NEW g \in Goroutine, Live(r),
           reader' = [reader EXCEPT ![r] = g],
           g.phase \in {"account", "prefs", "store", "release"} => reading',
           g.phase = "store" => g.previous = published'
    PROVE  SingleWriter'
<1>1. \A s \in Readers : s # r => ~Live(s)
  BY DEF IdentityInv, SingleWriter
<1>2. \A s \in Readers : reader'[s] = IF s = r THEN g ELSE reader[s]
  BY DEF IdentityInv, TypeOK
<1>3. QED
  BY <1>1, <1>2 DEF SingleWriter, Live

\* The others do not hold what the one that moves disturbs.
LEMMA OthersKeepReads ==
    ASSUME IdentityInv, NEW r \in Readers, NEW g \in Goroutine, Live(r),
           reader' = [reader EXCEPT ![r] = g], Reads(r)'
    PROVE  \A s \in Readers : Reads(s)'
<1>1. \A s \in Readers : s # r => ~Live(s)
  BY DEF IdentityInv, SingleWriter
<1>2. \A s \in Readers : s # r => reader'[s] = reader[s]
  BY DEF IdentityInv, TypeOK
<1>3. \A s \in Readers : s # r => Reads(s)'
  BY <1>1, <1>2 DEF Reads, Live
<1>4. QED
  BY <1>3

\* Its steps change nothing else but what it publishes, the guard and the redraw.
LEMMA ReaderStepTypes ==
    ASSUME TypeOK, NEW r \in Readers, NEW g \in Goroutine,
           reader' = [reader EXCEPT ![r] = g],
           published' \in documents \cup {NoDocuments},
           reading' \in BOOLEAN, updates' \in BOOLEAN,
           UNCHANGED <<poller, files, bounds, forced, ui, history>>
    PROVE  TypeOK'
<1>1. reader' \in [Readers -> Goroutine]
  BY DEF TypeOK
<1>2. QED
  BY <1>1 DEF TypeOK, poller, files, bounds, ui, history

\* A goroutine that reads the account, or carries it forward, has one read beside
\* its path.
LEMMA ReadAccountKeeps ==
    ASSUME IdentityInv, NEW r \in Readers, ReadAccount(r)
    PROVE  IdentityInv'
<1> DEFINE account == IF carriesForward(r) THEN published.account
                      ELSE [beside |-> reader[r].path,
                            says |-> accountOf[reader[r].path]]
           g == [reader[r] EXCEPT !.phase = "prefs", !.previous = published,
                                  !.account = account]
<1>1. /\ reader[r] \in Goroutine /\ reader[r].path \in Paths
      /\ published \in documents \cup {NoDocuments}
      /\ accountOf \in [Paths -> Versions]
  BY DEF IdentityInv, TypeOK, Reads, ReadAccount
<1>2. account \in Document /\ account.beside = reader[r].path
  <2>1. CASE carriesForward(r)
    BY <1>1, <2>1 DEF carriesForward, IdentityInv, NoForeignDocuments, documents
  <2>2. CASE ~carriesForward(r)
    BY <1>1, <2>2 DEF Document
  <2>3. QED
    BY <2>1, <2>2
<1>3. reader' = [reader EXCEPT ![r] = g]
  BY DEF ReadAccount
<1> HIDE DEF account
<1>4. /\ g \in Goroutine /\ g.phase = "prefs" /\ g.path = reader[r].path
      /\ g.previous = published /\ g.account = account
  BY <1>1, <1>2 DEF Goroutine, Answer, Phases
<1> HIDE DEF g
<1>5. Live(r) /\ reading
  BY DEF Live, ReadAccount, IdentityInv, SingleWriter
<1>6. SingleWriter'
  <2>1. g.phase \in {"account", "prefs", "store", "release"} => reading'
    BY <1>4, <1>5 DEF ReadAccount, cache, IdentityInv, TypeOK
  <2>2. QED
    BY <1>3, <1>4, <1>5, <2>1, OnlyReaderMoves
<1>7. \A s \in Readers : Reads(s)'
  <2>1. reader'[r] = g /\ published' = published
    BY <1>3 DEF ReadAccount, cache, IdentityInv, TypeOK
  <2>2. Reads(r)'
    BY <1>1, <1>2, <1>4, <2>1 DEF Reads
  <2>3. QED
    BY <1>3, <1>4, <1>5, <2>2, OthersKeepReads
<1>8. NoForeignDocuments'
  BY DEF IdentityInv, NoForeignDocuments, ReadAccount, cache
<1>9. TypeOK'
  <2>1. /\ published' \in documents \cup {NoDocuments}
        /\ reading' \in BOOLEAN /\ updates' \in BOOLEAN
    BY DEF ReadAccount, cache, IdentityInv, TypeOK
  <2>2. QED
    BY <1>3, <1>4, <2>1, ReaderStepTypes DEF ReadAccount, cache, IdentityInv
<1>10. QED
  BY <1>6, <1>7, <1>8, <1>9 DEF IdentityInv

\* The preferences are always read beside the path.
LEMMA ReadPreferencesKeeps ==
    ASSUME IdentityInv, NEW r \in Readers, ReadPreferences(r)
    PROVE  IdentityInv'
<1> DEFINE prefs == [beside |-> reader[r].path, says |-> prefsOf[reader[r].path]]
           g == [reader[r] EXCEPT !.phase = "store", !.prefs = prefs]
<1>1. /\ reader[r] \in Goroutine /\ reader[r].path \in Paths
      /\ prefsOf \in [Paths -> Versions]
      /\ reader[r].previous = published
      /\ reader[r].account \in Document
      /\ reader[r].account.beside = reader[r].path
  BY DEF IdentityInv, TypeOK, Reads, ReadPreferences
<1>2. prefs \in Document /\ prefs.beside = reader[r].path
  BY <1>1 DEF Document
<1>3. reader' = [reader EXCEPT ![r] = g]
  BY DEF ReadPreferences
<1> HIDE DEF prefs
<1>4. /\ g \in Goroutine /\ g.phase = "store" /\ g.path = reader[r].path
      /\ g.previous = published /\ g.account = reader[r].account /\ g.prefs = prefs
  BY <1>1, <1>2 DEF Goroutine, Answer, Phases
<1> HIDE DEF g
<1>5. Live(r) /\ reading
  BY DEF Live, ReadPreferences, IdentityInv, SingleWriter
<1>6. published' = published /\ reading' = reading
  BY DEF ReadPreferences, cache
<1>7. SingleWriter'
  <2>1. g.phase \in {"account", "prefs", "store", "release"} => reading'
    BY <1>4, <1>5, <1>6 DEF IdentityInv, TypeOK
  <2>2. QED
    BY <1>3, <1>4, <1>5, <1>6, <2>1, OnlyReaderMoves
<1>8. \A s \in Readers : Reads(s)'
  <2>1. reader'[r] = g
    BY <1>3 DEF IdentityInv, TypeOK
  <2>2. Reads(r)'
    BY <1>1, <1>2, <1>4, <1>6, <2>1 DEF Reads
  <2>3. QED
    BY <1>3, <1>4, <1>5, <2>2, OthersKeepReads
<1>9. NoForeignDocuments'
  BY <1>6 DEF IdentityInv, NoForeignDocuments
<1>10. TypeOK'
  <2>1. /\ published' \in documents \cup {NoDocuments}
        /\ reading' \in BOOLEAN /\ updates' \in BOOLEAN
    BY DEF ReadPreferences, cache, IdentityInv, TypeOK
  <2>2. QED
    BY <1>3, <1>4, <2>1, ReaderStepTypes DEF ReadPreferences, cache, IdentityInv
<1>11. QED
  BY <1>7, <1>8, <1>9, <1>10 DEF IdentityInv

\* What is stored was read beside the path it is stored under.
LEMMA StoreFreshKeeps ==
    ASSUME IdentityInv, NEW r \in Readers, StoreFresh(r)
    PROVE  IdentityInv'
<1> DEFINE fresh == [path |-> reader[r].path, account |-> reader[r].account,
                     prefs |-> reader[r].prefs]
           changed == ~equals(fresh, reader[r].previous)
           g == [NotRunning EXCEPT !.phase = "release", !.changed = changed]
<1>1. /\ fresh \in documents
      /\ fresh.account.beside = fresh.path
      /\ fresh.prefs.beside = fresh.path
  BY DEF IdentityInv, Reads, StoreFresh, documents
<1>2. /\ reader' = [reader EXCEPT ![r] = g]
      /\ published' = IF changed THEN fresh ELSE published
  BY DEF StoreFresh
<1>3. changed \in BOOLEAN
  BY DEF equals
<1>4. published' \in documents \cup {NoDocuments} /\ NoForeignDocuments'
  <2> HIDE DEF fresh, changed
  <2>1. CASE changed
    BY <1>1, <1>2, <2>1 DEF NoForeignDocuments
  <2>2. CASE ~changed
    BY <1>2, <2>2 DEF IdentityInv, TypeOK, NoForeignDocuments
  <2>3. QED
    BY <2>1, <2>2
<1> HIDE DEF fresh, changed
<1>5. g \in Goroutine /\ g.phase = "release"
  BY <1>3 DEF NotRunning, Goroutine, Answer, Phases
<1> HIDE DEF g
<1>6. Live(r) /\ reading
  BY DEF Live, StoreFresh, IdentityInv, SingleWriter
<1>7. SingleWriter'
  <2>1. g.phase \in {"account", "prefs", "store", "release"} => reading'
    BY <1>5, <1>6 DEF StoreFresh, IdentityInv, TypeOK
  <2>2. QED
    BY <1>2, <1>5, <1>6, <2>1, OnlyReaderMoves
<1>8. \A s \in Readers : Reads(s)'
  <2>1. reader'[r] = g
    BY <1>2 DEF IdentityInv, TypeOK
  <2>2. Reads(r)'
    BY <1>5, <2>1 DEF Reads
  <2>3. QED
    BY <1>2, <1>5, <1>6, <2>2, OthersKeepReads
<1>9. TypeOK'
  <2>1. reading' \in BOOLEAN /\ updates' \in BOOLEAN
    BY DEF StoreFresh, IdentityInv, TypeOK
  <2>2. QED
    BY <1>2, <1>4, <1>5, <2>1, ReaderStepTypes DEF StoreFresh, IdentityInv
<1>10. QED
  BY <1>4, <1>7, <1>8, <1>9 DEF IdentityInv

\* The guard is cleared by the one goroutine that holds it.
LEMMA ReleaseKeeps ==
    ASSUME IdentityInv, NEW r \in Readers, Release(r)
    PROVE  IdentityInv'
<1> DEFINE g == IF reader[r].changed THEN [NotRunning EXCEPT !.phase = "announce"]
                                     ELSE NotRunning
<1>1. reader' = [reader EXCEPT ![r] = g] /\ reading' = FALSE /\ published' = published
  BY DEF Release
<1>2. g \in Goroutine /\ g.phase \in {"announce", "idle"}
  BY DEF NotRunning, Goroutine, Answer, Phases
<1> HIDE DEF g
<1>3. Live(r)
  BY DEF Live, Release
<1>4. SingleWriter'
  <2>1. g.phase \in {"account", "prefs", "store", "release"} => reading'
    BY <1>2
  <2>2. QED
    BY <1>1, <1>2, <1>3, <2>1, OnlyReaderMoves
<1>5. \A s \in Readers : Reads(s)'
  <2>1. reader'[r] = g
    BY <1>1 DEF IdentityInv, TypeOK
  <2>2. Reads(r)'
    BY <1>2, <2>1 DEF Reads
  <2>3. QED
    BY <1>1, <1>2, <1>3, <2>2, OthersKeepReads
<1>6. NoForeignDocuments'
  BY <1>1 DEF IdentityInv, NoForeignDocuments
<1>7. TypeOK'
  <2>1. /\ published' \in documents \cup {NoDocuments}
        /\ reading' \in BOOLEAN /\ updates' \in BOOLEAN
    BY DEF Release, IdentityInv, TypeOK
  <2>2. QED
    BY <1>1, <1>2, <2>1, ReaderStepTypes DEF Release, IdentityInv
<1>8. QED
  BY <1>4, <1>5, <1>6, <1>7 DEF IdentityInv

\* A goroutine that announces holds nothing any more.
LEMMA AnnounceKeeps ==
    ASSUME IdentityInv, NEW r \in Readers, Announce(r)
    PROVE  IdentityInv'
<1>1. NotRunning \in Goroutine /\ NotRunning.phase = "idle"
  BY DEF NotRunning, Goroutine, Answer, Phases
<1>2. /\ reader' = [reader EXCEPT ![r] = NotRunning]
      /\ published' = published /\ reading' = reading
  BY DEF Announce, cache
<1>3. \A s \in Readers : reader'[s] = IF s = r THEN NotRunning ELSE reader[s]
  BY <1>2 DEF IdentityInv, TypeOK
<1>4. SingleWriter' /\ (\A s \in Readers : Reads(s)')
  BY <1>1, <1>2, <1>3 DEF IdentityInv, SingleWriter, Live, Reads
<1>5. NoForeignDocuments'
  BY <1>2 DEF IdentityInv, NoForeignDocuments
<1>6. TypeOK'
  <2>1. /\ published' \in documents \cup {NoDocuments}
        /\ reading' \in BOOLEAN /\ updates' \in BOOLEAN
    BY DEF Announce, cache, IdentityInv, TypeOK
  <2>2. QED
    BY <1>1, <1>2, <2>1, ReaderStepTypes DEF Announce, cache, IdentityInv
<1>7. QED
  BY <1>4, <1>5, <1>6 DEF IdentityInv

-------------------------------------------------------------------------------
(* The other goroutines *)

\* inUse starts a goroutine only while nobody holds the guard.
LEMMA inUseLockStarts ==
    ASSUME IdentityInv, inUseLock, due
    PROVE  /\ reader' \in [Readers -> Goroutine]
           /\ SingleWriter'
           /\ \A s \in Readers : Reads(s)'
<1> DEFINE r == NextReader
           g == [NotRunning EXCEPT !.phase = "account", !.path = path, !.forced = forced]
<1>1. r \in Readers /\ reader[r].phase = "idle"
  BY DEF NextReader, inUseLock
<1>2. path \in Paths /\ forced \in BOOLEAN
  BY DEF IdentityInv, TypeOK, inUseLock
<1>3. g \in Goroutine /\ g.phase = "account" /\ g.path = path
  BY <1>2 DEF NotRunning, Goroutine, Answer, Phases
<1>4. reader' = [reader EXCEPT ![r] = g] /\ reading' = TRUE
  BY DEF inUseLock
<1>5. \A s \in Readers : ~Live(s)
  BY DEF due, IdentityInv, SingleWriter
<1> HIDE DEF r, g
<1>6. \A s \in Readers : reader'[s] = IF s = r THEN g ELSE reader[s]
  BY <1>4 DEF IdentityInv, TypeOK
<1>7. reader' \in [Readers -> Goroutine]
  BY <1>3, <1>4 DEF IdentityInv, TypeOK
<1>8. SingleWriter'
  BY <1>1, <1>3, <1>4, <1>5, <1>6 DEF SingleWriter, Live
<1>9. \A s \in Readers : Reads(s)'
  BY <1>1, <1>2, <1>3, <1>5, <1>6 DEF Reads, Live
<1>10. QED
  BY <1>7, <1>8, <1>9

\* What an accessor returns is an answer.
LEMMA AnswersType ==
    ASSUME TypeOK, NEW a \in Answer, NEW p \in Answer, Answers(a, p)
    PROVE  /\ pc' \in {"idle", "source"}
           /\ accessor' \in {"Account", "Preferences"}
           /\ path' = NoPath
           /\ seen' = NoDocuments
           /\ remote' \in BOOLEAN
           /\ drawing' \in Answer
           /\ drawn' \in [account : Answer, prefs : Answer]
<1>1. Unknown \in Answer
  BY DEF Answer
<1>2. CASE accessor = "Account"
  BY <1>1, <1>2 DEF Answers, TypeOK
<1>3. CASE accessor # "Account"
  <2>1. drawing \in Answer
    BY DEF TypeOK
  <2>2. [account |-> drawing, prefs |-> p] \in [account : Answer, prefs : Answer]
    BY <2>1
  <2>3. QED
    BY <1>1, <1>3, <2>2 DEF Answers
<1>4. QED
  BY <1>2, <1>3

\* The locked section of inUse keeps the invariant, whether a read is due or not.
LEMMA inUseLockKeeps ==
    ASSUME IdentityInv, inUseLock
    PROVE  IdentityInv'
<1>1. /\ reader' \in [Readers -> Goroutine]
      /\ SingleWriter'
      /\ \A s \in Readers : Reads(s)'
  <2>1. CASE due
    BY <2>1, inUseLockStarts
  <2>2. CASE ~due
    BY <2>2 DEF inUseLock, IdentityInv, TypeOK, SingleWriter, Live, Reads
  <2>3. QED
    BY <2>1, <2>2
<1>2. PICK a \in Answer, p \in Answer : Answers(a, p)
  <2>1. Unknown \in Answer
    BY DEF Answer
  <2>2. describesSource => seen.account \in Answer /\ seen.prefs \in Answer
    BY DEF describesSource, IdentityInv, TypeOK, documents, Answer
  <2>3. QED
    BY <2>1, <2>2 DEF inUseLock
<1>3. /\ reading' \in BOOLEAN /\ forced' \in BOOLEAN
      /\ unforced' \in [Remote -> Nat]
  <2>1. CASE due
    <3>1. reading' = TRUE /\ forced' = FALSE
      BY <2>1 DEF inUseLock
    <3>2. unforced' = [q \in Remote |->
              unforced[q] + IF q = path /\ q = source /\ ~forced THEN 1 ELSE 0]
      BY <2>1 DEF inUseLock
    <3>3. \A q \in Remote : unforced[q] \in Nat
      BY DEF IdentityInv, TypeOK
    <3>4. \A q \in Remote :
             unforced[q] + (IF q = path /\ q = source /\ ~forced THEN 1 ELSE 0) \in Nat
      BY <3>3
    <3>5. QED
      BY <3>1, <3>2, <3>4
  <2>2. CASE ~due
    BY <2>2 DEF inUseLock, IdentityInv, TypeOK
  <2>3. QED
    BY <2>1, <2>2
<1>4. published' = published
  BY DEF inUseLock
<1>5. NoForeignDocuments'
  BY <1>4 DEF IdentityInv, NoForeignDocuments
<1>6. TypeOK'
  <2>1. /\ pc' \in {"idle", "source"}
        /\ accessor' \in {"Account", "Preferences"}
        /\ path' = NoPath
        /\ seen' = NoDocuments
        /\ remote' \in BOOLEAN
        /\ drawing' \in Answer
        /\ drawn' \in [account : Answer, prefs : Answer]
    BY <1>2, AnswersType DEF IdentityInv
  <2>2. UNCHANGED <<source, poll, accountOf, prefsOf, updates, edits, moves, published,
                    asked>>
    BY DEF inUseLock, poller, files, bounds
  <2>3. QED
    BY <1>1, <1>3, <2>1, <2>2 DEF IdentityInv, TypeOK
<1>7. QED
  BY <1>1, <1>5, <1>6 DEF IdentityInv

\* A step that leaves the goroutines, the guard and the documents alone keeps all
\* but the types for free.
LEMMA BystanderKeeps ==
    ASSUME IdentityInv, UNCHANGED <<published, reading, reader>>, TypeOK'
    PROVE  IdentityInv'
BY DEF IdentityInv, SingleWriter, NoForeignDocuments, Reads, Live

\* The steps of the UI goroutine but the locked section.
LEMMA UIKeeps ==
    ASSUME IdentityInv, inUseSource \/ inUseNothing \/ inUseLoad \/ inUseRemote \/ Apply
    PROVE  IdentityInv'
<1> USE IdentityConstants DEF IdentityInv, TypeOK, poller, files, cache, bounds, history
<1>1. CASE inUseSource
  BY <1>1, BystanderKeeps DEF inUseSource
<1>2. CASE inUseNothing
  <2>1. Unknown \in Answer /\ Answers(Unknown, Unknown)
    BY <1>2 DEF Answer, inUseNothing
  <2>2. /\ pc' \in {"idle", "source"}
        /\ accessor' \in {"Account", "Preferences"}
        /\ path' = NoPath
        /\ seen' = NoDocuments
        /\ remote' \in BOOLEAN
        /\ drawing' \in Answer
        /\ drawn' \in [account : Answer, prefs : Answer]
    BY <2>1, AnswersType
  <2>3. QED
    BY <1>2, <2>2, BystanderKeeps DEF inUseNothing
<1>3. CASE inUseLoad
  BY <1>3, BystanderKeeps DEF inUseLoad
<1>4. CASE inUseRemote
  BY <1>4, BystanderKeeps DEF inUseRemote
<1>5. CASE Apply
  BY <1>5, BystanderKeeps DEF Apply
<1>6. QED
  BY <1>1, <1>2, <1>3, <1>4, <1>5

\* The steps of the programs that write the documents, of the poller and of the
\* user.
LEMMA EnvironmentKeeps ==
    ASSUME IdentityInv,
           Edit \/ (\E p \in Paths : FetchNewPath(p)) \/ PollDone \/ Invalidate
    PROVE  IdentityInv'
<1> USE IdentityConstants DEF IdentityInv, TypeOK, poller, files, cache, bounds, ui, history
<1>1. CASE \E p \in Paths, v \in Versions : EditAccount(p, v)
  <2>1. accountOf' \in [Paths -> Versions]
    BY <1>1 DEF EditAccount
  <2>2. edits' \in 0 .. MaxEdits
    BY <1>1 DEF EditAccount
  <2>3. UNCHANGED <<published, reading, reader>>
    BY <1>1 DEF EditAccount
  <2>4. TypeOK'
    BY <1>1, <2>1, <2>2 DEF EditAccount
  <2>5. QED
    BY <2>3, <2>4, BystanderKeeps
<1>2. CASE \E p \in Paths, v \in Versions : EditPreferences(p, v)
  <2>1. prefsOf' \in [Paths -> Versions]
    BY <1>2 DEF EditPreferences
  <2>2. edits' \in 0 .. MaxEdits
    BY <1>2 DEF EditPreferences
  <2>3. UNCHANGED <<published, reading, reader>>
    BY <1>2 DEF EditPreferences
  <2>4. TypeOK'
    BY <1>2, <2>1, <2>2 DEF EditPreferences
  <2>5. QED
    BY <2>3, <2>4, BystanderKeeps
<1>3. CASE \E p \in Paths : FetchNewPath(p)
  BY <1>3, BystanderKeeps DEF FetchNewPath
<1>4. CASE PollDone
  BY <1>4, BystanderKeeps DEF PollDone
<1>5. CASE Invalidate
  BY <1>5, BystanderKeeps DEF Invalidate
<1>6. QED
  BY <1>1, <1>2, <1>3, <1>4, <1>5 DEF Edit

\* Every step keeps the invariant.
LEMMA NextIdentity == IdentityInv /\ [Next]_vars => IdentityInv'
<1> SUFFICES ASSUME IdentityInv, [Next]_vars PROVE IdentityInv'
  OBVIOUS
<1>1. CASE \E r \in Readers : Read(r)
  BY <1>1, ReadAccountKeeps, ReadPreferencesKeeps, StoreFreshKeeps, ReleaseKeeps,
     AnnounceKeeps DEF Read
<1>2. CASE inUseLock
  BY <1>2, inUseLockKeeps
<1>3. CASE inUseSource \/ inUseNothing \/ inUseLoad \/ inUseRemote \/ Apply
  BY <1>3, UIKeeps
<1>4. CASE Edit \/ (\E p \in Paths : FetchNewPath(p)) \/ PollDone \/ Invalidate
  BY <1>4, EnvironmentKeeps
<1>5. CASE UNCHANGED vars
  BY <1>5 DEF vars, IdentityInv, TypeOK, SingleWriter, NoForeignDocuments, Reads, Live
<1>6. QED
  BY <1>1, <1>2, <1>3, <1>4, <1>5 DEF Next, UI

-------------------------------------------------------------------------------
(* Reads of a remote source *)

InFlight(r) == reader[r].phase \in {"account", "prefs", "store"}

\* The documents of a path are published, for all who load them from now on.
Settled(p) == published # NoDocuments /\ published.path = p

\* Once a read of the path in use was scheduled unasked, that path is what every
\* goroutine reads and every accessor has looked up, and its documents are published
\* or on their way. A second one is scheduled by an accessor that loaded too early,
\* and finds them published: no accessor after it can miss them.
RemoteReads(p) ==
    /\ unforced[p] <= 2
    /\ source = p /\ unforced[p] >= 1 =>
          /\ \A r \in Readers : InFlight(r) => reader[r].path = p
          /\ Settled(p) \/ \E r \in Readers : InFlight(r)
          /\ pc \in {"load", "remote", "lock"} => path = p
          /\ pc = "lock" => remote
          /\ unforced[p] = 2 =>
                /\ Settled(p)
                /\ pc \in {"remote", "lock"} => describesSource

\* The locked section is where a read is counted.
LEMMA inUseLockCounts ==
    ASSUME IdentityInv, NEW p \in Remote, RemoteReads(p), inUseLock
    PROVE  RemoteReads(p)'
<1>1. /\ published' = published /\ source' = source
      /\ unforced[p] \in Nat /\ unforced \in [Remote -> Nat]
  BY DEF inUseLock, poller, IdentityInv, TypeOK
<1>2. pc' \in {"idle", "source"}
  BY DEF inUseLock, Answers
<1>3. CASE ~due
  <2>1. reader' = reader /\ unforced' = unforced
    BY <1>3 DEF inUseLock
  <2>2. QED
    BY <1>1, <1>2, <2>1 DEF RemoteReads, InFlight, Settled
<1>4. CASE due
  <2> DEFINE n == NextReader
             g == [NotRunning EXCEPT !.phase = "account", !.path = path, !.forced = forced]
             counted == p = path /\ p = source /\ ~forced
  <2>1. /\ n \in Readers /\ reader[n].phase = "idle"
        /\ reader' = [reader EXCEPT ![n] = g]
    BY <1>4 DEF inUseLock, NextReader
  <2>2. g.phase = "account" /\ g.path = path
    BY DEF NotRunning
  <2>3. \A r \in Readers : ~InFlight(r)
    BY <1>4 DEF due, InFlight, IdentityInv, SingleWriter, Live
  <2>4. unforced'[p] = unforced[p] + IF counted THEN 1 ELSE 0
    BY <1>1, <1>4 DEF inUseLock
  <2> HIDE DEF n, g
  <2>5. \A r \in Readers : reader'[r] = IF r = n THEN g ELSE reader[r]
    BY <2>1 DEF IdentityInv, TypeOK
  <2>6. /\ \A r \in Readers : InFlight(r)' <=> r = n
        /\ reader'[n].path = path
    BY <2>1, <2>2, <2>3, <2>5 DEF InFlight
  <2>7. CASE counted
    <3>1. unforced[p] >= 1 => Settled(p)
      BY <2>3, <2>7 DEF RemoteReads
    <3>2. unforced[p] # 2
      \* It would have found the documents under its own path.
      BY <1>4, <2>7 DEF RemoteReads, inUseLock, due
    <3>3. unforced[p] \in {0, 1}
      BY <1>1, <3>2 DEF RemoteReads
    <3>4. unforced'[p] = unforced[p] + 1
      BY <2>4, <2>7
    <3>5. unforced'[p] = 2 => Settled(p)'
      BY <1>1, <3>1, <3>3, <3>4 DEF Settled
    <3>6. QED
      BY <1>2, <2>1, <2>6, <2>7, <3>3, <3>4, <3>5 DEF RemoteReads
  <2>8. CASE ~counted
    <3>1. unforced'[p] = unforced[p]
      BY <1>1, <2>4, <2>8
    <3>2. source = p /\ unforced[p] >= 1 => path = p
      BY DEF RemoteReads, inUseLock
    <3>3. Settled(p)' <=> Settled(p)
      BY <1>1 DEF Settled
    <3>4. QED
      BY <1>1, <1>2, <2>1, <2>6, <3>1, <3>2, <3>3 DEF RemoteReads
  <2>9. QED
    BY <2>7, <2>8
<1>5. QED
  BY <1>3, <1>4

\* The other steps of the UI goroutine: an accessor that starts looks the path in
\* use up, and loads what is published.
LEMMA UICounts ==
    ASSUME IdentityInv, NEW p \in Remote, RemoteReads(p),
           inUseSource \/ inUseNothing \/ inUseLoad \/ inUseRemote \/ Apply
    PROVE  RemoteReads(p)'
<1>1. UNCHANGED <<source, published, reader, unforced>>
  BY DEF inUseSource, inUseNothing, inUseLoad, inUseRemote, Apply, poller, cache, history
<1>2. Settled(p)' <=> Settled(p)
  BY <1>1 DEF Settled
<1>3. \A r \in Readers : InFlight(r)' <=> InFlight(r)
  BY <1>1 DEF InFlight
<1>4. CASE inUseSource
  BY <1>1, <1>2, <1>3, <1>4 DEF inUseSource, RemoteReads
<1>5. CASE inUseNothing
  <2>1. pc' \in {"idle", "source"}
    BY <1>5 DEF inUseNothing, Answers
  <2>2. QED
    BY <1>1, <1>2, <1>3, <2>1 DEF RemoteReads
<1>6. CASE inUseLoad
  <2>1. pc = "load" /\ pc' = "remote" /\ path' = path /\ seen' = published
    BY <1>6 DEF inUseLoad
  <2>2. Settled(p) /\ path = p => describesSource'
    BY <2>1 DEF Settled, describesSource
  <2>3. QED
    BY <1>1, <1>2, <1>3, <2>1, <2>2 DEF RemoteReads
<1>7. CASE inUseRemote
  <2>1. /\ pc = "remote" /\ pc' = "lock" /\ path' = path /\ seen' = seen
        /\ source = p => remote'
    BY <1>7 DEF inUseRemote
  <2>2. describesSource' <=> describesSource
    BY <2>1 DEF describesSource
  <2>3. QED
    BY <1>1, <1>2, <1>3, <2>1, <2>2 DEF RemoteReads
<1>8. CASE Apply
  BY <1>1, <1>2, <1>3, <1>8 DEF Apply, RemoteReads
<1>9. QED
  BY <1>4, <1>5, <1>6, <1>7, <1>8

\* A goroutine keeps to its path, and what it leaves behind is published under it,
\* whether that replaces anything or not.
LEMMA ReaderCounts ==
    ASSUME IdentityInv, NEW p \in Remote, RemoteReads(p), NEW r \in Readers, Read(r)
    PROVE  RemoteReads(p)'
<1>1. UNCHANGED <<source, unforced, pc, path, seen, remote>>
  BY DEF Read, ReadAccount, ReadPreferences, StoreFresh, Release, Announce, poller, ui,
         history
<1>2. describesSource' <=> describesSource
  BY <1>1 DEF describesSource
<1>3. \A s \in Readers : s # r => reader'[s] = reader[s]
  BY DEF Read, ReadAccount, ReadPreferences, StoreFresh, Release, Announce, IdentityInv,
         TypeOK
<1>4. CASE ReadAccount(r) \/ ReadPreferences(r)
  <2>1. /\ InFlight(r) /\ InFlight(r)'
        /\ reader'[r].path = reader[r].path
    BY <1>4 DEF ReadAccount, ReadPreferences, InFlight, IdentityInv, TypeOK, Goroutine
  <2>2. published' = published
    BY <1>4 DEF ReadAccount, ReadPreferences, cache
  <2>3. \A s \in Readers : (InFlight(s)' <=> InFlight(s)) /\ reader'[s].path = reader[s].path
    BY <1>3, <2>1 DEF InFlight
  <2>4. Settled(p)' <=> Settled(p)
    BY <2>2 DEF Settled
  <2>5. QED
    BY <1>1, <1>2, <2>3, <2>4 DEF RemoteReads
<1>5. CASE StoreFresh(r)
  <2> DEFINE fresh == [path |-> reader[r].path, account |-> reader[r].account,
                       prefs |-> reader[r].prefs]
  <2>1. InFlight(r) /\ reader'[r].phase = "release"
    BY <1>5 DEF StoreFresh, InFlight, IdentityInv, TypeOK, NotRunning
  <2>2. published' = fresh
    BY <1>5 DEF StoreFresh, equals, IdentityInv, SingleWriter
  <2>3. fresh \in documents
    BY <1>5 DEF StoreFresh, IdentityInv, Reads, documents
  <2>4. published' # NoDocuments /\ published'.path = reader[r].path
    BY <2>2, <2>3, NilDocuments
  <2>5. \A s \in Readers : InFlight(s)' => InFlight(s) /\ reader'[s].path = reader[s].path
    BY <1>3, <2>1 DEF InFlight
  <2>6. source = p /\ unforced[p] >= 1 => Settled(p)'
    BY <2>1, <2>4 DEF RemoteReads, Settled
  <2>7. QED
    BY <1>1, <1>2, <2>5, <2>6 DEF RemoteReads
<1>6. CASE Release(r) \/ Announce(r)
  <2>1. ~InFlight(r) /\ reader'[r].phase \in {"announce", "idle"} /\ published' = published
    BY <1>6 DEF Release, Announce, InFlight, NotRunning, IdentityInv, TypeOK, cache
  <2>2. \A s \in Readers :
           (InFlight(s)' <=> InFlight(s))
           /\ (InFlight(s)' => reader'[s].path = reader[s].path)
    BY <1>3, <2>1 DEF InFlight
  <2>3. Settled(p)' <=> Settled(p)
    BY <2>1 DEF Settled
  <2>4. QED
    BY <1>1, <1>2, <2>2, <2>3 DEF RemoteReads
<1>7. QED
  BY <1>4, <1>5, <1>6 DEF Read

\* A path that comes into use and a user who asks start the count again; nobody else
\* touches what is counted.
LEMMA EnvironmentCounts ==
    ASSUME IdentityInv, NEW p \in Remote, RemoteReads(p),
           Edit \/ (\E q \in Paths : FetchNewPath(q)) \/ PollDone \/ Invalidate
    PROVE  RemoteReads(p)'
<1>1. UNCHANGED <<published, reader, pc, path, seen, remote>>
  BY DEF Edit, EditAccount, EditPreferences, FetchNewPath, PollDone, Invalidate, cache, ui
<1>2. unforced[p] \in Nat
  BY DEF IdentityInv, TypeOK
<1>3. CASE Edit \/ PollDone
  <2>1. source' = source /\ unforced' = unforced
    BY <1>3 DEF Edit, EditAccount, EditPreferences, PollDone, poller, history
  <2>2. QED
    BY <1>1, <2>1 DEF RemoteReads, InFlight, Settled, describesSource
<1>4. ASSUME NEW q \in Paths, FetchNewPath(q)
      PROVE  RemoteReads(p)'
  <2>1. source' = q /\ unforced'[p] = IF p = q THEN 0 ELSE unforced[p]
    BY <1>4 DEF FetchNewPath
  <2>2. QED
    BY <1>2, <2>1 DEF RemoteReads
<1>5. CASE Invalidate
  <2>1. unforced'[p] = 0
    BY <1>5 DEF Invalidate
  <2>2. QED
    BY <2>1 DEF RemoteReads
<1>6. QED
  BY <1>3, <1>4, <1>5

LEMMA NextCounts ==
    ASSUME IdentityInv, NEW p \in Remote, RemoteReads(p), [Next]_vars
    PROVE  RemoteReads(p)'
<1>1. CASE \E r \in Readers : Read(r)
  BY <1>1, ReaderCounts
<1>2. CASE inUseLock
  BY <1>2, inUseLockCounts
<1>3. CASE inUseSource \/ inUseNothing \/ inUseLoad \/ inUseRemote \/ Apply
  BY <1>3, UICounts
<1>4. CASE Edit \/ (\E q \in Paths : FetchNewPath(q)) \/ PollDone \/ Invalidate
  BY <1>4, EnvironmentCounts
<1>5. CASE UNCHANGED vars
  BY <1>5 DEF vars, RemoteReads, InFlight, Settled, describesSource
<1>6. QED
  BY <1>1, <1>2, <1>3, <1>4, <1>5 DEF Next, UI

-------------------------------------------------------------------------------
(* The theorems *)

\* In every reachable state the cache, its goroutines, the UI goroutine and the
\* documents have the types the code gives them.
THEOREM TypeCorrect == Spec => []TypeOK
<1>1. IdentityInv => TypeOK
  BY DEF IdentityInv
<1>2. QED
  BY <1>1, InitIdentity, NextIdentity, PTL DEF Spec

\* One goroutine at most is between the lock that sets reading and the lock that
\* clears it, and the documents it compares its own with are those it replaces
\* (cache.go:179).
THEOREM OneWriter == Spec => []SingleWriter
<1>1. IdentityInv => SingleWriter
  BY DEF IdentityInv
<1>2. QED
  BY <1>1, InitIdentity, NextIdentity, PTL DEF Spec

\* Documents are published under the path they were read beside, whichever read
\* each of them comes from (cache.go:144).
THEOREM NoneForeign == Spec => []NoForeignDocuments
<1>1. IdentityInv => NoForeignDocuments
  BY DEF IdentityInv
<1>2. QED
  BY <1>1, InitIdentity, NextIdentity, PTL DEF Spec

\* Between two requests of the user, and while a path another operating system
\* serves stays in use, two reads of its documents are scheduled at most, whatever
\* happens to the path while an accessor looks it up (cache.go:146-173).
THEOREM RemoteReadsBounded == Spec => []RemoteReadTwiceAtMost
<1> DEFINE Inv == IdentityInv /\ \A p \in Remote : RemoteReads(p)
<1>1. Init => Inv
  <2>1. Init => \A p \in Remote : RemoteReads(p)
    BY DEF Init, RemoteReads
  <2>2. QED
    BY <2>1, InitIdentity
<1>2. Inv /\ [Next]_vars => Inv'
  BY NextIdentity, NextCounts
<1>3. Inv => RemoteReadTwiceAtMost
  BY DEF RemoteReadTwiceAtMost, RemoteReads
<1>4. QED
  BY <1>1, <1>2, <1>3, PTL DEF Spec

===============================================================================
