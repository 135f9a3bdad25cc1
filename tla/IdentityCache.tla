----------------------------- MODULE IdentityCache -----------------------------
(***************************************************************************)
(* internal/identity.Cache between its three neighbours: the credential      *)
(* cache that resolves the path in use, the poller that signals a redraw,    *)
(* and the UI goroutine that draws both documents and forwards the user's    *)
(* refresh. The documents are files another program rewrites at any time.    *)
(*                                                                          *)
(* An accessor is four steps, one per value it reads while other goroutines *)
(* run: the path, the published documents, whether the path is remote, and   *)
(* the locked section. A read is one step per file, then the store, the       *)
(* release of the single-flight guard, and the announcement.                 *)
(***************************************************************************)
EXTENDS Naturals, FiniteSets

CONSTANTS
    Paths,          \* credential paths discovery may resolve to
    Remote,         \* those served by another operating system
    NoPath,         \* "": nothing resolved yet
    Versions,       \* what a document may say
    Unreadable,     \* those that are read errors, by message
    FirstVersions,  \* bound: what the documents may say at startup
    NoDocuments,    \* the nil *documents
    Readers,        \* bound: goroutines in Cache.read at once
    MaxEdits,       \* bound: edits of the files
    MaxMoves        \* bound: moves of the path once it is resolved

ASSUME IdentityConstants ==
    /\ Remote \subseteq Paths
    /\ Unreadable \subseteq Versions
    /\ FirstVersions \subseteq Versions
    /\ NoPath \notin Paths
    /\ MaxEdits \in Nat
    /\ MaxMoves \in Nat

VARIABLES
    \* the environment
    source,         \* credential.Cache.resolvedPath
    accountOf,      \* the account document beside each path
    prefsOf,        \* the preferences document beside each path
    poll,           \* the poller: "waiting", or "moved" between a Token that
                    \* resolved another path and the end of that poll
    updates,        \* whether the channel of capacity 1 holds a redraw signal
    edits, moves,
    \* identity.Cache
    published, reading, forced,
    \* one record per goroutine that may run Cache.read
    reader,
    \* the UI goroutine
    pc,             \* "idle", or the next step of inUse
    accessor,       \* the accessor it is in: "Account" or "Preferences"
    path, seen, remote,     \* locals of inUse
    drawing,        \* what Account returned, for the draw under way
    drawn,          \* what the menu shows
    \* history
    asked,          \* the user asked after the last edit of an account
    unforced        \* per remote path in use: reads nobody asked for

files == <<accountOf, prefsOf>>
poller == <<source, poll>>
cache == <<published, reading, forced>>
ui == <<pc, accessor, path, seen, remote, drawing, drawn>>
bounds == <<edits, moves>>
history == <<asked, unforced>>
vars == <<source, accountOf, prefsOf, poll, updates, edits,
          moves, published, reading, forced, reader, pc, accessor, path, seen,
          remote, drawing, drawn, asked, unforced>>

-------------------------------------------------------------------------------
\* A document is known by the path it was read beside and by what it said.
Document == [beside : Paths, says : Versions]

documents == [path : Paths, account : Document, prefs : Document]

\* A nil pointer is no documents.
ASSUME NilDocuments == NoDocuments \notin documents

\* What an accessor answers: a document, or "not known yet".
Unknown == [beside |-> NoPath, says |-> NoPath]
Answer == Document \cup {Unknown}

\* A goroutine of Cache.read: where it is, its arguments and its locals.
Phases == {"idle", "account", "prefs", "store", "release", "announce"}
Goroutine ==
    [phase : Phases, path : Paths \cup {NoPath}, forced : BOOLEAN,
     previous : documents \cup {NoDocuments}, account : Answer, prefs : Answer,
     changed : BOOLEAN]

NotRunning ==
    [phase |-> "idle", path |-> NoPath, forced |-> FALSE, previous |-> NoDocuments,
     account |-> Unknown, prefs |-> Unknown, changed |-> FALSE]

TypeOK ==
    /\ source \in Paths \cup {NoPath}
    /\ accountOf \in [Paths -> Versions]
    /\ prefsOf \in [Paths -> Versions]
    /\ poll \in {"waiting", "moved"}
    /\ updates \in BOOLEAN
    /\ edits \in 0 .. MaxEdits
    /\ moves \in 0 .. MaxMoves
    /\ published \in documents \cup {NoDocuments}
    /\ reading \in BOOLEAN
    /\ forced \in BOOLEAN
    /\ reader \in [Readers -> Goroutine]
    /\ pc \in {"idle", "source", "load", "remote", "lock"}
    /\ accessor \in {"Account", "Preferences"}
    /\ path \in IF pc \in {"idle", "source"} THEN {NoPath} ELSE Paths
    /\ seen \in documents \cup {NoDocuments}
    /\ remote \in BOOLEAN
    /\ drawing \in Answer
    /\ drawn \in [account : Answer, prefs : Answer]
    /\ asked \in BOOLEAN
    /\ unforced \in [Remote -> Nat]

-------------------------------------------------------------------------------
\* The menu is drawn once at startup, before anything is resolved.
Init ==
    /\ source = NoPath
    /\ accountOf \in [Paths -> FirstVersions]
    /\ prefsOf \in [Paths -> FirstVersions]
    /\ poll = "waiting"
    /\ updates = FALSE
    /\ edits = 0
    /\ moves = 0
    /\ published = NoDocuments
    /\ reading = FALSE
    /\ forced = FALSE
    /\ reader = [r \in Readers |-> NotRunning]
    /\ pc = "source"
    /\ accessor = "Account"
    /\ path = NoPath
    /\ seen = NoDocuments
    /\ remote = FALSE
    /\ drawing = Unknown
    /\ drawn = [account |-> Unknown, prefs |-> Unknown]
    /\ asked = FALSE
    /\ unforced = [p \in Remote |-> 0]

-------------------------------------------------------------------------------
(* The environment *)

\* Another program rewrites a document in place.
EditAccount(p, v) ==
    /\ edits < MaxEdits
    /\ accountOf[p] # v
    /\ accountOf' = [accountOf EXCEPT ![p] = v]
    /\ edits' = edits + 1
    /\ asked' = FALSE
    /\ UNCHANGED <<poller, prefsOf, updates, moves, cache, reader, ui, unforced>>

EditPreferences(p, v) ==
    /\ edits < MaxEdits
    /\ prefsOf[p] # v
    /\ prefsOf' = [prefsOf EXCEPT ![p] = v]
    /\ edits' = edits + 1
    /\ UNCHANGED <<poller, accountOf, updates, moves, cache, reader, ui, history>>

\* A poll whose Token resolves another path.
FetchNewPath(p) ==
    /\ poll = "waiting"
    /\ source # p
    /\ source = NoPath \/ moves < MaxMoves
    /\ source' = p
    /\ poll' = "moved"
    /\ moves' = IF source = NoPath THEN moves ELSE moves + 1
    /\ unforced' = [q \in Remote |-> IF q = p THEN 0 ELSE unforced[q]]
    /\ UNCHANGED <<files, updates, edits, cache, reader, ui, asked>>

\* A poll is recorded and onUpdate signals a redraw. One whose Token found the
\* credentials where they were has nothing to show for itself before this.
PollDone ==
    /\ poll' = "waiting"
    /\ updates' = TRUE
    /\ UNCHANGED <<source, files, bounds, cache, reader, ui, history>>

-------------------------------------------------------------------------------
(* The UI goroutine: inUse, called by Account and then by Preferences *)

\* inUse returns: the locals end, and so does the accessor. Account hands what it
\* got to the draw, which Preferences completes.
Answers(account, prefs) ==
    /\ path' = NoPath
    /\ seen' = NoDocuments
    /\ remote' = FALSE
    /\ IF accessor = "Account"
       THEN /\ accessor' = "Preferences"
            /\ pc' = "source"
            /\ drawing' = account
            /\ UNCHANGED drawn
       ELSE /\ accessor' = "Account"
            /\ pc' = "idle"
            /\ drawing' = Unknown
            /\ drawn' = [account |-> drawing, prefs |-> prefs]

\* Mutant: a path not resolved yet is read like any other.
inUseSourceUnresolved ==
    /\ pc = "source"
    /\ path' = source
    /\ pc' = "load"
    /\ UNCHANGED <<poller, files, updates, bounds, cache, reader, accessor,
                   seen, remote, drawing, drawn, history>>

inUseSource ==
    /\ pc = "source"
    /\ source # NoPath
    /\ path' = source
    /\ pc' = "load"
    /\ UNCHANGED <<poller, files, updates, bounds, cache, reader, accessor,
                   seen, remote, drawing, drawn, history>>

\* Nothing is resolved yet: no lock is taken and no read is scheduled.
inUseNothing ==
    /\ pc = "source"
    /\ source = NoPath
    /\ Answers(Unknown, Unknown)
    /\ UNCHANGED <<poller, files, updates, bounds, cache, reader, history>>

inUseLoad ==
    /\ pc = "load"
    /\ seen' = published
    /\ pc' = "remote"
    /\ UNCHANGED <<poller, files, updates, bounds, cache, reader, accessor, path,
                   remote, drawing, drawn, history>>

\* SourceIsRemote looks the path up again.
inUseRemote ==
    /\ pc = "remote"
    /\ remote' = (source \in Remote)
    /\ pc' = "lock"
    /\ UNCHANGED <<poller, files, updates, bounds, cache, reader, accessor, path,
                   seen, drawing, drawn, history>>

\* Mutant: documents of another path will do.
describesAnySource == seen # NoDocuments

describesSource == seen # NoDocuments /\ seen.path = path

\* Mutant: a remote source is read like a local one.
dueAlways == ~reading

\* Mutant: nothing is read twice unasked.
dueOnce == (~describesSource \/ forced) /\ ~reading

\* Mutant: no single-flight guard.
dueWhileReading == ~describesSource \/ forced \/ ~remote

due == (~describesSource \/ forced \/ ~remote) /\ ~reading

\* Goroutines are alike: the one that starts is whichever is named first.
NextReader == CHOOSE r \in Readers : reader[r].phase = "idle"

\* The locked section, run, which starts a goroutine, and the return: documents of
\* another path are as good as none.
inUseLock ==
    /\ pc = "lock"
    /\ IF due
       THEN /\ reading' = TRUE
            /\ forced' = FALSE
            /\ \E r \in Readers : reader[r].phase = "idle"
            /\ reader' = [reader EXCEPT ![NextReader] =
                  [NotRunning EXCEPT !.phase = "account", !.path = path,
                                     !.forced = forced]]
            /\ unforced' = [q \in Remote |->
                  unforced[q] + IF q = path /\ q = source /\ ~forced THEN 1 ELSE 0]
       ELSE UNCHANGED <<reading, forced, reader, unforced>>
    /\ IF describesSource
       THEN Answers(seen.account, seen.prefs)
       ELSE Answers(Unknown, Unknown)
    /\ UNCHANGED <<poller, files, updates, bounds, published, asked>>

\* The event loop takes the redraw signal.
Apply ==
    /\ pc = "idle"
    /\ updates
    /\ updates' = FALSE
    /\ pc' = "source"
    /\ UNCHANGED <<poller, files, bounds, cache, reader, accessor, path, seen, remote, drawing,
                   drawn, history>>

\* A click on Refresh the poller accepts, which calls Invalidate.
Invalidate ==
    /\ pc = "idle"
    /\ forced' = TRUE
    /\ asked' = TRUE
    /\ unforced' = [q \in Remote |-> 0]
    /\ UNCHANGED <<poller, files, updates, bounds, published, reading, reader, ui>>

-------------------------------------------------------------------------------
(* Cache.read *)

\* Mutant: the account is carried over whatever path it was read beside.
carriesForwardAnyPath(r) == ~reader[r].forced /\ published # NoDocuments

carriesForward(r) ==
    /\ ~reader[r].forced
    /\ published # NoDocuments
    /\ published.path = reader[r].path

ReadAccount(r) ==
    /\ reader[r].phase = "account"
    /\ reader' = [reader EXCEPT
          ![r].phase = "prefs",
          ![r].previous = published,
          ![r].account =
             IF carriesForward(r) THEN published.account
             ELSE [beside |-> reader[r].path, says |-> accountOf[reader[r].path]]]
    /\ UNCHANGED <<poller, files, updates, bounds, cache, ui, history>>

ReadPreferences(r) ==
    /\ reader[r].phase = "prefs"
    /\ reader' = [reader EXCEPT
          ![r].phase = "store",
          ![r].prefs = [beside |-> reader[r].path, says |-> prefsOf[reader[r].path]]]
    /\ UNCHANGED <<poller, files, updates, bounds, cache, ui, history>>

\* Mutant: two errors are equal only if they are the same value, which two
\* reads never return.
equalsByIdentity(a, b) ==
    a = b /\ a.account.says \notin Unreadable /\ a.prefs.says \notin Unreadable

\* Errors are compared by message, documents by value.
equals(a, b) == a = b

StoreFresh(r) ==
    LET fresh == [path |-> reader[r].path, account |-> reader[r].account,
                  prefs |-> reader[r].prefs]
        changed == ~equals(fresh, reader[r].previous)
    IN  /\ reader[r].phase = "store"
        /\ published' = IF changed THEN fresh ELSE published
        /\ reader' = [reader EXCEPT ![r] =
              [NotRunning EXCEPT !.phase = "release", !.changed = changed]]
        /\ UNCHANGED <<poller, files, updates, bounds, reading, forced, ui, history>>

\* Mutant: the read that ends answers whoever asked meanwhile.
ReleaseAndForget(r) ==
    /\ reader[r].phase = "release"
    /\ reading' = FALSE
    /\ forced' = FALSE
    /\ reader' = [reader EXCEPT ![r] =
          IF reader[r].changed THEN [NotRunning EXCEPT !.phase = "announce"]
                               ELSE NotRunning]
    /\ UNCHANGED <<poller, files, updates, bounds, published, ui, history>>

Release(r) ==
    /\ reader[r].phase = "release"
    /\ reading' = FALSE
    /\ reader' = [reader EXCEPT ![r] =
          IF reader[r].changed THEN [NotRunning EXCEPT !.phase = "announce"]
                               ELSE NotRunning]
    /\ UNCHANGED <<poller, files, updates, bounds, published, forced, ui, history>>

\* onChange, which is the poller's redraw.
Announce(r) ==
    /\ reader[r].phase = "announce"
    /\ updates' = TRUE
    /\ reader' = [reader EXCEPT ![r] = NotRunning]
    /\ UNCHANGED <<poller, files, bounds, cache, ui, history>>

-------------------------------------------------------------------------------
UI == inUseSource \/ inUseNothing \/ inUseLoad \/ inUseRemote \/ inUseLock \/ Apply
Read(r) ==
    ReadAccount(r) \/ ReadPreferences(r) \/ StoreFresh(r) \/ Release(r) \/ Announce(r)
Edit ==
    \E p \in Paths, v \in Versions : EditAccount(p, v) \/ EditPreferences(p, v)

Next ==
    \/ UI
    \/ Invalidate
    \/ \E r \in Readers : Read(r)
    \/ \E p \in Paths : FetchNewPath(p)
    \/ PollDone
    \/ Edit

\* Goroutines that can run do run, files answer in the end, and the poller polls
\* for ever. Nobody has to edit a file or to click.
Fairness ==
    /\ WF_vars(UI)
    /\ \A r \in Readers : WF_vars(Read(r))
    /\ WF_vars(PollDone)

Spec == Init /\ [][Next]_vars

FairSpec == Spec /\ Fairness

-------------------------------------------------------------------------------
(* Safety *)

Live(r) == reader[r].phase \in {"account", "prefs", "store", "release"}

\* The single-flight guard: one goroutine at most is between the lock that set
\* reading and the lock that clears it, which is what lets it compare what it read
\* with a previous value nobody replaces (cache.go:179).
SingleWriter ==
    /\ \A r, s \in Readers : Live(r) /\ Live(s) => r = s
    /\ \A r \in Readers : Live(r) => reading
    /\ \A r \in Readers : reader[r].phase = "store" => reader[r].previous = published

\* Documents are published under the path they were read beside: the account
\* carried forward from an earlier read is never another installation's
\* (cache.go:144).
NoForeignDocuments ==
    published # NoDocuments =>
        /\ published.account.beside = published.path
        /\ published.prefs.beside = published.path

\* While a path another operating system serves is in use, and between two
\* requests of the user, a read of its documents is scheduled twice at most: the
\* second time when the first read ends between the load and the lock of an
\* accessor.
RemoteReadTwiceAtMost == \A p \in Remote : unforced[p] <= 2

-------------------------------------------------------------------------------
(* Liveness, once the files and the path are left alone: they change a
   bounded number of times *)

\* A reading that announces itself causes a redraw, which causes a reading: this
\* comes to an end, also when every reading is the same error (cache.go:217).
AnnouncementsEnd == <>[](\A r \in Readers : reader[r].phase # "announce")

\* The menu ends up with both documents of the installation in use.
MenuFollowsSource ==
    <>[](source # NoPath => /\ drawn.account.beside = source
                            /\ drawn.prefs.beside = source)

\* On a local installation it ends up with what the preferences say now.
PreferencesCatchUp ==
    <>[](source \in Paths \ Remote => drawn.prefs.says = prefsOf[source])

\* Wherever it is, it ends up with what the account says now if the user asked
\* after it last changed, though a read of the old one was in flight (cache.go:74).
InvalidateHonoured ==
    <>[](source # NoPath /\ asked => drawn.account.says = accountOf[source])

-------------------------------------------------------------------------------
(* What the documentation says and the code does not do *)

\* "From a remote source they are read once and then only when the user asks"
\* (cache.go:52).
RemoteReadOnce == \A p \in Remote : unforced[p] <= 1

===============================================================================
