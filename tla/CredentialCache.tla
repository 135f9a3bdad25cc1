---------------------------- MODULE CredentialCache ----------------------------
(***************************************************************************)
(* internal/credential (Cache.Token, reload, Discover, Load) under the one   *)
(* caller it has, usageapi.Client.Fetch, with the credential files that       *)
(* vendor CLIs rewrite and that a stopped WSL distribution makes unreachable. *)
(*                                                                          *)
(* Every load of a file is a step of its own, and time may pass and files    *)
(* may change between any two steps: a load over \\wsl.localhost can take as *)
(* long as starting another operating system. Cache.mu is held all along;    *)
(* the only other reader of the cache, Source, takes no lock.                *)
(***************************************************************************)
EXTENDS Naturals, Sequences

CONSTANTS
    Paths,          \* every path a credential file may be found at
    NoPath,         \* "": no path configured, or none resolved yet
    Configured,     \* the values of the credentialPath setting to consider
    Native,         \* Candidates before the distributions, in order
    Distros,        \* the candidates wsl.exe enumerates, in order
    SkewMargin,     \* credential.DefaultSkewMargin
    SkewGuard,      \* usageapi.credentialSkewGuard
    Lifetime,       \* how long a renewed token lives
    NoToken,        \* the nil *Credentials
    Statuses,       \* what an endpoint may answer to a valid token
    MaxTime,        \* bound: the clock stops here
    MaxChanges      \* bound: renewals, outages, recoveries, removals

ASSUME CredentialConstants ==
    /\ NoPath \notin Paths
    /\ Configured \subseteq Paths \cup {NoPath}
    /\ Native \in Seq(Paths)
    /\ Distros \in Seq(Paths)
    /\ SkewMargin \in Nat
    /\ SkewGuard \in Nat
    /\ Lifetime \in Nat
    /\ NoToken \notin [source : Paths, expiresAt : Nat]
    /\ MaxTime \in Nat
    /\ MaxChanges \in Nat

VARIABLES
    clock,
    content,        \* per path: no file, one no decoder accepts, or an expiry
    reachable,      \* per path: whether opening it reaches the file
    changes,
    \* credential.Cache
    configured,     \* Cache.configuredPath
    current,        \* Cache.current
    resolved,       \* Cache.resolvedPath
    \* the call of Fetch under way
    pc,             \* "idle", "reload", "discover", "probe", "settle", "check", "sent"
    candidates,     \* those Discover has not probed yet
    loaded,         \* what reload returns: credentials or a failure kind
    missed,         \* whether this call found the resolved path unreachable
    held,           \* the credentials Fetch got from Token
    \* what Fetch returned last
    result

credFile == <<content, reachable>>
cache == <<configured, current, resolved>>
call == <<candidates, loaded, missed, held>>
vars == <<clock, content, reachable, changes, configured, current, resolved, pc,
          candidates, loaded, missed, held, result>>

Credentials == [source : Paths, expiresAt : Nat]

\* What a file holds: nothing, what no decoder accepts, or a token.
Content == [holds : {"nothing", "malformed", "token"}, expiresAt : Nat]

\* A load, and reload, return credentials or the kind of a Failure. Malformed
\* stands for Incomplete too, which nothing tells apart from it.
FailureKind == {"Absent", "Unreadable", "Malformed"}
Loaded == [kind : FailureKind \cup {"Loaded"}, creds : Credentials \cup {NoToken}]

Failure(kind) == [kind |-> kind, creds |-> NoToken]

\* What one poll comes to, as the poller sees it.
FetchErrorKind == {"Unauthorized", "RateLimited", "Transient", "Protocol"}
FetchResult == FetchErrorKind \cup {"None", "Snapshot"}

IsUsableAt(creds, t, margin) == t + margin < creds.expiresAt

TypeOK ==
    /\ clock \in 0 .. MaxTime
    /\ content \in [Paths -> Content]
    /\ reachable \in [Paths -> BOOLEAN]
    /\ changes \in 0 .. MaxChanges
    /\ configured \in Paths \cup {NoPath}
    /\ current \in Credentials \cup {NoToken}
    /\ resolved \in Paths \cup {NoPath}
    /\ pc \in {"idle", "reload", "discover", "probe", "settle", "check", "sent"}
    /\ candidates \in Seq(Paths)
    /\ loaded \in Loaded
    /\ missed \in BOOLEAN
    /\ held \in Credentials \cup {NoToken}
    /\ result \in FetchResult

Init ==
    /\ clock = 0
    /\ content \in [Paths -> {[holds |-> "nothing", expiresAt |-> 0],
                              [holds |-> "token", expiresAt |-> Lifetime]}]
    /\ reachable = [p \in Paths |-> TRUE]
    /\ changes = 0
    /\ configured \in Configured
    /\ current = NoToken
    /\ resolved = NoPath
    /\ pc = "idle"
    /\ candidates = <<>>
    /\ loaded = Failure("Absent")
    /\ missed = FALSE
    /\ held = NoToken
    /\ result = "None"

-------------------------------------------------------------------------------
(* The files *)

Rewrite(p, holds) ==
    /\ changes < MaxChanges
    /\ content' = [content EXCEPT ![p] =
          [holds |-> holds,
           expiresAt |-> IF holds = "token" THEN clock + Lifetime ELSE 0]]
    /\ content' # content
    /\ changes' = changes + 1
    /\ UNCHANGED <<clock, reachable, cache, pc, call, result>>

\* A distribution stops, or comes back: its files are where they were.
Outage(p) ==
    /\ changes < MaxChanges
    /\ reachable' = [reachable EXCEPT ![p] = ~@]
    /\ changes' = changes + 1
    /\ UNCHANGED <<clock, content, cache, pc, call, result>>

Load(p) ==
    CASE ~reachable[p] -> Failure("Unreadable")
      [] reachable[p] /\ content[p].holds = "nothing" -> Failure("Absent")
      [] reachable[p] /\ content[p].holds = "malformed" -> Failure("Malformed")
      [] reachable[p] /\ content[p].holds = "token" ->
            [kind |-> "Loaded",
             creds |-> [source |-> p, expiresAt |-> content[p].expiresAt]]

-------------------------------------------------------------------------------
(* Cache.Token *)

\* Mutant: the cached token is good until it has expired.
cachedMarginNone == 0

cachedMargin == SkewMargin

CurrentUsable(margin) == current # NoToken /\ IsUsableAt(current, clock, margin)

\* The poller calls Fetch, and the cached token will do.
TokenCached ==
    /\ pc = "idle"
    /\ CurrentUsable(cachedMargin)
    /\ held' = current
    /\ missed' = FALSE
    /\ pc' = "check"
    /\ UNCHANGED <<clock, credFile, changes, cache, candidates, loaded, result>>

TokenStale ==
    /\ pc = "idle"
    /\ ~CurrentUsable(cachedMargin)
    /\ pc' = IF resolved = NoPath THEN "discover" ELSE "reload"
    /\ missed' = FALSE
    /\ UNCHANGED <<clock, credFile, changes, cache, candidates, loaded,
                   held, result>>

\* reload tries the path that yielded credentials before.
ReloadResolved ==
    /\ pc = "reload"
    /\ loaded' = Load(resolved)
    /\ missed' = ~reachable[resolved]
    /\ pc' = IF loaded'.kind = "Loaded" THEN "settle" ELSE "discover"
    /\ UNCHANGED <<clock, credFile, changes, cache, candidates, held, result>>

\* Mutant: a configured path is only the first candidate.
DiscoverConfiguredFirst ==
    /\ pc = "discover"
    /\ configured # NoPath
    /\ loaded' = Load(configured)
    /\ IF loaded'.kind \in {"Absent", "Unreadable"}
       THEN pc' = "probe" /\ candidates' = Native
       ELSE pc' = "settle" /\ UNCHANGED candidates
    /\ UNCHANGED <<clock, credFile, changes, cache, missed, held, result>>

\* A configured path is authoritative: nothing else is looked at.
DiscoverConfigured ==
    /\ pc = "discover"
    /\ configured # NoPath
    /\ loaded' = Load(configured)
    /\ pc' = "settle"
    /\ UNCHANGED <<clock, credFile, changes, cache, candidates, missed, held,
                   result>>

\* Candidates: without wsl.exe, those of this machine still count.
Enumerate ==
    /\ pc = "discover"
    /\ configured = NoPath
    /\ candidates' \in {Native, Native \o Distros}
    /\ pc' = "probe"
    /\ UNCHANGED <<clock, credFile, changes, cache, loaded, missed, held, result>>

\* Discover passes over a candidate that is absent or unreadable, and returns
\* what it finds at the first other one.
Probe ==
    /\ pc = "probe"
    /\ candidates # <<>>
    /\ loaded' = Load(Head(candidates))
    /\ IF loaded'.kind \in {"Absent", "Unreadable"}
       THEN candidates' = Tail(candidates) /\ UNCHANGED pc
       ELSE candidates' = <<>> /\ pc' = "settle"
    /\ UNCHANGED <<clock, credFile, changes, cache, missed, held, result>>

\* No candidate is left. An error of wsl.exe is none of the kinds of Failure, and
\* Token treats it like any of them.
ProbeNone ==
    /\ pc = "probe"
    /\ candidates = <<>>
    /\ loaded' = Failure("Absent")
    /\ pc' = "settle"
    /\ UNCHANGED <<clock, credFile, changes, cache, candidates, missed, held,
                   result>>

Fail(kind) ==
    /\ result' = kind
    /\ held' = NoToken
    /\ pc' = "idle"

\* Mutant: in an outage any cached token is better than none.
SettleFailedAnyToken ==
    /\ pc = "settle"
    /\ loaded.kind # "Loaded"
    /\ IF current # NoToken
       THEN held' = current /\ pc' = "check" /\ UNCHANGED result
       ELSE Fail("Unauthorized")
    /\ UNCHANGED <<clock, credFile, changes, cache, candidates, loaded, missed>>

\* The source did not answer. The cached token stands in for as long as it has
\* not expired; in any case it is kept.
SettleFailed ==
    /\ pc = "settle"
    /\ loaded.kind # "Loaded"
    /\ IF CurrentUsable(0)
       THEN held' = current /\ pc' = "check" /\ UNCHANGED result
       ELSE Fail("Unauthorized")
    /\ UNCHANGED <<clock, credFile, changes, cache, candidates, loaded, missed>>

\* The source answered. Its path is recorded also when its token is too old to
\* use, and then no token is kept.
SettleLoaded ==
    /\ pc = "settle"
    /\ loaded.kind = "Loaded"
    /\ resolved' = loaded.creds.source
    /\ IF IsUsableAt(loaded.creds, clock, SkewMargin)
       THEN /\ current' = loaded.creds
            /\ held' = loaded.creds
            /\ pc' = "check"
            /\ UNCHANGED result
       ELSE /\ current' = NoToken
            /\ Fail("Unauthorized")
    /\ UNCHANGED <<clock, credFile, changes, configured, candidates, loaded, missed>>

Token ==
    \/ TokenCached \/ TokenStale
    \/ ReloadResolved \/ DiscoverConfigured \/ Enumerate \/ Probe \/ ProbeNone
    \/ SettleFailed \/ SettleLoaded

-------------------------------------------------------------------------------
(* Client.Fetch, once Token has returned credentials *)

\* Fetch applies a margin of its own to whatever Token returned.
Send ==
    /\ pc = "check"
    /\ IF IsUsableAt(held, clock, SkewGuard)
       THEN pc' = "sent" /\ UNCHANGED <<held, result>>
       ELSE Fail("Unauthorized")
    /\ UNCHANGED <<clock, credFile, changes, cache, candidates, loaded, missed>>

\* Mutant: what is not known is passed on as it is.
classifyUnknown(status) ==
    CASE status \in {401, 403} -> "Unauthorized"
      [] status = 429 -> "RateLimited"
      [] status >= 500 -> "Transient"
      [] OTHER -> "Unknown"

classify(status) ==
    CASE status \in {401, 403} -> "Unauthorized"
      [] status = 429 -> "RateLimited"
      [] status >= 500 -> "Transient"
      [] OTHER -> "Protocol"

\* The answer, or none. A document that was received may still be cut off, or be
\* one the decoder does not know.
Answer ==
    /\ pc = "sent"
    /\ \/ Fail("Transient")
       \/ \E status \in Statuses \ {200} : Fail(classify(status))
       \/ /\ 200 \in Statuses
          /\ clock < held.expiresAt
          /\ \E kind \in {"Snapshot", "Transient", "Protocol"} : Fail(kind)
    /\ UNCHANGED <<clock, credFile, changes, cache, candidates, loaded, missed>>

-------------------------------------------------------------------------------
Tick ==
    /\ clock < MaxTime
    /\ clock' = clock + 1
    /\ UNCHANGED <<credFile, changes, cache, pc, call, result>>

Next ==
    \/ \E p \in Paths : Outage(p) \/ \E holds \in {"nothing", "malformed", "token"} :
          Rewrite(p, holds)
    \/ Token
    \/ Send
    \/ Answer
    \/ Tick

\* The poller polls for ever, loads return, and a request ends. Neither time nor
\* the CLI that renews tokens is bound to go on.
Fairness == WF_vars(Token) /\ WF_vars(Send) /\ WF_vars(Answer)

Spec == Init /\ [][Next]_vars

FairSpec == Spec /\ Fairness

-------------------------------------------------------------------------------
\* With a path configured, no other account is ever polled or described, whatever
\* happens to the file and whatever other files there are (locate_windows.go:144).
PinnedAccountOnly ==
    configured # NoPath =>
        /\ resolved \in {configured, NoPath}
        /\ current # NoToken => current.source = configured
        /\ held # NoToken => held.source = configured

\* Whatever Token returns has not expired, though the file it stands for could
\* not be read and however long that took (cache.go:70).
TokenIsLive ==
    [][pc # "check" /\ pc' = "check" => clock < held'.expiresAt]_vars

\* Where a call of Token with nothing usable in the cache looks first.
FirstLook ==
    CASE resolved # NoPath -> resolved
      [] resolved = NoPath /\ configured # NoPath -> configured
      [] resolved = NoPath /\ configured = NoPath -> Head(Native)

\* A token that stays usable to the end of the model's time.
Renewed(p) ==
    /\ reachable[p]
    /\ content[p].holds = "token"
    /\ content[p].expiresAt > MaxTime + SkewMargin

\* Once the CLI has renewed the token in the file in use, polls reach the vendor
\* again: no cached token keeps the new one out.
RenewalResumesPolling == <>[]Renewed(FirstLook) => []<>(pc = "sent")

-------------------------------------------------------------------------------
(* What the documentation says and the code does not do *)

\* "A transient WSL outage cannot silently downgrade a usable token"
\* (cache.go:56): while the cached token is alive, an unreachable source is left
\* for another one only if that has a token to offer.
OutageKeepsToken ==
    [][missed /\ CurrentUsable(0) /\ resolved' # resolved
         => current' # NoToken]_vars

\* "outage with a still-valid token must not fail the poll" (cache_test.go:172):
\* the token that stands in for an unreachable source is used for the request.
OutageKeepsPolling ==
    [][pc = "check" /\ missed /\ loaded.kind # "Loaded" /\ clock < held.expiresAt
         => pc' # "idle"]_vars

===============================================================================
