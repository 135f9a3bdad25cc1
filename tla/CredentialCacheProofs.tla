------------------------- MODULE CredentialCacheProofs -------------------------
(***************************************************************************)
(* Theorems of CredentialCache, for every value of its constants.           *)
(*                                                                          *)
(* The argument for a configured path: whatever a load finds is stamped with  *)
(* the path it was read at, discovery with a path configured reads that path  *)
(* and never comes to the candidates, and reload reads a path that a load      *)
(* found. So the one file ever read is the configured one.                   *)
(***************************************************************************)
EXTENDS CredentialCache, TLAPS

-------------------------------------------------------------------------------
(* Type correctness *)

\* A load comes to a failure, or to credentials stamped with the path.
LEMMA LoadStampsPath ==
    ASSUME TypeOK, NEW p \in Paths
    PROVE  /\ Load(p) \in Loaded
           /\ Load(p).kind = "Loaded" =>
                 Load(p).creds \in Credentials /\ Load(p).creds.source = p
<1>1. reachable[p] \in BOOLEAN /\ content[p] \in Content
  BY DEF TypeOK
<1>2. \A kind \in FailureKind : Failure(kind) \in Loaded /\ Failure(kind).kind # "Loaded"
  BY DEF Failure, FailureKind, Loaded
<1>3. CASE ~reachable[p]
  BY <1>2, <1>3 DEF Load, FailureKind
<1>4. CASE reachable[p] /\ content[p].holds = "nothing"
  BY <1>2, <1>4 DEF Load, FailureKind
<1>5. CASE reachable[p] /\ content[p].holds = "malformed"
  BY <1>2, <1>5 DEF Load, FailureKind
<1>6. CASE reachable[p] /\ content[p].holds = "token"
  <2> DEFINE creds == [source |-> p, expiresAt |-> content[p].expiresAt]
  <2>1. creds \in Credentials /\ creds.source = p
    BY <1>1 DEF Content, Credentials
  <2>2. Load(p) = [kind |-> "Loaded", creds |-> creds]
    BY <1>6 DEF Load
  <2>3. QED
    BY <2>1, <2>2 DEF Loaded
<1>7. QED
  BY <1>1, <1>3, <1>4, <1>5, <1>6 DEF Content

\* What Token keeps between its steps: the path it reloads is one a load found, and
\* what a load found is credentials.
Stepwise ==
    /\ pc = "reload" => resolved \in Paths
    /\ pc = "check" => held \in Credentials
    /\ pc = "settle" /\ loaded.kind = "Loaded" => loaded.creds \in Credentials

CredentialInv == TypeOK /\ Stepwise

\* The cache starts empty.
LEMMA InitCredential == Init => CredentialInv
<1> SUFFICES ASSUME Init PROVE CredentialInv
  OBVIOUS
<1> USE CredentialConstants DEF Init
<1>1. content \in [Paths -> Content]
  BY DEF Content
<1>2. loaded \in Loaded
  BY DEF Loaded, Failure, FailureKind
<1>3. candidates \in Seq(Paths)
  OBVIOUS
<1>4. result \in FetchResult
  BY DEF FetchResult
<1>5. /\ clock \in 0 .. MaxTime
      /\ changes \in 0 .. MaxChanges
      /\ configured \in Paths \cup {NoPath}
      /\ resolved \in Paths \cup {NoPath}
      /\ reachable \in [Paths -> BOOLEAN]
  OBVIOUS
<1>6. TypeOK
  <2> HIDE DEF Init
  <2>1. /\ current = NoToken /\ held = NoToken
        /\ missed = FALSE /\ pc = "idle"
    BY DEF Init
  <2>2. QED
    BY <1>1, <1>2, <1>3, <1>4, <1>5, <2>1 DEF TypeOK
<1>7. QED
  BY <1>6 DEF CredentialInv, Stepwise

\* Answers of a vendor are of the kinds the poller knows.
LEMMA ClassifyType ==
    ASSUME NEW status
    PROVE  classify(status) \in FetchErrorKind
BY DEF classify, FetchErrorKind

\* Every step keeps the types, and what Token keeps between its steps.
LEMMA NextCredential == CredentialInv /\ [Next]_vars => CredentialInv'
<1> SUFFICES ASSUME CredentialInv, [Next]_vars PROVE CredentialInv'
  OBVIOUS
<1> USE CredentialConstants DEF CredentialInv, TypeOK, Stepwise, credFile, cache, call
<1>1. CASE \E p \in Paths : Outage(p)
  BY <1>1 DEF Outage
<1>2. CASE \E p \in Paths, holds \in {"nothing", "malformed", "token"} : Rewrite(p, holds)
  <2> PICK p \in Paths, holds \in {"nothing", "malformed", "token"} : Rewrite(p, holds)
    BY <1>2
  <2> DEFINE written == [holds |-> holds,
                         expiresAt |-> IF holds = "token" THEN clock + Lifetime ELSE 0]
  <2>1. written \in Content
    BY DEF Content
  <2>2. content' = [content EXCEPT ![p] = written]
    BY DEF Rewrite
  <2>3. content' \in [Paths -> Content]
    BY <2>1, <2>2
  <2>4. QED
    BY <2>3 DEF Rewrite
<1>3. CASE TokenCached
  BY <1>3 DEF TokenCached, CurrentUsable
<1>4. CASE TokenStale
  BY <1>4 DEF TokenStale
<1>5. CASE ReloadResolved
  BY <1>5, LoadStampsPath DEF ReloadResolved
<1>6. CASE DiscoverConfigured
  BY <1>6, LoadStampsPath DEF DiscoverConfigured
<1>7. CASE Enumerate
  <2>1. Native \o Distros \in Seq(Paths)
    OBVIOUS
  <2>2. candidates' \in Seq(Paths)
    BY <1>7, <2>1 DEF Enumerate
  <2>3. QED
    BY <1>7, <2>2 DEF Enumerate
<1>8. CASE Probe
  <2>1. /\ Head(candidates) \in Paths
        /\ Tail(candidates) \in Seq(Paths)
        /\ <<>> \in Seq(Paths)
    BY <1>8 DEF Probe
  <2>2. candidates' \in Seq(Paths)
    BY <1>8, <2>1 DEF Probe
  <2>3. /\ loaded' \in Loaded
        /\ loaded'.kind = "Loaded" => loaded'.creds \in Credentials
        /\ pc' \in {"probe", "settle"}
    BY <1>8, <2>1, LoadStampsPath DEF Probe
  <2>4. QED
    BY <1>8, <2>2, <2>3 DEF Probe
<1>9. CASE ProbeNone
  BY <1>9 DEF ProbeNone, Failure, Loaded, FailureKind
<1>10. CASE SettleFailed
  BY <1>10 DEF SettleFailed, CurrentUsable, Fail, FetchResult, FetchErrorKind
<1>11. CASE SettleLoaded
  <2>1. loaded.creds \in Credentials /\ loaded.creds.source \in Paths
    BY <1>11 DEF SettleLoaded, Credentials
  <2>2. QED
    BY <1>11, <2>1 DEF SettleLoaded, Fail, FetchResult, FetchErrorKind
<1>12. CASE Send
  BY <1>12 DEF Send, Fail, FetchResult, FetchErrorKind
<1>13. CASE Answer
  <2>1. PICK kind \in FetchResult : Fail(kind)
    BY <1>13, ClassifyType DEF Answer, FetchResult, FetchErrorKind
  <2>2. QED
    BY <1>13, <2>1 DEF Answer, Fail
<1>14. CASE Tick
  BY <1>14 DEF Tick
<1>15. CASE UNCHANGED vars
  BY <1>15 DEF vars
<1>16. QED
  BY <1>1, <1>2, <1>3, <1>4, <1>5, <1>6, <1>7, <1>8, <1>9, <1>10, <1>11, <1>12,
     <1>13, <1>14, <1>15 DEF Next, Token

\* In every reachable state the cache, the call under way and its result have the
\* types the code gives them.
THEOREM TypeCorrect == Spec => []TypeOK
<1>1. Spec => []CredentialInv
  BY InitCredential, NextCredential, PTL DEF Spec
<1>2. CredentialInv => TypeOK
  BY DEF CredentialInv
<1>3. QED
  BY <1>1, <1>2, PTL

-------------------------------------------------------------------------------
(* A configured path is authoritative *)

\* The inductive invariant: with a path configured, discovery never comes to the
\* candidates, and a load that found credentials found them there.
PinnedInv ==
    /\ PinnedAccountOnly
    /\ configured # NoPath =>
          /\ pc # "probe"
          /\ pc = "settle" /\ loaded.kind = "Loaded" =>
                loaded.creds.source = configured

\* Every step keeps the cache on the configured path.
LEMMA NextPinned == CredentialInv /\ PinnedInv /\ [Next]_vars => PinnedInv'
<1> SUFFICES ASSUME CredentialInv, PinnedInv, [Next]_vars PROVE PinnedInv'
  OBVIOUS
<1> USE DEF PinnedInv, PinnedAccountOnly
<1>1. configured' = configured
  BY DEF Next, Token, Outage, Rewrite, TokenCached, TokenStale, ReloadResolved,
         DiscoverConfigured, Enumerate, Probe, ProbeNone, SettleFailed,
         SettleLoaded, Send, Answer, Tick, credFile, cache, call, vars
<1> SUFFICES ASSUME configured # NoPath
             PROVE  /\ resolved' \in {configured, NoPath}
                    /\ current' # NoToken => current'.source = configured
                    /\ held' # NoToken => held'.source = configured
                    /\ pc' # "probe"
                    /\ pc' = "settle" /\ loaded'.kind = "Loaded" =>
                          loaded'.creds.source = configured
  BY <1>1
<1>2. CASE \E p \in Paths : Outage(p)
  BY <1>2 DEF Outage, cache, call
<1>3. CASE \E p \in Paths, holds \in {"nothing", "malformed", "token"} : Rewrite(p, holds)
  BY <1>3 DEF Rewrite, cache, call
<1>4. CASE TokenCached
  BY <1>4 DEF TokenCached, CurrentUsable, cache
<1>5. CASE TokenStale
  BY <1>5 DEF TokenStale, cache
<1>6. CASE ReloadResolved
  <2>1. resolved \in Paths /\ resolved = configured
    BY <1>6, CredentialConstants DEF ReloadResolved, CredentialInv, Stepwise
  <2>2. Load(resolved).kind = "Loaded" => Load(resolved).creds.source = resolved
    BY <2>1, LoadStampsPath DEF CredentialInv
  <2>3. QED
    BY <1>6, <2>1, <2>2 DEF ReloadResolved, cache
<1>7. CASE DiscoverConfigured
  <2>1. Load(configured).kind = "Loaded" => Load(configured).creds.source = configured
    BY LoadStampsPath DEF CredentialInv, TypeOK
  <2>2. QED
    BY <1>7, <2>1 DEF DiscoverConfigured, cache
<1>8. CASE Enumerate
  BY <1>8 DEF Enumerate
<1>9. CASE Probe
  BY <1>9 DEF Probe
<1>10. CASE ProbeNone
  BY <1>10 DEF ProbeNone
<1>11. CASE SettleFailed
  BY <1>11 DEF SettleFailed, CurrentUsable, Fail, cache
<1>12. CASE SettleLoaded
  BY <1>12 DEF SettleLoaded, Fail
<1>13. CASE Send
  BY <1>13 DEF Send, Fail, cache
<1>14. CASE Answer
  <2>1. PICK kind : Fail(kind)
    BY <1>14 DEF Answer
  <2>2. QED
    BY <1>14, <2>1 DEF Answer, Fail, cache
<1>15. CASE Tick
  BY <1>15 DEF Tick, cache, call
<1>16. CASE UNCHANGED vars
  BY <1>16 DEF vars
<1>17. QED
  BY <1>2, <1>3, <1>4, <1>5, <1>6, <1>7, <1>8, <1>9, <1>10, <1>11, <1>12, <1>13,
     <1>14, <1>15, <1>16 DEF Next, Token

\* With a path configured, no other account is ever polled or described, whatever
\* the files and the candidates are (locate_windows.go:144).
THEOREM Pinned == Spec => []PinnedAccountOnly
<1>1. Init => PinnedInv
  BY DEF Init, PinnedInv, PinnedAccountOnly, Failure
<1>2. Spec => []PinnedInv
  BY <1>1, InitCredential, NextCredential, NextPinned, PTL DEF Spec
<1>3. PinnedInv => PinnedAccountOnly
  BY DEF PinnedInv
<1>4. QED
  BY <1>2, <1>3, PTL

-------------------------------------------------------------------------------
(* Tokens are alive *)

\* Whichever way Token comes to an answer, it looks at the expiry after the last
\* file it read (cache.go:61, 71, 83).
LEMMA NextTokenIsLive ==
    ASSUME CredentialInv, [Next]_vars, pc # "check", pc' = "check"
    PROVE  clock < held'.expiresAt
<1> USE CredentialConstants DEF CredentialInv, TypeOK, CurrentUsable, IsUsableAt,
        Credentials
<1>1. TokenCached \/ SettleFailed \/ SettleLoaded
  BY DEF Next, Token, Outage, Rewrite, TokenStale, ReloadResolved,
         DiscoverConfigured, Enumerate, Probe, ProbeNone, Send, Answer, Fail, Tick, vars
<1>2. CASE TokenCached
  BY <1>2 DEF TokenCached, cachedMargin
<1>3. CASE SettleFailed
  BY <1>3 DEF SettleFailed, Fail
<1>4. CASE SettleLoaded
  BY <1>4 DEF SettleLoaded, Fail, Stepwise
<1>5. QED
  BY <1>1, <1>2, <1>3, <1>4

\* Whatever Token returns has not expired, though the file it stands for could
\* not be read and however long that took (cache.go:70).
THEOREM TokensLive == Spec => TokenIsLive
<1>1. CredentialInv /\ [Next]_vars
        => [pc # "check" /\ pc' = "check" => clock < held'.expiresAt]_vars
  BY NextTokenIsLive
<1>2. QED
  BY <1>1, InitCredential, NextCredential, PTL DEF Spec, TokenIsLive

===============================================================================
