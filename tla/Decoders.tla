------------------------------- MODULE Decoders -------------------------------
(***************************************************************************)
(* What the two vendors' decode functions make of an answer: which meters,   *)
(* in which order, and nothing where there is too little to show.            *)
(*                                                                          *)
(* An answer is the JSON document's fields with Nil for an absent one; an    *)
(* answer that is no JSON is Nil. Names are sequences of characters, as the  *)
(* vendor spells them.                                                       *)
(***************************************************************************)
EXTENDS QuotaModel, SequencesExt

CONSTANTS
    MaxRelativeReset,   \* maxRelativeReset, a duration
    Epoch,              \* seconds from the zero time to 1970
    DollarExponent      \* dollarExponent

ASSUME DecoderConstants ==
    /\ MaxRelativeReset \in 0 .. Half - 1
    /\ Epoch \in 1 .. Half - 1
    /\ DollarExponent \in Nat

-------------------------------------------------------------------------------
(* The answers. JSON can leave any field out; a number that the code reads into
   an integer has its width, a percentage has not. *)

Optional(S) == S \cup {Nil}
Word == Seq({"letter"} \X STRING)

limitEntry == [kind : Word, percent : Optional(Int), resetsAt : Optional(Int),
               severity : STRING, isActive : BOOLEAN]
legacyForm == [utilization : Optional(Int), resetsAt : Optional(Int)]
money == [minor : Int64, currency : {"USD"} \cup STRING, exponent : Nat]
spendBlock == [enabled : BOOLEAN, percent : Optional(Int), severity : STRING,
               used : money, limit : Optional(money)]
AnthropicDocument == [limits : Seq(limitEntry), fiveHour : Optional(legacyForm),
                      sevenDay : Optional(legacyForm), spend : Optional(spendBlock)]

window == [usedPercent : Int, resetAt : Optional(Int64), resetAfterSeconds : Optional(Int64)]
rateLimit == [primary : Optional(window), secondary : Optional(window)]
\* A balance is a sign, perhaps a dollar sign, digits (Nil if they are none), and
\* perhaps a point with so many digits behind it.
dollarText == [negative : BOOLEAN, dollar : BOOLEAN, whole : Optional(Nat),
               fraction : Optional(Nat), places : Optional(Nat)]
credits == [hasCredits : BOOLEAN, unlimited : BOOLEAN, balance : dollarText]
OpenaiDocument == [planType : Word, rateLimit : Optional(rateLimit),
                   codeReviewRateLimit : Optional(rateLimit), credits : Optional(credits)]

-------------------------------------------------------------------------------
(* What both make of it *)

\* The kinds the code spells out itself, each one character here.
Kind(name) == << <<"letter", name>> >>
OwnKinds == {"session", "weekly_all", "spend", "weekly", "code_review_session",
             "code_review_weekly", "credits"}
MeterKind == Word \cup {Kind(name) : name \in OwnKinds}

Present(meters) ==
    FlattenSeq([i \in DOMAIN meters |-> IF meters[i] = Nil THEN <<>> ELSE <<meters[i]>>])

Meter == [shape : {"utilization", "balance"}, id : {"anthropic", "openai"} \X MeterKind,
          name : MeterKind, percent : Int, reset : Optional(Int), level : Severity,
          active : BOOLEAN, used : Optional(money), limit : Optional(money)]
Snapshots == [vendor : {"anthropic", "openai"}, plan : Word, meters : Seq(Meter),
              observedAt : Int]

\* An answer without a meter is an error.
Snapshot(vendor, plan, meters, observedAt) ==
    IF meters = <<>> THEN Nil
    ELSE [vendor |-> vendor, plan |-> plan, meters |-> meters, observedAt |-> observedAt]

-------------------------------------------------------------------------------
(* anthropic/decode.go. An instant that does not parse is Nil already. *)

parseSeverity(word) ==
    CASE word = "warning" -> SeverityWarning
      [] word \in {"critical", "exceeded"} -> SeverityCritical
      [] OTHER -> SeverityNormal

normalizedWindows(entries) ==
    LET Window(e) == IF e.kind = <<>> \/ e.percent = Nil THEN Nil
                     ELSE Utilization(<<"anthropic", e.kind>>, e.kind, e.percent, e.resetsAt,
                                      parseSeverity(e.severity), e.isActive)
    IN  Present([i \in DOMAIN entries |-> Window(entries[i])])

legacyWindow(kind, w) ==
    IF w = Nil THEN Nil
    ELSE IF w.utilization = Nil THEN Nil
    ELSE Utilization(<<"anthropic", kind>>, kind, w.utilization, w.resetsAt,
                     SeverityNormal, FALSE)

legacyWindows(fiveHour, sevenDay) ==
    Present(<<legacyWindow(Kind("session"), fiveHour),
              legacyWindow(Kind("weekly_all"), sevenDay)>>)

spendBalance(s) ==
    IF s = Nil THEN Nil
    ELSE IF ~s.enabled THEN Nil
    ELSE Balance(<<"anthropic", Kind("spend")>>, Kind("spend"),
                 IF s.percent = Nil THEN 0 ELSE s.percent,
                 parseSeverity(s.severity), s.used, s.limit)

decodeAnthropic(doc, plan, observedAt) ==
    IF doc = Nil THEN Nil
    ELSE LET normalized == normalizedWindows(doc.limits)
             windows == IF normalized # <<>> THEN normalized
                        ELSE legacyWindows(doc.fiveHour, doc.sevenDay)
         IN  Snapshot("anthropic", plan, windows \o Present(<<spendBalance(doc.spend)>>),
                      observedAt)

-------------------------------------------------------------------------------
(* openai/decode.go *)

\* time.Unix counts from the zero time, in an int64 of seconds.
unixTime(seconds) ==
    LET since == wrap(seconds + Epoch)
    IN  IF since = 0 THEN Nil ELSE (since - Epoch) * Second

\* Mutant: the seconds a window states are not bounded.
windowResetUnbounded(w, now) ==
    IF w.resetAt # Nil THEN unixTime(w.resetAt)
    ELSE IF w.resetAfterSeconds = Nil THEN Nil
    ELSE now + wrap(w.resetAfterSeconds * Second)

windowReset(w, now) ==
    IF w.resetAt # Nil THEN unixTime(w.resetAt)
    ELSE IF w.resetAfterSeconds = Nil THEN Nil
    ELSE IF w.resetAfterSeconds \in 0 .. MaxRelativeReset \div Second
         THEN now + wrap(w.resetAfterSeconds * Second)
    ELSE Nil

windowMeter(kind, w, active, now) ==
    IF w = Nil THEN Nil
    ELSE Utilization(<<"openai", Kind(kind)>>, Kind(kind), w.usedPercent,
                     windowReset(w, now), SeverityNormal, active)

primaryWindow(r) == IF r = Nil THEN Nil ELSE r.primary
secondaryWindow(r) == IF r = Nil THEN Nil ELSE r.secondary

parseDollarString(s) ==
    LET point == s.places # Nil
        minor == s.whole * tenTo[DollarExponent]
                     + (IF point THEN s.fraction * tenTo[DollarExponent - s.places] ELSE 0)
    IN  IF ~s.dollar \/ s.whole = Nil THEN Nil
        ELSE IF point /\ (s.fraction = Nil \/ s.places > DollarExponent) THEN Nil
        ELSE IF minor \notin Int64 THEN Nil
        ELSE Money(IF s.negative THEN -minor ELSE minor, "USD", DollarExponent)

creditsBalance(c) ==
    IF c = Nil THEN Nil
    ELSE IF ~c.hasCredits \/ c.unlimited THEN Nil
    ELSE IF parseDollarString(c.balance) = Nil THEN Nil
    ELSE Balance(<<"openai", Kind("credits")>>, Kind("credits"), 0, SeverityNormal,
                 parseDollarString(c.balance), Nil)

decodeOpenai(doc, observedAt) ==
    IF doc = Nil THEN Nil
    ELSE LET limit == doc.rateLimit
             review == doc.codeReviewRateLimit
             windows ==
                 <<windowMeter("session", primaryWindow(limit), TRUE, observedAt),
                   windowMeter("weekly", secondaryWindow(limit), FALSE, observedAt),
                   windowMeter("code_review_session", primaryWindow(review), FALSE, observedAt),
                   windowMeter("code_review_weekly", secondaryWindow(review), FALSE, observedAt)>>
         IN  Snapshot("openai", doc.planType,
                      Present(windows \o <<creditsBalance(doc.credits)>>), observedAt)
===============================================================================
