-------------------------------- MODULE MCMenu --------------------------------
(* Answers of the two vendors and what is on the way to them: values for TLC. *)
EXTENDS MenuView, TLC

Window(kind, percent, resetsAt, severity, active) ==
    [kind |-> kind, percent |-> percent, resetsAt |-> resetsAt, severity |-> severity,
     isActive |-> active]

Claude(limits, fiveHour, sevenDay, spend) ==
    [limits |-> limits, fiveHour |-> fiveHour, sevenDay |-> sevenDay, spend |-> spend]

Odd == <<Letter("&"), Letter("control"), Letter("format"), Letter("x")>>

MCAnthropic ==
    {\* four windows, two of them with one reset apart, over the rows there are
     Claude(<<Window(Kind("session"), 96, 20, "normal", TRUE),
              Window(Kind("weekly_all"), 40, 90, "warning", FALSE),
              Window(Kind("weekly_opus"), 130, 20, "exceeded", FALSE),
              Window(Kind("weekly_sonnet"), 3, 20, "normal", FALSE)>>, Nil, Nil, Nil),
     \* a row without a reset between two with one, and the fullest beyond the rows
     Claude(<<Window(Kind("session"), 10, 20, "normal", FALSE),
              Window(Kind("weekly_all"), 40, Nil, "normal", FALSE),
              Window(Kind("weekly_opus"), 20, 20, "normal", FALSE),
              Window(Kind("weekly_sonnet"), 93, 90, "normal", FALSE)>>, Nil, Nil, Nil),
     \* windows that empty together, and spending against a limit
     Claude(<<Window(Kind("weekly_all"), 50, 90, "critical", FALSE),
              Window(Kind("weekly_opus"), 1, 90, "normal", FALSE)>>, Nil, Nil,
            [enabled |-> TRUE, percent |-> 75, severity |-> "warning",
             used |-> Money(-64, "", 3), limit |-> Money(63, "EUR", 0)]),
     \* the older form, after an entry that is incomplete
     Claude(<<Window(Kind("session"), Nil, 20, "normal", TRUE)>>,
            [utilization |-> 0, resetsAt |-> Nil], [utilization |-> 97, resetsAt |-> 90],
            [enabled |-> FALSE, percent |-> Nil, severity |-> "",
             used |-> Money(0, "", 0), limit |-> Nil]),
     \* a window hardly begun
     Claude(<<>>, Nil, [utilization |-> 3, resetsAt |-> 90], Nil),
     \* a window of the future
     Claude(<<Window(Odd, -1, 3, "normal", FALSE)>>, Nil, Nil, Nil),
     \* nothing to show
     Claude(<<Window(<<>>, 5, Nil, "normal", FALSE)>>, Nil, [utilization |-> Nil, resetsAt |-> Nil], Nil)}

Dollars(negative, whole, fraction, places) ==
    [negative |-> negative, dollar |-> TRUE, whole |-> whole, fraction |-> fraction,
     places |-> places]

Codex(primary, secondary, allowance) ==
    [planType |-> Kind("plus"), rateLimit |-> [primary |-> primary, secondary |-> secondary],
     codeReviewRateLimit |-> Nil, credits |-> allowance]

Limit(percent, resetAt, seconds) ==
    [usedPercent |-> percent, resetAt |-> resetAt, resetAfterSeconds |-> seconds]

Credits(balance) == [hasCredits |-> TRUE, unlimited |-> FALSE, balance |-> balance]

MCOpenai ==
    {Codex(Limit(5, Nil, 6), Limit(100, 45, 6), Credits(Dollars(TRUE, 1, 2, 1))),
     \* seconds that overflow, and an amount that does
     Codex(Limit(0, Nil, 63), Limit(2, Nil, -1), Credits(Dollars(FALSE, 7, Nil, Nil))),
     \* no windows
     [Codex(Nil, Nil, Credits(Dollars(FALSE, 6, Nil, Nil))) EXCEPT !.rateLimit = Nil],
     \* reviews have windows of their own; an absolute reset past the last second there
     \* is, and the one that is the zero time
     [Codex(Limit(9, 63, Nil), Nil, Nil) EXCEPT
         !.codeReviewRateLimit = [primary |-> Limit(55, Nil, 7), secondary |-> Limit(1, -5, Nil)]],
     Nil}

MCUsage == [anthropic |-> MCAnthropic, openai |-> MCOpenai]

Header(form, value) == [form |-> form, value |-> value]

MCFailures ==
    {[kind |-> "Unauthorized", header |-> [form |-> "absent"]],
     [kind |-> "RateLimited", header |-> Header("seconds", 63)],
     [kind |-> "RateLimited", header |-> Header("seconds", 5)],
     [kind |-> "RateLimited", header |-> Header("seconds", 99)],
     [kind |-> "Transient", header |-> Header("date", 5)],
     [kind |-> "Transient", header |-> Header("date", 400)]}

\* A name whose doubled marker lies across the limit of a field.
MCAccounts ==
    {[name |-> [i \in 1 .. 12 |-> IF i = 11 THEN Marker ELSE Letter("x")],
      email |-> <<>>, organization |-> Odd],
     [name |-> Kind("me"), email |-> Kind("mail"), organization |-> <<>>], Nil}

MCPreferences ==
    {[model |-> Kind("opus"), effort |-> <<>>], [model |-> Kind("opus"), effort |-> Kind("high")],
     [model |-> <<Format>>, effort |-> <<>>], Nil}

MCSettings ==
    {[lang |-> "en", warn |-> 75, crit |-> 90, interval |-> 8],
     [lang |-> "pt", warn |-> 75, crit |-> 90, interval |-> 8],
     [lang |-> "en", warn |-> 95, crit |-> 100, interval |-> 12]}

MCFirst == [lang |-> "en", warn |-> 75, crit |-> 90, interval |-> 8]

MCTranslated ==
    {<<"anthropic", Kind(k)>> : k \in {"session", "weekly_all", "weekly_opus", "spend"}}
        \cup {<<"openai", Kind(k)>> : k \in {"session", "weekly", "credits"}}

MCPlans == {Kind("max")}
MCHint == Kind("claude")
MCPresets == <<8, 12>>
===============================================================================
