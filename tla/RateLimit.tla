------------------------------ MODULE RateLimit ------------------------------
(***************************************************************************)
(* The rate limit and the whitelists of core.Blockchain.SendMessage, for   *)
(* one sender (every sender has counters of its own).  Time is counted in  *)
(* ticks finer than the minute the counters are kept by.                   *)
(***************************************************************************)
EXTENDS Integers, Sequences, FiniteSets

CONSTANTS Sender, Receivers,
          Minute,      \* ticks per minute
          Hour,        \* ticks per hour
          MaxTotal,    \* 200: MaxMessagesTotal
          MaxPerAddr,  \* 30: MaxMessagesPerAddr
          MaxTime,     \* bound on the clock
          Pairs,       \* bound: the pairs <<from, to>> that may be whitelisted
          MaxSent      \* bound on the messages

ASSUME TimeAssumption == /\ Minute \in Nat \ {0} /\ Hour \in Nat
                         /\ Hour % Minute = 0 /\ Hour > Minute /\ MaxTime \in Nat
ASSUME LimitsAssumption == MaxTotal \in Nat \ {0} /\ MaxPerAddr \in Nat \ {0}
ASSUME PairsAssumption == \A pair \in Pairs : pair = <<pair[1], pair[2]>>

VARIABLES
    now,         \* the clock
    tracked,     \* messageRates[sender] exists
    total,       \* its Total: minute -> count
    perAddress,  \* its PerAddress: receiver -> minute -> count
    lastCleanup,
    whitelists,  \* memory: pairs <<from, to>>
    stored,      \* disk: the whitelist_ keys
    sent         \* history: messages since the last start, [at, to, free]

rates == <<tracked, total, perAddress, lastCleanup>>
rateVars == <<now, rates, whitelists, stored, sent>>

Empty == [m \in {} |-> 0]
\* Mutant: minutes are not rounded.
TruncateNothing(t) == t
Truncate(t) == t - (t % Minute)
\* The messages in buckets, each as its minute and its number in it; the sum
\* over the minutes is how many they are.
Slots(buckets) == UNION {{m} \X (1..buckets[m]) : m \in DOMAIN buckets}
CountIn(buckets) == Cardinality(Slots(buckets))
Keep(buckets, from) == [m \in {x \in DOMAIN buckets : x >= from} |-> buckets[m]]
Bump(buckets, m) ==
    [x \in DOMAIN buckets \cup {m} |->
        (IF x \in DOMAIN buckets THEN buckets[x] ELSE 0) + IF x = m THEN 1 ELSE 0]

\* Mutant: nothing is ever dropped.
CleanedNever(buckets) == buckets
\* cleanupRateLimits: at most once a minute, drop the minutes that began more
\* than an hour ago.
CleanupDue == tracked /\ now - lastCleanup >= Minute
Cleaned(buckets) == IF CleanupDue THEN Keep(buckets, now - Hour) ELSE buckets

isWhitelisted(to) == <<Sender, to>> \in whitelists

\* Mutant: one message too many passes.
exceedsRateLimitByOne(to) ==
    \/ CountIn(Cleaned(total)) > MaxTotal
    \/ CountIn(Cleaned(perAddress[to])) > MaxPerAddr
exceedsRateLimit(to) ==
    \/ CountIn(Cleaned(total)) >= MaxTotal
    \/ CountIn(Cleaned(perAddress[to])) >= MaxPerAddr

\* Mutant: only the total is cleaned up.
TrackCleansTotal(record) ==
    LET m == Truncate(now)
    IN  /\ tracked' = TRUE
        /\ total' = IF record = {} THEN Cleaned(total) ELSE Bump(Cleaned(total), m)
        /\ perAddress' = [r \in Receivers |->
                IF r \in record THEN Bump(perAddress[r], m) ELSE perAddress[r]]
        /\ lastCleanup' = IF ~tracked \/ CleanupDue THEN now ELSE lastCleanup

\* The counters after cleanup, and after recordMessage when to is a receiver.
Track(record) ==
    LET m == Truncate(now)
    IN  /\ tracked' = TRUE
        /\ total' = IF record = {} THEN Cleaned(total) ELSE Bump(Cleaned(total), m)
        /\ perAddress' = [r \in Receivers |->
                IF r \in record THEN Bump(Cleaned(perAddress[r]), m)
                ELSE Cleaned(perAddress[r])]
        /\ lastCleanup' = IF ~tracked \/ CleanupDue THEN now ELSE lastCleanup

RateInit ==
    /\ now = 0
    /\ tracked = FALSE /\ lastCleanup = 0
    /\ total = Empty /\ perAddress = [r \in Receivers |-> Empty]
    /\ whitelists = {} /\ stored = {}
    /\ sent = << >>

SendMessage(to) ==
    /\ Len(sent) < MaxSent
    /\ isWhitelisted(to) \/ ~exceedsRateLimit(to)
    /\ Track({to})
    /\ sent' = Append(sent, [at |-> now, to |-> to, free |-> isWhitelisted(to)])
    /\ UNCHANGED <<now, whitelists, stored>>

\* "rate limit exceeded": the check alone cleans the counters up.
RefuseMessage(to) ==
    /\ ~isWhitelisted(to) /\ exceedsRateLimit(to)
    /\ Track({})
    /\ UNCHANGED <<now, whitelists, stored, sent>>

\* Either party whitelists the other; the pair is also stored.
WhitelistAddress(from, to) ==
    /\ whitelists' = whitelists \cup {<<from, to>>}
    /\ stored' = stored \cup {<<from, to>>}
    /\ UNCHANGED <<now, rates, sent>>

\* NewBlockchain: the counters and the whitelists start empty.
Restart ==
    /\ tracked' = FALSE /\ lastCleanup' = 0
    /\ total' = Empty /\ perAddress' = [r \in Receivers |-> Empty]
    /\ whitelists' = {}
    /\ sent' = << >>
    /\ UNCHANGED <<now, stored>>

Tick == now < MaxTime /\ now' = now + 1
        /\ UNCHANGED <<rates, whitelists, stored, sent>>

RateNext == \/ \E to \in Receivers : SendMessage(to) \/ RefuseMessage(to)
        \/ \E pair \in Pairs : WhitelistAddress(pair[1], pair[2])
        \/ Restart \/ Tick

RateSpec == RateInit /\ [][RateNext]_rateVars

(***************************************************************************)
(* Properties                                                              *)
(***************************************************************************)
\* Counters are kept by whole minutes and never empty, and every pair in memory
\* has its whitelist_ key on the disk.
RateTypeOK ==
    /\ now \in 0..MaxTime /\ lastCleanup \in 0..now
    /\ \A m \in DOMAIN total : m % Minute = 0 /\ total[m] > 0
    /\ DOMAIN perAddress = Receivers
    /\ whitelists \subseteq stored /\ stored \subseteq Pairs

\* The messages sent in the window ticks before message i, and i itself.
InWindow(i, window) == {j \in 1..i : sent[j].at > sent[i].at - window}
Within(window) ==
    \A i \in DOMAIN sent : ~sent[i].free =>
        /\ Cardinality(InWindow(i, window)) <= MaxTotal
        /\ Cardinality({j \in InWindow(i, window) : sent[j].to = sent[i].to}) <= MaxPerAddr

\* Since the last start, a message that needed the limit's leave was at most
\* the MaxTotal-th of the hour less one minute before it, and the
\* MaxPerAddr-th to its receiver, whitelisted messages included: the rounding
\* to minutes and the lazy cleanup lose at most one minute.
LimitHoldsForAnHourLessAMinute == Within(Hour - Minute)

\* A sender who waits is served: once the last counted message is older than
\* an hour and a minute, the limit refuses nothing.
QuietSenderIsServed ==
    \A to \in Receivers :
        (\A i \in DOMAIN sent : now - sent[i].at > Hour + Minute)
            => ~exceedsRateLimit(to)

\* The counters of the receivers add up to the total: the two limits see the
\* same messages.
CountersAgree ==
    Cardinality(UNION {{r} \X Slots(perAddress[r]) : r \in Receivers}) = CountIn(total)
=============================================================================
