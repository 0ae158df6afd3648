------------------------------- MODULE Notify --------------------------------
(***************************************************************************)
(* Notifications: what the scheduler's lane announces around a run         *)
(* (scheduler/core.py, _maybe_run), the sender with its bounded retries    *)
(* (notify/dispatch.py) and the shape of a Discord embed                   *)
(* (notify/payload.py). A send runs on a task of its own, beside the lane  *)
(* and beside other sends. Times are half seconds, texts are their lengths. *)
(***************************************************************************)
EXTENDS Integers, Sequences, FiniteSets, SequencesExt, FiniteSetsExt

CONSTANTS
    Runs,        \* bound: runs of the lane
    RetryCount,  \* notifications.retry_count
    Timeout,     \* notifications.timeout_seconds
    RetryAfters, \* what a 429 may ask for; 0 is a header that cannot be read
    Details,     \* the details a job may end with: sequences of [name, value]
    Summaries,   \* lengths of summaries
    Breakdowns   \* bound: crashes and failures of the database

ASSUME RunsAssumption == Runs \in Nat
ASSUME RetryCountAssumption == RetryCount \in Nat \ {0}
ASSUME TimeoutAssumption == Timeout \in Nat \ {0}
ASSUME RetryAftersAssumption == RetryAfters \subseteq Int
ASSUME DetailsAssumption == Details \subseteq Seq([name : Nat, value : Nat])
ASSUME SummariesAssumption == Summaries \subseteq Nat

VARIABLES
    lane,   \* the job's run: [at, n, status]
    row,    \* scheduled_runs: [started, finished, status]
    sends,  \* the sends, in the order they were started
    log,    \* events_log rows of the notifier, by send
    heard,  \* posts the target got: [event, n, status]
    payload,\* the embed of the job's announcements
    breakdowns

notifyVars == <<lane, row, sends, log, heard, payload, breakdowns>>

TitleLimit == 256
DescriptionLimit == 4096
FieldLimit == 25
NameLimit == 256
ValueLimit == 1024
TotalLimit == 6000
OmissionReserve == 64
Marker == 14         \* "...[truncated]"
MarkerValue == 24    \* "NN more field(s) omitted"
Placeholder == 7     \* "(empty)"
EventTitle == 35     \* "autoposter: scheduled_run_completed"

BreaksDown == breakdowns < Breakdowns /\ breakdowns' = breakdowns + 1

(***************************************************************************)
(* The embed                                                               *)
(***************************************************************************)
Clipped(n, limit) == Min({n, limit})
FieldText(n) == IF n = 0 THEN Placeholder ELSE n
Field(f) == [name |-> Clipped(FieldText(f.name), NameLimit), value |-> Clipped(FieldText(f.value), ValueLimit)]

Budget(title, summary) == TotalLimit - title - summary - OmissionReserve

\* What the first n fields take together.
Used(fs) ==
    LET used[n \in 0..Len(fs)] ==
            IF n = 0 THEN 0 ELSE used[n - 1] + fs[n].name + fs[n].value
    IN  used
Sum(fs) == Used(fs)[Len(fs)]

\* As many fields as the budget and the limit allow, one place kept for the
\* marker that says how many are missing.
Fields(detail, budget) ==
    LET all == [i \in 1..Len(detail) |-> Field(detail[i])]
        fits(n) == n <= FieldLimit - 1 /\ \A i \in 1..n : Used(all)[i] <= budget
        kept == Max({n \in 0..Len(all) : fits(n)})
    IN  IF kept = Len(all) THEN all
        ELSE Append(SubSeq(all, 1, kept), [name |-> Marker, value |-> MarkerValue])

Embed(event, summary, detail) ==
    LET title == Clipped(event, TitleLimit)
        text == Clipped(summary, DescriptionLimit)
    IN  [title |-> title, text |-> text, fields |-> Fields(detail, Budget(title, text))]

(***************************************************************************)
(* The lane                                                                *)
(***************************************************************************)
NewSend(event, n, status) ==
    [event |-> event, n |-> n, status |-> status, state |-> "sending", attempt |-> 0,
     slept |-> 0]

\* The claim is committed, then the start is announced.
Claim ==
    /\ lane.at = "idle"
    /\ lane.n < Runs
    /\ lane' = [at |-> "running", n |-> lane.n + 1, status |-> "ok"]
    /\ row' = [row EXCEPT !.started = lane.n + 1]
    /\ sends' = Append(sends, NewSend("started", lane.n + 1, "ok"))
    /\ UNCHANGED <<log, heard, payload, breakdowns>>

Finish(status) ==
    /\ lane.at = "running"
    /\ lane' = [lane EXCEPT !.at = "finished", !.status = status]
    /\ UNCHANGED <<row, sends, log, heard, payload, breakdowns>>

\* The outcome is written to the row and committed.
Record ==
    /\ lane.at = "finished"
    /\ row' = [row EXCEPT !.finished = lane.n, !.status = lane.status]
    /\ lane' = [lane EXCEPT !.at = "recorded"]
    /\ UNCHANGED <<sends, log, heard, payload, breakdowns>>

\* It cannot be written: nothing is announced either.
RecordFails ==
    /\ BreaksDown
    /\ lane.at = "finished"
    /\ lane' = [lane EXCEPT !.at = "idle"]
    /\ UNCHANGED <<row, sends, log, heard, payload>>

\* Mutant: announced before it is recorded.
AnnounceFrom == {"finished", "recorded"}
Announceable == {"recorded"}

Announce ==
    /\ lane.at \in Announceable
    /\ sends' = Append(sends, NewSend("completed", lane.n, lane.status))
                  \o (IF lane.status = "failed" THEN <<NewSend("failed", lane.n, lane.status)>> ELSE <<>>)
    /\ lane' = [lane EXCEPT !.at = "idle"]
    /\ UNCHANGED <<row, log, heard, payload, breakdowns>>

RetryAfter(asked, fallback) == IF asked <= 0 THEN fallback ELSE Min({asked, Timeout})

\* In half seconds, before the attempt that follows the n-th, counted from 0.
Backoff[n \in Nat] == IF n = 0 THEN 1 ELSE 2 * Backoff[n - 1]

\* Mutant: the count starts anew.
RetryForever(s, delay) == [s EXCEPT !.attempt = (@ + 1) % RetryCount]

\* The next attempt after its delay, until none is left.
Retry(s, delay) ==
    IF s.attempt + 1 >= RetryCount
    THEN [s EXCEPT !.attempt = @ + 1, !.state = "gave up"]
    ELSE [s EXCEPT !.attempt = @ + 1, !.slept = @ + delay]

Post(s) == [event |-> s.event, n |-> s.n, status |-> s.status]
Put(i, s) == sends' = [sends EXCEPT ![i] = s]

Delivered(i) ==
    /\ sends[i].state = "sending"
    /\ heard' = heard \cup {Post(sends[i])}
    /\ Put(i, [sends[i] EXCEPT !.state = "delivered"])
    /\ UNCHANGED <<lane, row, log, payload, breakdowns>>

\* No answer: the target may have got the post all the same.
TransportError(i) ==
    /\ sends[i].state = "sending"
    /\ heard' \in {heard, heard \cup {Post(sends[i])}}
    /\ Put(i, Retry(sends[i], Backoff[sends[i].attempt]))
    /\ UNCHANGED <<lane, row, log, payload, breakdowns>>

ServerError(i) ==
    /\ sends[i].state = "sending"
    /\ Put(i, Retry(sends[i], Backoff[sends[i].attempt]))
    /\ UNCHANGED <<lane, row, log, heard, payload, breakdowns>>

TooManyRequests(i) ==
    /\ sends[i].state = "sending"
    /\ \E asked \in RetryAfters :
          Put(i, Retry(sends[i], RetryAfter(asked, Backoff[sends[i].attempt])))
    /\ UNCHANGED <<lane, row, log, heard, payload, breakdowns>>

\* Another 4xx: asking again cannot help.
Refused(i) ==
    /\ sends[i].state = "sending"
    /\ Put(i, [sends[i] EXCEPT !.attempt = @ + 1, !.state = "gave up"])
    /\ UNCHANGED <<lane, row, log, heard, payload, breakdowns>>

\* Mutant: a row for every attempt.
RowsPerAttempt(s) == s.attempt
RowsFor(s) == 1

\* The failure is recorded, or the database is down too; the send ends anyway.
RecordFailure(i) ==
    /\ sends[i].state = "gave up"
    /\ Put(i, [sends[i] EXCEPT !.state = "failed"])
    /\ \/ log' = [log EXCEPT ![i] = @ + RowsFor(sends[i])] /\ UNCHANGED breakdowns
       \/ BreaksDown /\ UNCHANGED log
    /\ UNCHANGED <<lane, row, heard, payload>>

\* The process dies: its tasks and the run go with it.
Crash ==
    /\ BreaksDown
    /\ sends' = [i \in DOMAIN sends |->
                   IF sends[i].state \in {"sending", "gave up"} THEN [sends[i] EXCEPT !.state = "lost"]
                   ELSE sends[i]]
    /\ lane' = [lane EXCEPT !.at = "idle"]
    /\ UNCHANGED <<row, log, heard, payload>>

NotifyInit ==
    /\ lane = [at |-> "idle", n |-> 0, status |-> "ok"]
    /\ row = [started |-> 0, finished |-> 0, status |-> "ok"]
    /\ sends = <<>>
    /\ log = [i \in 1..(3 * Runs) |-> 0]
    /\ heard = {}
    /\ payload \in {Embed(EventTitle, s, d) : s \in Summaries, d \in Details}
    /\ breakdowns = 0

Answered(i) ==
    Delivered(i) \/ TransportError(i) \/ ServerError(i) \/ TooManyRequests(i) \/ Refused(i) \/ RecordFailure(i)

NotifyNext ==
    \/ Claim \/ Record \/ RecordFails \/ Announce \/ Crash
    \/ \E status \in {"ok", "failed"} : Finish(status)
    \/ \E i \in DOMAIN sends : Answered(i)

\* A request ends in an answer or at its timeout, and the task goes on.
NotifySpec == NotifyInit /\ [][NotifyNext]_notifyVars /\ \A i \in 1..(3 * Runs) : WF_notifyVars(i \in DOMAIN sends /\ Answered(i))

(***************************************************************************)
(* Properties                                                              *)
(***************************************************************************)
NotifyTypeOK ==
    /\ lane.at \in {"idle", "running", "finished", "recorded"}
    /\ row.finished <= row.started /\ row.started = lane.n
    /\ \A i \in DOMAIN sends :
          /\ sends[i].state \in {"sending", "gave up", "delivered", "failed", "lost"}
          /\ sends[i].attempt \in 0..RetryCount
    /\ log \in [1..(3 * Runs) -> Nat]

\* A target never hears how a run ended before the database shows it, and never
\* hears an end the database does not show (scheduler/core.py: the notification
\* must not describe a run the database does not yet show).
TheRowComesFirst ==
    [][\A p \in heard' \ heard :
          /\ p.n <= row.started
          /\ p.event # "started" =>
                p.n <= row.finished /\ (p.n = row.finished => p.status = row.status)]_notifyVars

\* One send sleeps no longer than its attempts allow, whatever a server asks
\* for: each wait is the backoff or the timeout (Notifier's worst case).
SleepIsBounded ==
    \A i \in DOMAIN sends :
        sends[i].slept <= (RetryCount - 1) * Max({Timeout, Backoff[RetryCount - 1]})

\* A failed send leaves one row, a delivered one none (events_log, source
\* notifier).
OneRowPerFailure ==
    \A i \in DOMAIN sends :
        /\ log[i] <= 1
        /\ sends[i].state \in {"sending", "gave up", "delivered", "lost"} => log[i] = 0

\* An embed is one Discord accepts: an over-long or empty part is a 400, which
\* is not retried (payload.py).
EmbedFits ==
    /\ payload.title <= TitleLimit /\ payload.text <= DescriptionLimit
    /\ Len(payload.fields) <= FieldLimit
    /\ \A f \in ToSet(payload.fields) : f.name \in 1..NameLimit /\ f.value \in 1..ValueLimit
    /\ payload.title + payload.text + Sum(payload.fields) <= TotalLimit

\* Every send ends, delivered, failed or with its process.
EverySendEnds ==
    \A i \in 1..(3 * Runs) :
        (i \in DOMAIN sends) ~> (i \in DOMAIN sends /\ sends[i].state \in {"delivered", "failed", "lost"})

\* No send sleeps past its bound, a failure leaves one row, and an embed fits.
NotifySafety ==
    /\ NotifyTypeOK
    /\ SleepIsBounded
    /\ OneRowPerFailure
    /\ EmbedFits
=============================================================================
