--------------------------- MODULE ThroughputTest ---------------------------
(***************************************************************************)
(* The throughput test of a router (src/mercury/throughput/Test.cpp): a    *)
(* download and then an upload of one length, each with a poll of the byte *)
(* counter at one rate and a DNS probe at another.                         *)
(*                                                                         *)
(* Three threads share the counters, the rates and the table of probes:    *)
(* run() prepares a half, sleeps, and collects; the scheduler runs the     *)
(* polls and the probes; the file collection moves the bytes and reads the *)
(* answers.  Only the probe and its answer take a lock.  What keeps the    *)
(* others apart is that run() sleeps long enough.                          *)
(*                                                                         *)
(* So time is part of the model, in ticks: with Punctual, a thread that    *)
(* has something to do does it before the clock moves on, though the       *)
(* threads interleave in every order within a tick.  The network is not    *)
(* punctual: an answer takes up to MaxDelay ticks or does not come.        *)
(***************************************************************************)
EXTENDS Scheduler

CONSTANTS
    PollEvery,  \* 1 SECS
    ProbeEvery, \* 200 MILLIS
    Load,       \* how long a half lasts: 10 SECS
    Pause,      \* how long run() waits after it, and between them: 1 SECS
    MaxDelay,   \* how long an answer of the DNS server may take
    MaxBytes,   \* bound: how many buffers are moved in a half
    Punctual    \* does a thread that can run, run at once?

ASSUME ThroughputAssumption ==
    /\ {PollEvery, ProbeEvery, Load, Pause} \subseteq Nat \ {0}
    /\ MaxDelay \in Nat /\ MaxBytes \in Nat
    /\ Punctual \in BOOLEAN

\* m_current_id is a u16_t, which a half must not exhaust.
ASSUME IdentifiersSuffice == Load \div ProbeEvery < 65536

VARIABLES
    pc,             \* where run() is
    alarm,          \* when its sleep is over
    poll_time,      \* the variable of its loops
    upload,         \* which half it is
    bytes,          \* bytes_received: the buffers read and written, less the failed reads
    last_bytes,     \* last_bytes_received, in the same parts
    rates,          \* download_rate, likewise
    current_id,     \* m_current_id
    sent_times,     \* m_sent_times, for the identifiers below current_id
    latency,        \* m_latency: whose time it is
    in_flight,      \* the queries and answers on their way
    commands,       \* the queue of the file collection
    fc,             \* where the thread of the file collection is
    sum,            \* what observe() is about to store in bytes_received
    subscribed,     \* the sockets it polls
    results         \* what is reported of each half

runVars == <<pc, alarm, poll_time, upload, results>>
countVars == <<bytes, last_bytes, rates>>
probeVars == <<current_id, sent_times, latency, in_flight>>
fcVars == <<commands, fc, sum, subscribed>>
vars == <<now, schedulerVars, runVars, countVars, probeVars, fcVars>>

None == [read |-> 0, written |-> 0, failed |-> 0]
Moved(b) == b.read + b.written

\* map[key] = value
Put(map, key, value) == [k \in DOMAIN map \cup {key} |-> IF k = key THEN value ELSE map[k]]

\* startTest and reset(); the threads of Process::start() are there.
Init ==
    /\ now = 0 /\ SchedulerInit
    /\ pc = "connect" /\ alarm = 0 /\ poll_time = 0 /\ upload = FALSE
    /\ bytes = None /\ last_bytes = None /\ rates = <<>>
    /\ current_id = 0 /\ sent_times = <<>> /\ latency = <<>> /\ in_flight = {}
    /\ commands = <<>> /\ fc = "idle" /\ sum = None /\ subscribed = {}
    /\ results = <<>>
-----------------------------------------------------------------------------
Go(from, to) == pc = from /\ pc' = to
SleepOver(from, to) == Go(from, to) /\ now >= alarm
Sleep(t) == alarm' = now + t
Tell(op, s) == commands' = Append(commands, [op |-> op, sock |-> s])

(***************************************************************************)
(* Mistaken variants of the operations below; see module BlockingQueue.    *)
(***************************************************************************)

\* The rates are collected and the next half begins without a pause.
Collect_NoPause ==
    /\ Go("collect", "harvest")
    /\ results' = Append(results, [rates |-> rates, latencies |-> <<>>])
    /\ Sleep(0)
    /\ UNCHANGED <<now, schedulerVars, poll_time, upload, countVars, probeVars, fcVars>>

\* A probe without an answer is passed over.
Harvest_OnlyAnswered ==
    /\ SleepOver("harvest", IF upload THEN "stopOnEmpty" ELSE "clearProbes")
    /\ results' = [results EXCEPT ![Len(results)].latencies =
                      SelectSeq([i \in 1..current_id |->
                                    IF i - 1 \in DOMAIN latency THEN "measured" ELSE "lost"],
                                LAMBDA l : l = "measured")]
    /\ UNCHANGED <<now, schedulerVars, alarm, poll_time, upload, countVars, probeVars, fcVars>>

\* There is a half too many.
Harvest_OnceMore ==
    /\ SleepOver("harvest", IF Len(results) > 2 THEN "stopOnEmpty" ELSE "clearProbes")
    /\ UNCHANGED <<now, schedulerVars, alarm, poll_time, upload, results, countVars, probeVars, fcVars>>

\* last_bytes_received keeps the count of the download.
ClearRates_KeepLast ==
    /\ Go("clearRates", "rest")
    /\ rates' = <<>> /\ upload' = TRUE
    /\ Sleep(Pause)
    /\ UNCHANGED <<now, schedulerVars, poll_time, results, bytes, last_bytes, probeVars, fcVars>>

\* The file collection is not told.
StopFc_Forgotten ==
    /\ Go("stopFc", "stopScheduler")
    /\ UNCHANGED <<now, schedulerVars, alarm, poll_time, upload, results, countVars, probeVars,
                   fcVars>>
-----------------------------------------------------------------------------
(* run() *)

\* connect() or the binding of the DNS socket throws, or the probes' socket
\* is subscribed.
Connect ==
    /\ \/ Go("connect", "threw") /\ UNCHANGED <<commands, poll_time>>
       \/ Go("connect", "polls") /\ Tell("subscribe", "dns") /\ poll_time' = PollEvery
    /\ UNCHANGED <<now, schedulerVars, alarm, upload, results, countVars, probeVars, fc, sum, subscribed>>

\* One round of the first loop, and its end ...
SchedulePoll ==
    /\ pc = "polls"
    /\ IF poll_time < Load
       THEN /\ Request(Schedule("poll", poll_time))
            /\ poll_time' = poll_time + PollEvery /\ UNCHANGED pc
       ELSE pc' = "probes" /\ poll_time' = ProbeEvery /\ UNCHANGED requests
    /\ UNCHANGED <<now, heap, empty_stop, sched, alarm, upload, results, countVars, probeVars, fcVars>>

\* ... and of the second.
ScheduleProbe ==
    /\ pc = "probes"
    /\ IF poll_time < Load
       THEN /\ Request(Schedule("probe", poll_time))
            /\ poll_time' = poll_time + ProbeEvery /\ UNCHANGED pc
       ELSE pc' = "subscribe" /\ UNCHANGED <<poll_time, requests>>
    /\ UNCHANGED <<now, heap, empty_stop, sched, alarm, upload, results, countVars, probeVars, fcVars>>

Subscribe ==
    /\ Go("subscribe", "load")
    /\ Tell("subscribe", "stream")
    /\ Sleep(Load)
    /\ UNCHANGED <<now, schedulerVars, poll_time, upload, results, countVars, probeVars, fc, sum, subscribed>>

\* unsubscribe does not wait until the file collection has done it.
LoadOver ==
    /\ SleepOver("load", "collect")
    /\ Tell("unsubscribe", "stream")
    /\ UNCHANGED <<now, schedulerVars, alarm, poll_time, upload, results, countVars, probeVars,
                   fc, sum, subscribed>>

\* results...per_sec = download_rate, and a pause.
Collect ==
    /\ Go("collect", "harvest")
    /\ results' = Append(results, [rates |-> rates, latencies |-> <<>>])
    /\ Sleep(Pause)
    /\ UNCHANGED <<now, schedulerVars, poll_time, upload, countVars, probeVars, fcVars>>

\* getLatencyMicros: a value for each identifier given out, -1000 if there is
\* none.
Harvest ==
    /\ SleepOver("harvest", IF upload THEN "stopOnEmpty" ELSE "clearProbes")
    /\ results' = [results EXCEPT ![Len(results)].latencies =
                      [i \in 1..current_id |->
                          IF i - 1 \in DOMAIN latency THEN "measured" ELSE "lost"]]
    /\ UNCHANGED <<now, schedulerVars, alarm, poll_time, upload, countVars, probeVars, fcVars>>

\* clear(): what is on its way stays so.
ClearProbes ==
    /\ Go("clearProbes", "clearBytes")
    /\ current_id' = 0 /\ sent_times' = <<>> /\ latency' = <<>>
    /\ UNCHANGED <<now, schedulerVars, alarm, poll_time, upload, results, countVars, in_flight, fcVars>>

ClearBytes ==
    /\ Go("clearBytes", "clearRates")
    /\ bytes' = None
    /\ UNCHANGED <<now, schedulerVars, alarm, poll_time, upload, results, last_bytes, rates,
                   probeVars, fcVars>>

ClearRates ==
    /\ Go("clearRates", "rest")
    /\ last_bytes' = None /\ rates' = <<>> /\ upload' = TRUE
    /\ Sleep(Pause)
    /\ UNCHANGED <<now, schedulerVars, poll_time, results, bytes, probeVars, fcVars>>

RestOver ==
    /\ SleepOver("rest", "polls")
    /\ poll_time' = PollEvery
    /\ UNCHANGED <<now, schedulerVars, alarm, upload, results, countVars, probeVars, fcVars>>

\* setStopOnEmpty(true): the flag, read by the scheduler without a lock, and
\* the request that wakes it.
StopOnEmpty ==
    /\ Go("stopOnEmpty", "continue")
    /\ empty_stop' = TRUE
    /\ UNCHANGED <<now, requests, heap, sched, alarm, poll_time, upload, results, countVars,
                   probeVars, fcVars>>

WakeScheduler ==
    /\ Go("continue", "stopFc")
    /\ Request(Continue)
    /\ UNCHANGED <<now, heap, empty_stop, sched, alarm, poll_time, upload, results, countVars,
                   probeVars, fcVars>>

\* join() stops the threads in the order they were made, this one excepted ...
StopFc ==
    /\ Go("stopFc", "stopScheduler")
    /\ Tell("exit", "none")
    /\ UNCHANGED <<now, schedulerVars, alarm, poll_time, upload, results, countVars, probeVars,
                   fc, sum, subscribed>>

StopScheduler ==
    /\ Go("stopScheduler", "join")
    /\ Request(Exit)
    /\ UNCHANGED <<now, heap, empty_stop, sched, alarm, poll_time, upload, results, countVars,
                   probeVars, fcVars>>

\* ... and waits for them; onTestComplete.
Report ==
    /\ Go("join", "reported")
    /\ fc \in {"done", "threw"} /\ sched \in {"done", "threw"}
    /\ UNCHANGED <<now, schedulerVars, alarm, poll_time, upload, results, countVars, probeVars, fcVars>>

RunThread ==
    \/ Connect \/ SchedulePoll \/ ScheduleProbe \/ Subscribe \/ LoadOver \/ Collect
    \/ Harvest \/ ClearProbes \/ ClearBytes \/ ClearRates \/ RestOver
    \/ StopOnEmpty \/ WakeScheduler \/ StopFc \/ StopScheduler \/ Report
-----------------------------------------------------------------------------
(* The scheduler's thread *)

SchedulerLoop ==
    /\ LoopTest \/ TakeRequest
    /\ UNCHANGED <<now, runVars, countVars, probeVars, fcVars>>

\* periodicPoll.  What it appends is a u64_t, moved - failed.
Poll ==
    /\ Due /\ heap[1].to_run = "poll"
    /\ JobDone
    /\ rates' = Append(rates, [moved  |-> Moved(bytes) - Moved(last_bytes),
                              failed |-> bytes.failed - last_bytes.failed])
    /\ last_bytes' = bytes
    /\ UNCHANGED <<now, runVars, bytes, probeVars, fcVars>>

\* DnsSender::run
Probe ==
    /\ Due /\ heap[1].to_run = "probe"
    /\ JobDone
    /\ sent_times' = Put(sent_times, current_id, now)
    /\ in_flight' = in_flight \cup {[id |-> current_id, sent |-> now]}
    /\ current_id' = current_id + 1
    /\ UNCHANGED <<now, runVars, countVars, latency, fcVars>>

\* sendTo throws: the exception ends the scheduler's thread.
ProbeThrows ==
    /\ Due /\ heap[1].to_run = "probe"
    /\ sched' = "threw"
    /\ UNCHANGED <<now, requests, heap, empty_stop, runVars, countVars, probeVars, fcVars>>

SchedulerThread == SchedulerLoop \/ Poll \/ Probe \/ ProbeThrows
-----------------------------------------------------------------------------
(* The thread of the file collection *)

FcCommand ==
    /\ fc = "idle" /\ commands # <<>>
    /\ commands' = Tail(commands)
    /\ LET cmd == Head(commands)
       IN  CASE cmd.op = "subscribe" -> subscribed' = subscribed \cup {cmd.sock} /\ UNCHANGED fc
             [] cmd.op = "unsubscribe" -> subscribed' = subscribed \ {cmd.sock} /\ UNCHANGED fc
             [] OTHER -> fc' = "done" /\ UNCHANGED subscribed
    /\ UNCHANGED <<now, schedulerVars, runVars, countVars, probeVars, sum>>

\* observe() looks at `upload', and writes a buffer or reads one.  A read that
\* fails returns -1, which is added like any other count.  bytes_received is
\* read, ...
Transfer ==
    /\ fc = "idle" /\ "stream" \in subscribed /\ Moved(bytes) + bytes.failed < MaxBytes
    /\ fc' = "adding"
    /\ \/ upload /\ sum' = [bytes EXCEPT !.written = @ + 1]
       \/ ~upload /\ sum' = [bytes EXCEPT !.read = @ + 1]
       \/ ~upload /\ sum' = [bytes EXCEPT !.failed = @ + 1]
    /\ UNCHANGED <<now, schedulerVars, runVars, countVars, probeVars, commands, subscribed>>

\* ... and written.
CountBytes ==
    /\ fc = "adding"
    /\ bytes' = sum
    /\ fc' = "idle" /\ sum' = None
    /\ UNCHANGED <<now, schedulerVars, runVars, last_bytes, rates, probeVars, commands, subscribed>>

\* A write that fails throws, and the exception ends the thread.
WriteThrows ==
    /\ fc = "idle" /\ "stream" \in subscribed /\ upload
    /\ fc' = "threw"
    /\ UNCHANGED <<now, schedulerVars, runVars, countVars, probeVars, commands, sum, subscribed>>

\* The time that has passed since this probe, since another that had its
\* identifier or since 0; the last two, of an answer that took longer than
\* run() waits for one or not.
Filed(p) ==
    IF p.id \in DOMAIN sent_times /\ sent_times[p.id] = p.sent THEN "own"
    ELSE IF now > p.sent + Pause THEN "late" ELSE "foreign"

\* DnsSender::observe: the answer names its identifier, and m_sent_times the
\* moment to subtract.
Answer(p) ==
    /\ fc = "idle" /\ "dns" \in subscribed
    /\ now <= p.sent + MaxDelay
    /\ in_flight' = in_flight \ {p}
    /\ latency' = Put(latency, p.id, Filed(p))
    /\ UNCHANGED <<now, schedulerVars, runVars, countVars, current_id, sent_times, fcVars>>

FcThread == FcCommand \/ CountBytes
-----------------------------------------------------------------------------
\* Has a thread something to do at this moment?
RunBusy ==
    /\ pc \notin {"threw", "reported"}
    /\ pc \in {"load", "harvest", "rest"} => now >= alarm
    /\ pc = "join" => fc \in {"done", "threw"} /\ sched \in {"done", "threw"}

FcBusy == fc = "adding" \/ (fc = "idle" /\ commands # <<>>)

\* Bound: the clock moves only while somebody waits for it.
Tick ==
    /\ pc \in {"load", "harvest", "rest"} \/ (sched = "wait" /\ heap # <<>>)
    /\ Punctual => ~(RunBusy \/ SchedulerBusy \/ FcBusy)
    /\ now' = now + 1
    /\ in_flight' = {p \in in_flight : now < p.sent + MaxDelay}
    /\ UNCHANGED <<schedulerVars, runVars, countVars, current_id, sent_times, latency, fcVars>>

Next ==
    \/ RunThread \/ SchedulerThread \/ FcThread \/ Transfer \/ WriteThrows
    \/ \E p \in in_flight : Answer(p)
    \/ Tick

Spec == Init /\ [][Next]_vars

\* The threads run and time passes; neither peer has to send.
FairSpec ==
    Spec /\ WF_vars(RunThread) /\ WF_vars(SchedulerThread) /\ WF_vars(FcThread) /\ WF_vars(Tick)
-----------------------------------------------------------------------------
Ids == 0..(Load - 1)
Counts == [read : 0..MaxBytes, written : 0..MaxBytes, failed : 0..MaxBytes]
Rates == [moved : Int, failed : Int]

TypeOK ==
    /\ SchedulerTypeOK
    /\ pc \in {"connect", "threw", "polls", "probes", "subscribe", "load", "collect", "harvest",
               "clearProbes", "clearBytes", "clearRates", "rest", "stopOnEmpty", "continue",
               "stopFc", "stopScheduler", "join", "reported"}
    /\ alarm \in Nat /\ poll_time \in Nat /\ upload \in BOOLEAN
    /\ bytes \in Counts /\ last_bytes \in Counts /\ rates \in Seq(Rates)
    /\ current_id \in Nat
    /\ DOMAIN sent_times \subseteq Ids
    /\ DOMAIN latency \subseteq Ids
    /\ in_flight \subseteq [id : Ids, sent : Nat]
    /\ fc \in {"idle", "adding", "done", "threw"} /\ sum \in Counts
    /\ subscribed \subseteq {"dns", "stream"}
    /\ Len(results) \in 0..2

(***************************************************************************)
(* An answer is filed under another probe than its own only if it took     *)
(* longer than the pause: answers are told apart by an identifier that     *)
(* starts again at 0 with the upload, but whatever comes before the pause  *)
(* after the download is over is still filed right, and no earlier answer  *)
(* is taken for one of the upload.                                         *)
(***************************************************************************)
AnswersMatched == \A id \in DOMAIN latency : latency[id] # "foreign"

(***************************************************************************)
(* src/README.md, line 126: "Record round-trip latency".  A latency is the *)
(* time from a probe to its own answer.                                    *)
(***************************************************************************)
LatenciesAreRoundTrips == \A id \in DOMAIN latency : latency[id] = "own"

(***************************************************************************)
(* The counters are kept apart, although the file collection may be in     *)
(* observe() when run() unsubscribes or resets the counter it is adding    *)
(* to: what happens in the one direction is not counted for the other, and *)
(* no poll sees the counter reset and the last reading not.  Their         *)
(* difference, of two unsigned numbers, wraps by no fault of theirs, only  *)
(* when more reads failed in that second than bytes came.                  *)
(***************************************************************************)
CountersKept ==
    /\ IF upload THEN bytes.read = 0 /\ bytes.failed = 0 ELSE bytes.written = 0
    /\ \A i \in DOMAIN rates : rates[i].moved >= 0 /\ rates[i].failed >= 0

(***************************************************************************)
(* Each rate is what was moved in one second: the n-th poll of a half is   *)
(* made n seconds after its beginning, in both halves, although the heap   *)
(* holds the polls among the probes and the deadlines are relative.        *)
(***************************************************************************)
RatesCoverASecond ==
    [][Len(rates') > Len(rates) => now = alarm - Load + PollEvery * Len(rates')]_vars

(***************************************************************************)
(* The report has a rate for every poll and a latency for every probe of   *)
(* both halves, unless a probe threw: join() stops the scheduler whether   *)
(* or not it has run all it was given.                                     *)
(***************************************************************************)
ReportComplete ==
    pc = "reported" /\ sched # "threw" =>
        \A half \in 1..2 : /\ Len(results[half].rates) = (Load - 1) \div PollEvery
                           /\ Len(results[half].latencies) = (Load - 1) \div ProbeEvery

(***************************************************************************)
(* The test ends although its scheduler may be dead and nothing may move:  *)
(* join() waits for no thread that was not told to stop.                   *)
(***************************************************************************)
TestEnds == <>(pc \in {"threw", "reported"})
=============================================================================
