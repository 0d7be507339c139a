----------------------------- MODULE LogReading -----------------------------
(***************************************************************************)
(* Reading launcher.log: which files and how much of each are read, and    *)
(* which offset from UTC every line gets.                                  *)
(*                                                                         *)
(* A line is a gateway's restart, a line that also carries UTC (an anchor) *)
(* or any other event; offsets are numbers.  A segment runs from a restart *)
(* to the next.  Then what a health report says with what was read, and    *)
(* _Worker: a blocking read of the settings directory, one at a time on a  *)
(* thread of its own, shared by the calls made while it runs, unless one   *)
(* of them gave up on it.                                                  *)
(***************************************************************************)
EXTENDS Integers, Sequences, FiniteSetsExt

CONSTANTS MaxFiles, MaxTotal, MaxFile,    \* the limits of a read, in bytes
          MaxLines, MaxSegments,          \* bound the cases
          Caller, Timeout, None,
          MaxTime, MaxReads               \* bound the run of the worker

ReadingAssumption ==
    /\ {MaxFiles, MaxTotal, MaxFile, MaxLines, MaxSegments} \subseteq Nat \ {0}
    /\ {Timeout, MaxTime, MaxReads} \subseteq Nat \ {0} /\ None \notin Nat

VARIABLES clock, running, overdue, asks, readings

Absent == -99

-----------------------------------------------------------------------------
(* _resolve_offsets.  A line is [kind, zone]: only an anchor shows its zone. *)

SegmentOf(lines, i) == Cardinality({j \in 2..i : lines[j].kind = "restart"})

SegmentsOf(lines) == {SegmentOf(lines, i) : i \in DOMAIN lines}

Anchors(lines, segment) ==
    {i \in DOMAIN lines : lines[i].kind = "anchor" /\ SegmentOf(lines, i) = segment}

FirstOffset(lines, segment) == lines[Min(Anchors(lines, segment))].zone
LastOffset(lines, segment) == lines[Max(Anchors(lines, segment))].zone

Anchored(lines) == {s \in SegmentsOf(lines) : Anchors(lines, s) # {}}

\* What a segment without anchors takes: from the last one before it that has
\* some, else from the first one after it.
Borrowed(lines, segment, fallback) ==
    LET before == {s \in Anchored(lines) : s < segment}
        after == {s \in Anchored(lines) : s > segment}
    IN CASE before # {} -> LastOffset(lines, Max(before))
         [] before = {} /\ after # {} -> FirstOffset(lines, Min(after))
         [] OTHER -> fallback

\* The latest anchor before the line in its segment; before the first one, it.
Offset(lines, i, fallback) ==
    LET s == SegmentOf(lines, i)
        earlier == {j \in Anchors(lines, s) : j <= i}
    IN CASE Anchors(lines, s) = {} -> Borrowed(lines, s, fallback)
         [] earlier # {} -> lines[Max(earlier)].zone
         [] OTHER -> FirstOffset(lines, s)

-----------------------------------------------------------------------------
(* _read: the files newest first.  A file is [kind, size]. *)

Read0 == [budget |-> MaxTotal, files |-> <<>>, stopped |-> FALSE, failed |-> FALSE]

\* One file: it ends the reading when it cannot be read and a newer one was,
\* or when its head is cut off.
Step(read, file, number) ==
    IF read.stopped \/ read.failed \/ read.budget <= 0 \/ number > MaxFiles THEN read
    ELSE CASE file.kind = "unreadable" ->
                IF read.files # <<>> THEN [read EXCEPT !.stopped = TRUE]
                ELSE [read EXCEPT !.failed = TRUE]
           [] file.kind = "skipped" -> [read EXCEPT !.stopped = read.files # <<>>]
           [] OTHER ->
                LET take == Min({file.size, MaxFile, read.budget}) IN
                [read EXCEPT !.budget = @ - take, !.stopped = take < file.size,
                             !.files = Append(@, [number |-> number, taken |-> take])]

ReadFiles(files) ==
    LET read[n \in 0..Len(files)] == IF n = 0 THEN Read0 ELSE Step(read[n - 1], files[n], n)
    IN read[Len(files)]

-----------------------------------------------------------------------------
(* _explain: the login phase and the hint of a health report, built after the  *)
(* probe.  A login is [phase, silent]: silent is a log that went still before  *)
(* a login, an unknown phase with a time.                                      *)

Up == {"connected", "connectivity_lost"}

\* The session is up, so this log is not its gateway's.
OtherGateways(state, login) ==
    state \in Up /\ (login.phase \notin {"logged_in", "unknown"} \/ login.silent)

\* read: whether the setting names a log directory at all.
Explain(state, refusal, read, login) ==
    LET unexplained == state = "not_accepting" /\ refusal
        shown == CASE ~read -> "none"
                   [] read /\ OtherGateways(state, login) -> "mismatch"
                   [] OTHER -> login.phase
        hint == CASE ~unexplained -> {"state"}
                  [] unexplained /\ ~read -> {"state", "report"}
                  [] unexplained /\ read /\ login.phase = "unknown" -> {"state", "phase"}
                  [] OTHER -> {"phase"}
    IN [login |-> shown, hint |-> hint]

-----------------------------------------------------------------------------
(* _Worker *)

wvars == <<clock, running, overdue, asks, readings>>

TypeOK ==
    /\ clock \in 0..MaxTime /\ readings \in 0..MaxReads
    /\ running \in {None} \cup 1..MaxReads \* the read on its thread
    /\ overdue \in {None} \cup 1..MaxReads \* the read somebody gave up on
    /\ asks \in [Caller -> [at : {"idle", "waiting", "answered", "timed_out", "busy"},
                            read : 0..MaxReads, since : 0..MaxTime]]

Init ==
    /\ clock = 0 /\ running = None /\ overdue = None /\ readings = 0
    /\ asks = [c \in Caller |-> [at |-> "idle", read |-> 0, since |-> 0]]

\* Slip: a read nobody waits for any more is joined like another.
StuckNever == FALSE

Stuck == running # None /\ running = overdue

\* _submit: join the read that runs, be refused if it is overdue, or start one.
Ask(c) ==
    /\ asks[c].at # "waiting"
    /\ LET waits(n) == [at |-> "waiting", read |-> n, since |-> clock] IN
       \/ /\ Stuck
          /\ asks' = [asks EXCEPT ![c] = [at |-> "busy", read |-> 0, since |-> clock]]
          /\ UNCHANGED <<running, readings>>
       \/ /\ running # None /\ ~Stuck
          /\ asks' = [asks EXCEPT ![c] = waits(running)]
          /\ UNCHANGED <<running, readings>>
       \/ /\ running = None /\ readings < MaxReads
          /\ readings' = readings + 1 /\ running' = readings'
          /\ asks' = [asks EXCEPT ![c] = waits(readings')]
    /\ UNCHANGED <<clock, overdue>>

\* The thread ends, with a result or an error.
Completes ==
    /\ running # None
    /\ running' = None
    /\ asks' = [c \in Caller |-> IF asks[c].at = "waiting" /\ asks[c].read = running
                                 THEN [asks[c] EXCEPT !.at = "answered"] ELSE asks[c]]
    /\ UNCHANGED <<clock, overdue, readings>>

GivesUp(c) ==
    /\ asks[c].at = "waiting" /\ clock - asks[c].since >= Timeout
    /\ asks' = [asks EXCEPT ![c].at = "timed_out"]
    /\ overdue' = asks[c].read
    /\ UNCHANGED <<clock, running, readings>>

Tick ==
    /\ clock < MaxTime
    /\ \A c \in Caller : asks[c].at = "waiting" => clock - asks[c].since < Timeout
    /\ clock' = clock + 1
    /\ UNCHANGED <<running, overdue, asks, readings>>

Next == (\E c \in Caller : Ask(c) \/ GivesUp(c)) \/ Completes \/ Tick

Spec == Init /\ [][Next]_wvars

-----------------------------------------------------------------------------
(* Properties *)

Lines == UNION {[1..n -> {"restart", "anchor", "event"}] : n \in 1..MaxLines}

Directories == UNION {[1..n -> [kind : {"regular", "skipped", "unreadable"}, size : 1..3]] :
                        n \in 0..4}

\* zones: the gateway's offset in each segment.
Cases ==
    [about : {"lines"}, kinds : Lines, zones : [0..MaxSegments -> {0, 2}]]
      \cup [about : {"files"}, files : Directories]
      \cup [about : {"health"}, state : Up \cup {"not_accepting", "connecting"}, refusal : BOOLEAN,
             read : BOOLEAN,
             login : {login \in [phase : {"unknown", "logged_in", "awaiting_2fa"}, silent : BOOLEAN] :
                        login.silent => login.phase = "unknown"}]

LinesOf(c) ==
    LET kinds == [i \in DOMAIN c.kinds |-> [kind |-> c.kinds[i], zone |-> 0]] IN
    [i \in DOMAIN c.kinds |->
        [kinds[i] EXCEPT !.zone = c.zones[Min({SegmentOf(kinds, i), MaxSegments})]]]

\* Every line gets its gateway's own offset if its segment shows it anywhere,
\* and whenever all segments share an offset that any of them shows; the file
\* time's fallback is used only when no line shows one.
OffsetsRight(c) ==
    LET lines == LinesOf(c)
        one == \A i, j \in DOMAIN lines : lines[i].zone = lines[j].zone
    IN \A i \in DOMAIN lines :
         /\ Anchors(lines, SegmentOf(lines, i)) # {} => Offset(lines, i, Absent) = lines[i].zone
         /\ one /\ Anchored(lines) # {} => Offset(lines, i, Absent) = lines[i].zone
         /\ Offset(lines, i, Absent) = Absent <=> Anchored(lines) = {}

\* What is read is one continuous stretch up to the newest line: consecutive
\* files, all whole but the oldest, within the limits; a file that cannot be
\* read fails the reading only when nothing newer was read.
StretchContinuous(c) ==
    LET read == ReadFiles(c.files)
        taken == read.files
    IN /\ \A k \in 1..(Len(taken) - 1) :
             /\ taken[k + 1].number = taken[k].number + 1
             /\ taken[k].taken = c.files[taken[k].number].size
       /\ MapThenSumSet(LAMBDA k : taken[k].taken, DOMAIN taken) <= MaxTotal
       /\ Len(taken) <= MaxFiles
       /\ taken # <<>> => \A i \in 1..(taken[1].number - 1) : c.files[i].kind = "skipped"
       /\ read.failed => taken = <<>>

\* A report never says that the session is up and that the login is not done; a refusal
\* the gateway did not explain is explained by the log, or what the API says stays.
HealthRight(c) ==
    LET report == Explain(c.state, c.refusal, c.read, c.login)
    IN /\ c.state \in Up => report.login \in {"none", "mismatch", "logged_in", "unknown"}
       /\ report.login = "mismatch" => c.state \in Up
       /\ "phase" \in report.hint => c.read /\ c.state = "not_accepting"
       /\ "state" \in report.hint \/ (c.read /\ c.login.phase # "unknown")

ReadingRight(c) ==
    CASE c.about = "lines" -> OffsetsRight(c)
      [] c.about = "files" -> StretchContinuous(c)
      [] c.about = "health" -> HealthRight(c)

\* Nobody waits for a read another caller has given up on since before it
\* asked, so that a hung directory costs each caller one time limit at most;
\* and whoever waits, waits for the read that runs.
NoQueueBehindHung ==
    \A c \in Caller : asks[c].at = "waiting" =>
        /\ asks[c].read = running
        /\ \A d \in Caller : asks[d].at = "timed_out" /\ asks[d].read = running =>
                               asks[c].since <= asks[d].since + Timeout

-----------------------------------------------------------------------------
(* What the property of the worker rests on *)

\* Reads are numbered, and no number is given twice.
Numbered ==
    /\ running # None => running = readings
    /\ \A c \in Caller : asks[c].read <= readings

\* The read that runs is known to be overdue if anybody gave up on it.
GivenUpIsOverdue ==
    \A c \in Caller : asks[c].at = "timed_out" /\ asks[c].read = running => overdue = running

WaitsInTime ==
    \A c \in Caller : asks[c].at = "waiting" =>
        asks[c].since <= clock /\ clock <= asks[c].since + Timeout

IInv == TypeOK /\ Numbered /\ GivenUpIsOverdue /\ WaitsInTime /\ NoQueueBehindHung
=============================================================================
