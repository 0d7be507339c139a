---------------------------- MODULE LoginPhases ----------------------------
(***************************************************************************)
(* IB Gateway logging in, the lines it writes to launcher.log, and the     *)
(* login phase the server reads from them: the fold of the lines, the time *)
(* rules applied at now, and what the hint advises.                        *)
(*                                                                         *)
(* A unit of time is what the gateway logs something in before a login.    *)
(* The lines IBKR's gateway writes are taken from the patterns' comments.  *)
(* A log of which only the end was read starts with a gateway that has     *)
(* logged in, has given up, or is down.                                    *)
(***************************************************************************)
EXTENDS Integers

CONSTANTS IdleAfter, \* IDLE_AFTER
          TwofaSilence, Silence,    \* TWOFA_SILENCE, PRELOGIN_SILENCE
          Stall,     \* STALL_AFTER
          MaxTime, MaxRounds    \* bound the clock and the login rounds

LogAssumption ==
    /\ {IdleAfter, TwofaSilence, Silence, Stall} \subseteq Nat \ {0} /\ Stall > IdleAfter /\ Silence > 1
    /\ {MaxTime, MaxRounds} \subseteq Nat

VARIABLES now,
          fold,      \* the _Fold over the lines so far
          mtime,     \* of the log: when its last line was written
          gateway,   \* where the gateway is in its login
          auto,      \* its login automation logs in again by itself
          atStart,   \* it began with a saved session: the daily auto-restart
          since0,    \* when it started, or its login ended
          paused,    \* the pause after failed logins ends then
          rounds, pushes,    \* history: rounds and challenges since the last login
          logins     \* history: successful logins in the log, at most one

real == <<gateway, auto, atStart, since0, paused>>
truth == <<rounds, pushes, logins>>
lvars == <<now, fold, mtime, real, truth>>

Never == -1

Fold0 == [phase |-> "none", since |-> Never, detail |-> "none", warm |-> FALSE,
          refused |-> FALSE, ibKey |-> FALSE, pw |-> "unknown", pending |-> FALSE,
          had |-> FALSE, protocol |-> 0, retryAt |-> Never, reason |-> "none", attempts |-> 0,
          challenges |-> 0, complete |-> FALSE, after |-> FALSE, last |-> Never,
          noise |-> Never]

InProgress == {"login", "round", "approved"}

Phases == {"restarting", "logging_in", "awaiting_2fa", "twofa_ended", "login_rejected",
           "throttled", "logged_in"}

Details == {"none", "no_answer", "not_completed"}

Fold ==
    [phase : {"none"} \cup Phases, since : {Never} \cup Nat, detail : Details, warm : BOOLEAN,
     refused : BOOLEAN, ibKey : BOOLEAN, pw : {"unknown", "asked", "not_asked"},
     pending : BOOLEAN, had : BOOLEAN, protocol : Nat, retryAt : {Never} \cup Nat,
     reason : {"none", "credentials", "saved_session_refused", "unrecognized"},
     attempts : Nat, challenges : Nat, complete : BOOLEAN, after : BOOLEAN,
     last : {Never} \cup Nat, noise : {Never} \cup Nat]

TypeOK ==
    /\ now \in 0..MaxTime /\ mtime \in 0..now
    /\ fold \in Fold /\ fold.since <= now
    /\ gateway \in InProgress \cup {"down", "started", "challenged", "ended", "paused",
                                    "rejected", "up"}
    /\ {auto, atStart} \subseteq BOOLEAN /\ since0 \in 0..now /\ paused \in 0..(now + 1)
    /\ rounds \in 0..MaxRounds /\ pushes \in 0..MaxRounds /\ logins \in 0..1

Init ==
    /\ now = 0 /\ fold = Fold0 /\ mtime = 0
    /\ \E g \in {"down", "ended", "up"} : gateway = g
    /\ auto \in BOOLEAN /\ atStart = FALSE
    /\ (gateway = "ended" => ~auto)
    /\ since0 = 0 /\ paused = 0 /\ rounds = 0 /\ pushes = 0 /\ logins = 0

-----------------------------------------------------------------------------
(* The fold *)

Go(f, phase, detail) ==
    [f EXCEPT !.phase = phase,
              !.detail = IF phase # f.phase \/ detail # "none" THEN detail ELSE @]

\* since moves only with the phase.
Enter(f, phase, detail) ==
    [Go(f, phase, detail) EXCEPT !.since = IF phase # f.phase THEN now ELSE f.since]

\* ... or always.
EnterAnew(f, phase) == [Go(f, phase, "none") EXCEPT !.since = now]

\* Counts start at zero at the first sign of a new login after a success.
NewSequence(f) ==
    IF f.after THEN [f EXCEPT !.after = FALSE, !.attempts = 0, !.challenges = 0, !.complete = TRUE]
    ELSE f

OnRestart(f) ==
    [EnterAnew(NewSequence(f), "restarting") EXCEPT
        !.warm = FALSE, !.refused = FALSE, !.ibKey = FALSE, !.pending = FALSE, !.pw = "unknown",
        !.protocol = 0, !.retryAt = Never, !.reason = "none"]

OnWarm(f) == [f EXCEPT !.warm = TRUE]

OnLoginStart(f) ==
    LET g == NewSequence(f) IN
    IF g.phase = "awaiting_2fa" THEN g ELSE Enter(g, "logging_in", "none")

OnAuthStart(f, asked, saved, key) ==
    Enter([NewSequence(f) EXCEPT
              !.attempts = @ + 1, !.pw = IF asked THEN "asked" ELSE "not_asked",
              !.refused = asked /\ saved, !.ibKey = key, !.pending = FALSE, !.protocol = 0],
          "logging_in", "none")

OnChallenge(f) ==
    EnterAnew([f EXCEPT !.challenges = @ + 1, !.pending = TRUE], "awaiting_2fa")

OnRetry(f, why) == Enter(f, "logging_in", why)

OnCompleted(f, ok, protocol) ==
    IF ok THEN [f EXCEPT !.protocol = protocol]
    ELSE IF f.phase \in {"login_rejected", "twofa_ended"} THEN f
    ELSE Enter(f, "logging_in", "not_completed")

OnRejected(f, why) ==
    Enter([f EXCEPT !.reason = IF f.phase = "login_rejected" THEN @ ELSE why],
          "login_rejected", "none")

CredentialsReason(f) == IF f.refused THEN "saved_session_refused" ELSE "credentials"

OnTwofaEnded(f) == Enter([f EXCEPT !.had = f.pending, !.pending = FALSE], "twofa_ended", "none")

OnThrottle(f, until) == Enter([f EXCEPT !.retryAt = until], "throttled", "none")

OnLoggedIn(f) ==
    EnterAnew([f EXCEPT !.after = TRUE, !.pending = FALSE, !.retryAt = Never], "logged_in")

-----------------------------------------------------------------------------
(* The phase at now, and the advice *)

State(phase, since, detail) == [phase |-> phase, since |-> since, detail |-> detail]

\* The evaluators of the phases.
Phase(f) ==
    CASE f.phase = "twofa_ended" ->
           IF now - f.since <= IdleAfter
           THEN State("logging_in", f.since, IF f.had THEN "ended_retry" ELSE "ended_early_retry")
           ELSE State("login_idle", f.since, IF f.had THEN "twofa_ended" ELSE "ended_early")
      [] f.phase = "throttled" ->
           IF f.retryAt # Never /\ now > f.retryAt + IdleAfter
           THEN State("login_idle", f.retryAt, "throttle_over")
           ELSE State("throttled", f.since,
                      IF f.ibKey \/ f.challenges > 0 THEN "throttled_2fa" ELSE "throttled")
      [] f.phase = "restarting" ->
           IF now - f.since > IdleAfter THEN State("login_idle", f.since, "never_attempted")
           ELSE State("restarting", f.since, IF f.warm THEN "warm" ELSE "none")
      [] f.phase = "logging_in" ->
           IF now - f.last > Stall THEN State("login_idle", f.last, "stalled")
           ELSE State("logging_in", f.since, f.detail)
      [] f.phase = "awaiting_2fa" ->
           State("awaiting_2fa", f.since, IF f.ibKey THEN "ib_key_push" ELSE "challenge")
      [] f.phase = "login_rejected" -> State("login_rejected", f.since, f.reason)
      [] f.phase = "logged_in" ->
           State("logged_in", f.since,
                 CASE f.protocol = 5 -> "second_factor"
                   [] f.protocol # 5 /\ f.warm /\ f.pw = "not_asked" -> "saved_session"
                   [] OTHER -> IF f.pw # "unknown" THEN "password" ELSE "none")

\* _evaluate: without a phase, and with a log gone silent.
Shown ==
    IF fold.phase = "none"
    THEN IF fold.noise # Never /\ now - fold.noise <= Silence
         THEN State("login_idle", Never, "idle_since") ELSE State("unknown", Never, "no_start")
    ELSE LET p == Phase(fold) IN
         IF p.phase # "logged_in"
            /\ now - mtime > (IF p.phase = "awaiting_2fa" THEN TwofaSilence ELSE Silence)
         THEN State("unknown", mtime, "silent") ELSE p

\* describe: what the hint asks of whom.
Advice ==
    CASE Shown.phase = "awaiting_2fa" -> "approve"
      [] Shown.phase = "login_idle" ->
           IF Shown.detail = "never_attempted" THEN "check_configuration" ELSE "restart"
      [] Shown.phase = "login_rejected" ->
           IF Shown.detail = "unrecognized" THEN "look_at_gateway" ELSE "restart"
      [] Shown.phase \in {"logging_in", "restarting", "throttled"} -> "wait"
      [] OTHER -> "none"

-----------------------------------------------------------------------------
(* The gateway, and the line each of its steps writes *)

\* A line about the login.
Line(f) == fold' = [f EXCEPT !.last = now] /\ mtime' = now

Gets(where) ==
    /\ gateway' = where
    /\ since0' = IF where \in {"started", "ended"} THEN now ELSE 0
    /\ paused' = IF where = "paused" THEN now + 1 ELSE 0

Starts ==
    /\ auto' \in BOOLEAN /\ atStart' \in BOOLEAN
    /\ Gets("started")
    /\ Line(IF atStart' THEN OnWarm(OnRestart(fold)) ELSE OnRestart(fold))
    /\ UNCHANGED <<now, truth>>

\* A login begins after a start, and by itself after an ended challenge or
\* pause, or after an answer that never came.
LoginStart ==
    /\ \/ gateway = "started"
       \/ gateway = "ended" /\ auto
       \/ gateway = "paused" /\ auto /\ now >= paused
    /\ Gets("login")
    /\ Line(OnLoginStart(fold))
    /\ UNCHANGED <<now, auto, atStart, truth>>

AuthStart ==
    /\ gateway = "login" /\ rounds < MaxRounds
    /\ Gets("round")
    /\ rounds' = rounds + 1
    /\ \E asked, key \in BOOLEAN :
         /\ asked \/ atStart
         /\ Line(OnAuthStart(fold, asked, atStart, key))
    /\ UNCHANGED <<now, auto, atStart, pushes, logins>>

Challenge ==
    /\ gateway = "round"
    /\ Gets("challenged")
    /\ pushes' = pushes + 1
    /\ Line(OnChallenge(fold))
    /\ UNCHANGED <<now, auto, atStart, rounds, logins>>

\* No answer in time, or an authentication that did not complete: it retries.
Retries ==
    /\ gateway = "round"
    /\ Gets("login")
    /\ \/ Line(OnRetry(fold, "no_answer"))
       \/ Line(OnCompleted(fold, FALSE, 0))
    /\ UNCHANGED <<now, auto, atStart, truth>>

Completes ==
    /\ gateway \in {"round", "challenged"}
    /\ Gets("approved")
    /\ Line(OnCompleted(fold, TRUE, IF gateway = "challenged" THEN 5 ELSE 1))
    /\ UNCHANGED <<now, auto, atStart, truth>>

LogsIn ==
    /\ gateway = "approved" /\ logins = 0
    /\ Gets("up")
    /\ Line(OnLoggedIn(fold))
    /\ rounds' = 0 /\ pushes' = 0 /\ logins' = logins + 1
    /\ UNCHANGED <<now, auto, atStart>>

\* The line may come twice: the result, then the message.
Rejects ==
    /\ \/ gateway \in {"round", "challenged"} /\ Gets("rejected")
       \/ gateway = "rejected" /\ UNCHANGED <<gateway, since0, paused>>
    /\ \/ Line(OnRejected(fold, CredentialsReason(fold)))
       \/ Line(OnRejected(fold, "unrecognized"))
    /\ UNCHANGED <<now, auto, atStart, truth>>

ChallengeEnds ==
    /\ gateway \in {"round", "challenged"}
    /\ Gets("ended")
    /\ Line(OnTwofaEnded(fold))
    /\ UNCHANGED <<now, auto, atStart, truth>>

Pauses ==
    /\ gateway \in {"ended", "login"} /\ rounds > 0
    /\ Gets("paused")
    /\ Line(OnThrottle(fold, paused'))
    /\ UNCHANGED <<now, auto, atStart, truth>>

\* A line that says nothing of a login, before the login only; it is idle
\* noise, which is looked at only without a phase, or something else.
Writes ==
    /\ gateway \notin {"down", "up"} /\ mtime < now
    /\ mtime' = now
    /\ fold' \in {fold} \cup (IF fold.phase = "none" THEN {[fold EXCEPT !.noise = now]} ELSE {})
    /\ UNCHANGED <<now, real, truth>>

Dies ==
    /\ gateway # "down"
    /\ Gets("down")
    /\ UNCHANGED <<now, fold, mtime, auto, atStart, truth>>

\* Time passes: a gateway before its login has written in every unit, with
\* heartbeats during a challenge, and an automation that logs in again does so
\* within IdleAfter.
Tick ==
    /\ now < MaxTime
    /\ now' = now + 1
    /\ gateway \notin {"down", "up"} => mtime = now
    /\ mtime' = IF gateway = "challenged" THEN now' ELSE mtime
    /\ gateway \in {"started", "ended"} /\ auto => now' - since0 <= IdleAfter
    /\ gateway = "paused" /\ auto => now' - paused <= IdleAfter
    /\ UNCHANGED <<fold, real, truth>>

Next ==
    \/ Starts \/ LoginStart \/ AuthStart \/ Challenge \/ Retries \/ Completes \/ LogsIn
    \/ Rejects \/ ChallengeEnds \/ Pauses \/ Writes \/ Dies \/ Tick

Spec == Init /\ [][Next]_lvars

-----------------------------------------------------------------------------
(* Properties *)

\* A gateway that runs is never said to be silent or down.
SilentIsDown == Shown.detail = "silent" => gateway = "down"

\* The hint asks for an approval only while a challenge waits for one, or was
\* just approved, or the gateway died a moment ago.
ApproveIsNeeded ==
    Advice = "approve" => gateway \in {"challenged", "approved", "down"}

\* The hint asks for a restart only of a gateway that will not log in by
\* itself: nothing is retrying, or nothing was logged of a login for long.
RestartIsNeeded ==
    Advice \in {"restart", "check_configuration"} =>
        \/ gateway \in {"down", "rejected"}
        \/ gateway \in {"started", "ended", "paused"} /\ ~auto
        \/ gateway \in InProgress /\ now - fold.last > Stall

\* Counts said to be complete are those since the last login that succeeded,
\* restarts in between or not.
CountsTrue ==
    fold.complete /\ ~fold.after => fold.attempts = rounds /\ fold.challenges = pushes

\* A login is reported only after one, and none before the next start.
LoggedInIsTrue == Shown.phase = "logged_in" => gateway \in {"up", "down"} /\ logins > 0

\* A saved session is said to be refused only after an automatic restart.
RefusedIsSaved == Shown.detail = "saved_session_refused" => atStart \/ gateway = "down"

-----------------------------------------------------------------------------
(* What the properties rest on *)

\* A phase says where the gateway that wrote the last line is, unless it died since.
PhaseIsWhere ==
    gateway # "down" =>
       /\ fold.phase = "none" => gateway \in {"ended", "up"}
       /\ fold.phase = "restarting" => gateway = "started"
       /\ fold.phase = "logging_in" => gateway \in InProgress
       /\ fold.phase = "awaiting_2fa" => gateway \in {"challenged", "approved"}
       /\ fold.phase = "twofa_ended" => gateway = "ended"
       /\ fold.phase = "throttled" => gateway = "paused"
       /\ fold.phase = "login_rejected" => gateway = "rejected"
       /\ fold.phase = "logged_in" => gateway = "up"

\* A log without a line about a login is of a gateway that was there before it.
NoPhaseYet ==
    fold.phase = "none" =>
       /\ rounds = 0
       /\ gateway = "ended" => ~auto
       /\ fold.noise # Never => gateway \in {"ended", "down"}

\* The times the phases are judged by are those the gateway goes by, which logs in again
\* in time, and has written lately.
TimesAreKept ==
    /\ gateway \in {"started", "ended"} /\ fold.phase # "none" => fold.since = since0
    /\ gateway = "paused" => fold.retryAt = paused
    /\ auto /\ gateway \in {"started", "ended"} => now - since0 <= IdleAfter
    /\ auto /\ gateway = "paused" => now - paused <= IdleAfter
    /\ gateway \notin {"down", "up"} => now - mtime <= 1

\* After a login the counts start again, before the next round; each round has one
\* challenge at most.
CountsStartAgain ==
    /\ fold.after => gateway \in {"up", "down"} /\ rounds = 0 /\ pushes = 0
    /\ pushes <= rounds /\ (gateway = "round" => pushes < rounds)

\* What is said of a saved session is of one the gateway began with.
SavedIsSo == fold.refused \/ fold.reason = "saved_session_refused" => atStart

LoginIsCounted == fold.phase = "logged_in" => logins > 0

\* The steps keep these, and the other properties follow from them.
Kept ==
    /\ TypeOK /\ PhaseIsWhere /\ NoPhaseYet /\ TimesAreKept /\ CountsStartAgain /\ SavedIsSo
    /\ LoginIsCounted /\ CountsTrue

IInv ==
    /\ Kept /\ SilentIsDown /\ ApproveIsNeeded /\ RestartIsNeeded /\ LoggedInIsTrue
    /\ RefusedIsSaved
=============================================================================
