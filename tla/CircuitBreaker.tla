--------------------------- MODULE CircuitBreaker ---------------------------
(***************************************************************************)
(* safety/ratelimit.py CircuitBreaker with its state file, and the admin   *)
(* tool that resets it: a trip is saved and loaded again at start-up, and  *)
(* only a human's confirmation re-arms the breaker.                        *)
(*                                                                         *)
(* Saving and unlinking are synchronous, so no other call interleaves      *)
(* with them, but they may fail (OSError is logged and swallowed) and the  *)
(* process may die in the middle.  The file is opened with O_TRUNC before  *)
(* it is written, so an interrupted save leaves a torn file.               *)
(***************************************************************************)
EXTENDS BreakerRules, Integers, Sequences, FiniteSets

CONSTANTS Caller,          \* concurrent calls of reset_circuit_breaker
          MaxOutcomes,     \* bound: order outcomes in the life of one process
          MaxCrashes,      \* bound: how often the process dies
          MaxResets        \* bound: how often a human says yes

VARIABLES up,         \* the process runs
          breaker,    \* _consecutive and _opened_at, in memory
          file,       \* the state file: what it holds
          phase,      \* where each reset call is
          \* What happened, for the properties.
          outcomes,   \* order results since the process started or was reset
          loaded,     \* it started with an open breaker, not reset since
          trip,       \* the last trip, until a human resets it
          leftover,   \* the last reset could not remove the file
          yes, closed, \* confirmations given; resets that changed something
          crashes

vars == <<up, breaker, file, phase, outcomes, loaded, trip, leftover, yes, closed, crashes>>

NoFile == [kind |-> "absent", rejections |-> 0]
Torn == [kind |-> "torn", rejections |-> 0]
Saved(b) == [kind |-> "saved", rejections |-> b.rejections]

Phase == {"idle", "asked", "confirmed", "skipped"}

File == [kind : {"absent", "torn", "saved"}, rejections : Nat]
Trip == [halted : BOOLEAN, unsaved : BOOLEAN, during : Nat]
Outcome == {"accepted", "rejected"}

NoCalls == [c \in Caller |-> "idle"]
NoTrip == [halted |-> FALSE, unsaved |-> FALSE, during |-> 0]

FlagsOK == up \in BOOLEAN /\ loaded \in BOOLEAN /\ leftover \in BOOLEAN
CountsOK == yes \in Nat /\ closed \in Nat /\ crashes \in Nat
DataOK == /\ breaker \in Breaker
          /\ file \in File
          /\ phase \in [Caller -> Phase]
          /\ outcomes \in Seq(Outcome)
          /\ trip \in Trip

TypeOK == FlagsOK /\ CountsOK /\ DataOK

Init ==
    /\ up = TRUE /\ breaker = Armed /\ file = NoFile
    /\ phase = NoCalls
    /\ outcomes = <<>> /\ loaded = FALSE
    /\ trip = NoTrip /\ leftover = FALSE
    /\ yes = 0 /\ closed = 0 /\ crashes = 0

-----------------------------------------------------------------------------
Note(outcome) ==
    /\ Len(outcomes) < MaxOutcomes
    /\ outcomes' = Append(outcomes, outcome)

RecordSuccess ==
    /\ up
    /\ breaker' = Succeeded(breaker)
    /\ Note("accepted")
    /\ UNCHANGED <<up, file, phase, loaded, trip, leftover, yes, closed, crashes>>

\* Slip: the trip is not saved.
SaveTripForgotten ==
    /\ file' = file
    /\ trip' = [halted |-> TRUE, unsaved |-> FALSE, during |-> crashes]

\* _save of a trip.  mkdir or open may fail (the file stays as it was), the
\* write may fail after the truncation, or all goes well.
SaveTrip ==
    /\ file' \in {file, Torn, Saved(Rejected(breaker))}
    /\ trip' = [halted |-> TRUE, unsaved |-> file' = NoFile, during |-> crashes]

\* record_rejection; the rejection that opens the breaker also saves it.
RecordRejection ==
    /\ up
    /\ breaker' = Rejected(breaker)
    /\ Note("rejected")
    /\ IF Trips(breaker) THEN SaveTrip ELSE UNCHANGED <<file, trip>>
    /\ UNCHANGED <<up, phase, loaded, leftover, yes, closed, crashes>>

\* _confirm_reset: ask a human, unless there is nothing to reset.
AskReset(c) ==
    /\ up /\ phase[c] = "idle"
    /\ phase' = [phase EXCEPT ![c] = IF NeedsReset(breaker) THEN "asked" ELSE "skipped"]
    /\ UNCHANGED <<up, breaker, file, outcomes, loaded, trip, leftover, yes, closed, crashes>>

\* The human ticks the box.  Under the protocol that answers with a new
\* request the resolver runs again, and may now find nothing to reset.
Confirm(c) ==
    /\ up /\ phase[c] = "asked" /\ yes < MaxResets
    /\ \/ phase' = [phase EXCEPT ![c] = "confirmed"]
       \/ ~NeedsReset(breaker) /\ phase' = [phase EXCEPT ![c] = "skipped"]
    /\ yes' = yes + 1
    /\ UNCHANGED <<up, breaker, file, outcomes, loaded, trip, leftover, closed, crashes>>

\* Declined, cancelled, left unticked, or the client cannot ask; or the trading
\* gate, which comes before the question and again before the body, refuses.
Decline(c) ==
    /\ up /\ phase[c] # "idle"
    /\ phase' = [phase EXCEPT ![c] = "idle"]
    /\ UNCHANGED <<up, breaker, file, outcomes, loaded, trip, leftover, yes, closed, crashes>>

\* Slip: the file stays.
ResetMemoryOnly ==
    /\ breaker' = Armed
    /\ file' = file /\ leftover' = FALSE
    /\ outcomes' = <<>> /\ loaded' = FALSE
    /\ trip' = NoTrip
    /\ closed' = closed + 1

\* CircuitBreaker.reset: memory first, then the file, whose unlink may fail.
Reset ==
    /\ breaker' = Armed
    /\ file' \in {NoFile, file}
    /\ leftover' = (file' # NoFile)
    /\ outcomes' = <<>> /\ loaded' = FALSE
    /\ trip' = NoTrip
    /\ closed' = closed + 1

\* Slip: a call that was told there is nothing to reset resets after all.
ResetBreakerUnasked(c) ==
    /\ up /\ phase[c] \in {"confirmed", "skipped"}
    /\ phase' = [phase EXCEPT ![c] = "idle"]
    /\ NeedsReset(breaker) /\ Reset
    /\ UNCHANGED <<up, yes, crashes>>

\* AdminService.reset_circuit_breaker, which looks at the breaker again.
ResetBreaker(c) ==
    /\ up /\ phase[c] \in {"confirmed", "skipped"}
    /\ phase' = [phase EXCEPT ![c] = "idle"]
    /\ IF NeedsReset(breaker) /\ phase[c] = "confirmed" THEN Reset
       ELSE UNCHANGED <<breaker, file, outcomes, loaded, trip, leftover, closed>>
    /\ UNCHANGED <<up, yes, crashes>>

\* The process dies, possibly in the middle of the save of a trip.
Die ==
    /\ up /\ crashes < MaxCrashes
    /\ crashes' = crashes + 1
    /\ up' = FALSE
    /\ phase' = NoCalls
    /\ breaker' = Armed
    /\ outcomes' = <<>> /\ loaded' = FALSE
    /\ UNCHANGED <<leftover, yes, closed>>

Crash == Die /\ UNCHANGED <<file, trip>>

CrashInSave == Trips(breaker) /\ Die /\ SaveTrip

\* Slip: an unreadable file counts as none.
RestartTrusting ==
    /\ ~up /\ up' = TRUE
    /\ breaker' = IF file.kind = "saved"
                  THEN [rejections |-> file.rejections, open |-> TRUE] ELSE Armed
    /\ loaded' = (file.kind = "saved")
    /\ UNCHANGED <<file, phase, outcomes, trip, leftover, yes, closed, crashes>>

\* _load: no file, closed; an unreadable one counts as an open breaker.
Restart ==
    /\ ~up /\ up' = TRUE
    /\ breaker' = IF file = NoFile THEN Armed
                  ELSE [rejections |-> file.rejections, open |-> TRUE]
    /\ loaded' = (file # NoFile)
    /\ UNCHANGED <<file, phase, outcomes, trip, leftover, yes, closed, crashes>>

Next ==
    \/ RecordSuccess
    \/ RecordRejection
    \/ \E c \in Caller : AskReset(c)
    \/ \E c \in Caller : Confirm(c)
    \/ \E c \in Caller : Decline(c)
    \/ \E c \in Caller : ResetBreaker(c)
    \/ Crash
    \/ CrashInSave
    \/ Restart

Spec == Init /\ [][Next]_vars

-----------------------------------------------------------------------------
(* Properties *)

\* Once rejections opened the breaker it is open, in this process and in every
\* later one, until a human resets it (CircuitBreaker's docstring).  The one
\* exception is a later process, when the save never reached the file.
HaltedUntilReset ==
    up /\ trip.halted => breaker.open \/ (trip.unsaved /\ trip.during < crashes)

\* A closed breaker leaves nothing behind that would open it at the next start,
\* unless the unlink of its reset failed.
ClosedLeavesNoFile == up /\ ~breaker.open => file = NoFile \/ leftover

\* A trip is in the file, or its save failed; before the process is up again
\* nothing but the file can tell.
TripIsSaved ==
    /\ trip.during <= crashes
    /\ trip.halted => file # NoFile \/ trip.unsaved
    /\ ~up /\ trip.halted /\ file = NoFile => trip.during < crashes

\* The inductive invariant of CircuitBreakerProofs.
IInv == TypeOK /\ HaltedUntilReset /\ ClosedLeavesNoFile /\ TripIsSaved

StreakIn(q) == \E i \in 0 .. Len(q) - Threshold :
                  \A j \in 1 .. Threshold : q[i + j] = "rejected"

\* The reference: the breaker is open exactly when it was open at start-up, or
\* the results since then (or the reset) hold Threshold rejections in a row.
OpensExactlyAtTheThreshold == up => (breaker.open <=> loaded \/ StreakIn(outcomes))

\* Every reset that changed something was confirmed by a human, each
\* confirmation used once; a caller who was told there was nothing to reset
\* cannot close a breaker that opened since.
ResetsAreConfirmed ==
    closed + Cardinality({c \in Caller : phase[c] = "confirmed"}) <= yes
=============================================================================
