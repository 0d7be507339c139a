------------------------ MODULE CircuitBreakerProofs ------------------------
(***************************************************************************)
(* A tripped breaker stays open across restarts until a human resets it,   *)
(* and a closed one stays closed, for every threshold and any number of    *)
(* callers and crashes.  The argument follows the file: from the trip to   *)
(* the reset it is there, unless its save failed (TripIsSaved).  Resets    *)
(* are confirmed: the calls a human said yes to, and that have not used    *)
(* it, are counted.  It opens at the threshold: while it is closed its     *)
(* count is the length of the streak the results end with (Counting).      *)
(***************************************************************************)
EXTENDS CircuitBreaker, FiniteSetTheorems, TLAPS

\* A call that leaves the breaker, the file and the trip alone, or that only
\* records an accepted order, keeps the invariant.
LEMMA QuietStepsKeep ==
    ASSUME IInv, TypeOK', breaker' \in {breaker, Succeeded(breaker)},
           UNCHANGED <<up, file, trip, leftover, crashes>>
    PROVE  IInv'
  BY DEF IInv, TypeOK, Succeeded, Armed, Breaker, HaltedUntilReset, ClosedLeavesNoFile,
         TripIsSaved

\* A process starts with well-typed values.
LEMMA StartTypes ==
    /\ Armed \in Breaker /\ Armed.open = FALSE
    /\ NoFile \in File
    /\ NoTrip \in Trip /\ NoTrip.halted = FALSE /\ NoTrip.during = 0
    /\ <<>> \in Seq(Outcome)
    /\ NoCalls \in [Caller -> Phase]
  BY DEF Armed, Breaker, NoFile, File, NoTrip, Trip, NoCalls, Phase

\* Counting a rejection keeps a breaker a breaker, and an open one open.
LEMMA RejectedType ==
    ASSUME NEW b \in Breaker
    PROVE  Rejected(b) \in Breaker /\ (Trips(b) => Rejected(b).open) /\ (b.open => Rejected(b).open)
  BY DEF Rejected, Breaker, Trips

\* Saving a trip leaves a file, or marks the trip unsaved.
LEMMA SaveTripKeeps ==
    ASSUME TypeOK, SaveTrip
    PROVE  /\ file' \in File
           /\ trip' \in Trip /\ trip'.halted /\ trip'.during = crashes
           /\ file' # NoFile \/ trip'.unsaved
  <1>1. Saved(Rejected(breaker)) \in File /\ Torn \in File
    BY RejectedType DEF TypeOK, DataOK, Saved, Torn, File, Breaker
  <1>2. file' \in File
    BY <1>1 DEF SaveTrip, TypeOK, DataOK, File
  <1>3. trip' = [halted |-> TRUE, unsaved |-> file' = NoFile, during |-> crashes]
    BY DEF SaveTrip
  <1>4. trip' \in Trip /\ trip'.halted /\ trip'.during = crashes
    BY <1>3 DEF TypeOK, DataOK, CountsOK, Trip
  <1>5. file' # NoFile \/ trip'.unsaved
    BY <1>3
  <1> QED BY <1>2, <1>4, <1>5

\* The invariant of the breaker and its file (record_rejection, reset, _save,
\* _load).
THEOREM BreakerInvariant == Spec => []IInv
  <1> USE ThresholdAssumption
  <1>1. Init => IInv
    <2> SUFFICES ASSUME Init PROVE IInv
      OBVIOUS
    <2>1. FlagsOK /\ CountsOK
      BY DEF Init, FlagsOK, CountsOK
    <2>2. DataOK
      BY StartTypes DEF Init, DataOK
    <2>3. HaltedUntilReset /\ ClosedLeavesNoFile /\ TripIsSaved
      BY StartTypes DEF Init, HaltedUntilReset, ClosedLeavesNoFile, TripIsSaved
    <2> QED BY <2>1, <2>2, <2>3 DEF IInv, TypeOK
  <1>2. IInv /\ [Next]_vars => IInv'
    <2> SUFFICES ASSUME IInv, [Next]_vars PROVE IInv'
      OBVIOUS
    <2> USE DEF IInv
    <2>1. CASE RecordSuccess
      <3>1. TypeOK'
        <4>1. FlagsOK'
          BY <2>1, Zenon DEF RecordSuccess, Note, Succeeded, Armed, Breaker, Outcome, TypeOK, FlagsOK
        <4>2. CountsOK'
          BY <2>1 DEF RecordSuccess, Note, Succeeded, Armed, Breaker, Outcome, TypeOK, CountsOK
        <4>3. DataOK'
          BY <2>1 DEF RecordSuccess, Note, Succeeded, Armed, Breaker, Outcome, TypeOK, CountsOK, DataOK
        <4> QED BY <4>1, <4>2, <4>3 DEF TypeOK
      <3> QED BY <2>1, <3>1, QuietStepsKeep DEF RecordSuccess
    <2>2. CASE RecordRejection
      <3>1. TypeOK'
        <4>1. FlagsOK'
          BY <2>2, Zenon DEF RecordRejection, Note, Outcome, TypeOK, FlagsOK
        <4>2. CountsOK'
          BY <2>2 DEF RecordRejection, Note, Outcome, TypeOK, CountsOK
        <4>3. DataOK'
          BY <2>2, RejectedType, SaveTripKeeps DEF RecordRejection, Note, Outcome, TypeOK, CountsOK, DataOK
        <4> QED BY <4>1, <4>2, <4>3 DEF TypeOK
      <3>2. CASE Trips(breaker)
        BY <2>2, <3>1, <3>2, RejectedType, SaveTripKeeps
           DEF RecordRejection, TypeOK, DataOK, CountsOK, HaltedUntilReset, ClosedLeavesNoFile, TripIsSaved
      <3>3. CASE ~Trips(breaker)
        BY <2>2, <3>1, <3>3, RejectedType
           DEF RecordRejection, TypeOK, Breaker, Rejected, Trips, HaltedUntilReset,
               ClosedLeavesNoFile, TripIsSaved
      <3> QED BY <3>2, <3>3
    <2>3. ASSUME NEW c \in Caller, AskReset(c) PROVE IInv'
      <3>1. TypeOK'
        <4>1. FlagsOK'
          BY <2>3, Zenon DEF AskReset, Phase, TypeOK, FlagsOK
        <4>2. CountsOK'
          BY <2>3 DEF AskReset, Phase, TypeOK, CountsOK
        <4>3. DataOK'
          BY <2>3 DEF AskReset, Phase, TypeOK, CountsOK, DataOK
        <4> QED BY <4>1, <4>2, <4>3 DEF TypeOK
      <3> QED BY <2>3, <3>1, QuietStepsKeep DEF AskReset
    <2>4. ASSUME NEW c \in Caller, Confirm(c) PROVE IInv'
      <3>1. TypeOK'
        <4>1. FlagsOK'
          BY <2>4, Zenon DEF Confirm, Phase, TypeOK, FlagsOK
        <4>2. CountsOK'
          BY <2>4 DEF Confirm, Phase, TypeOK, CountsOK
        <4>3. DataOK'
          BY <2>4 DEF Confirm, Phase, TypeOK, CountsOK, DataOK
        <4> QED BY <4>1, <4>2, <4>3 DEF TypeOK
      <3> QED BY <2>4, <3>1, QuietStepsKeep DEF Confirm
    <2>5. ASSUME NEW c \in Caller, Decline(c) PROVE IInv'
      <3>1. TypeOK'
        <4>1. FlagsOK'
          BY <2>5, Zenon DEF Decline, Phase, TypeOK, FlagsOK
        <4>2. CountsOK'
          BY <2>5 DEF Decline, Phase, TypeOK, CountsOK
        <4>3. DataOK'
          BY <2>5 DEF Decline, Phase, TypeOK, CountsOK, DataOK
        <4> QED BY <4>1, <4>2, <4>3 DEF TypeOK
      <3> QED BY <2>5, <3>1, QuietStepsKeep DEF Decline
    <2>6. ASSUME NEW c \in Caller, ResetBreaker(c) PROVE IInv'
      <3>1. TypeOK'
        <4>1. FlagsOK'
          BY <2>6, Zenon DEF ResetBreaker, Reset, Phase, TypeOK, FlagsOK
        <4>2. CountsOK'
          BY <2>6 DEF ResetBreaker, Reset, Phase, TypeOK, CountsOK
        <4>3. DataOK'
          BY <2>6, StartTypes DEF ResetBreaker, Reset, Phase, TypeOK, CountsOK, DataOK
        <4> QED BY <4>1, <4>2, <4>3 DEF TypeOK
      <3>2. CASE Reset
        <4>1. /\ ~breaker'.open /\ ~trip'.halted /\ trip'.during = 0
              /\ leftover' = (file' # NoFile) /\ crashes' = crashes
          BY <2>6, <3>2, StartTypes DEF ResetBreaker, Reset
        <4>2. HaltedUntilReset'
          BY <4>1 DEF HaltedUntilReset
        <4>3. ClosedLeavesNoFile'
          BY <4>1, Zenon DEF ClosedLeavesNoFile
        <4>4. TripIsSaved'
          BY <4>1 DEF TripIsSaved, TypeOK, CountsOK
        <4> QED BY <3>1, <4>2, <4>3, <4>4
      <3>3. CASE ~Reset
        BY <2>6, <3>1, <3>3, QuietStepsKeep DEF ResetBreaker
      <3> QED BY <3>2, <3>3
    <2>7. CASE Crash
      <3>1. TypeOK'
        <4>1. FlagsOK'
          BY <2>7, Zenon DEF Crash, Die, TypeOK, FlagsOK
        <4>2. CountsOK'
          BY <2>7 DEF Crash, Die, TypeOK, CountsOK
        <4>3. DataOK'
          BY <2>7, StartTypes DEF Crash, Die, TypeOK, CountsOK, DataOK
        <4> QED BY <4>1, <4>2, <4>3 DEF TypeOK
      <3> QED BY <2>7, <3>1
              DEF Crash, Die, TypeOK, DataOK, CountsOK, Trip, HaltedUntilReset, ClosedLeavesNoFile, TripIsSaved
    <2>8. CASE CrashInSave
      <3>1. TypeOK'
        <4>1. FlagsOK'
          BY <2>8, Zenon DEF CrashInSave, Die, TypeOK, FlagsOK
        <4>2. CountsOK'
          BY <2>8 DEF CrashInSave, Die, TypeOK, CountsOK
        <4>3. DataOK'
          BY <2>8, StartTypes, SaveTripKeeps DEF CrashInSave, Die, TypeOK, CountsOK, DataOK
        <4> QED BY <4>1, <4>2, <4>3 DEF TypeOK
      <3> QED BY <2>8, <3>1, SaveTripKeeps
              DEF CrashInSave, Die, TypeOK, DataOK, CountsOK, HaltedUntilReset, ClosedLeavesNoFile, TripIsSaved
    <2>9. CASE Restart
      <3>1. TypeOK'
        <4>1. FlagsOK'
          BY <2>9, Zenon DEF Restart, Armed, Breaker, File, TypeOK, FlagsOK
        <4>2. CountsOK'
          BY <2>9 DEF Restart, Armed, Breaker, File, TypeOK, CountsOK
        <4>3. DataOK'
          BY <2>9, StartTypes DEF Restart, Armed, Breaker, File, TypeOK, CountsOK, DataOK
        <4> QED BY <4>1, <4>2, <4>3 DEF TypeOK
      <3> QED BY <2>9, <3>1
              DEF Restart, TypeOK, Armed, HaltedUntilReset, ClosedLeavesNoFile, TripIsSaved
    <2>10. CASE UNCHANGED vars
      BY <2>10, Zenon DEF vars, TypeOK, FlagsOK, CountsOK, DataOK, HaltedUntilReset, ClosedLeavesNoFile, TripIsSaved
    <2> QED BY <2>1, <2>2, <2>3, <2>4, <2>5, <2>6, <2>7, <2>8, <2>9, <2>10 DEF Next
  <1> QED BY <1>1, <1>2, PTL DEF Spec

\* Restarting the server is no way around a tripped breaker whose save reached
\* the file, and in one process nothing but a confirmed reset closes it.
THEOREM TripsOutliveRestarts == Spec => []HaltedUntilReset
  <1>1. IInv => HaltedUntilReset
    BY DEF IInv
  <1> QED BY <1>1, BreakerInvariant, PTL

\* A breaker a human reset does not open again by itself at the next start,
\* unless the state file could not be removed.
THEOREM ResetsOutliveRestarts == Spec => []ClosedLeavesNoFile
  <1>1. IInv => ClosedLeavesNoFile
    BY DEF IInv
  <1> QED BY <1>1, BreakerInvariant, PTL

-----------------------------------------------------------------------------
(* No reset without a human's yes of its own *)

\* The calls a human said yes to that have not acted on it.
Confirmed == {c \in Caller : phase[c] = "confirmed"}

\* A yes was used, is held by one of these calls, or was lost with its call.
YesesCovered ==
    /\ yes \in Nat /\ closed \in Nat
    /\ phase \in [Caller -> Phase]
    /\ IsFiniteSet(Confirmed)
    /\ closed + Cardinality(Confirmed) <= yes

\* A set that can be counted counts less without one of its members.
LEMMA OneLess ==
    ASSUME NEW S, IsFiniteSet(S), NEW x
    PROVE  /\ IsFiniteSet(S \ {x}) /\ Cardinality(S) \in Nat /\ Cardinality(S \ {x}) \in Nat
           /\ Cardinality(S \ {x}) <= Cardinality(S)
           /\ x \in S => Cardinality(S \ {x}) + 1 = Cardinality(S)
  <1>1. Cardinality(S) \in Nat
    BY FS_CardinalityType
  <1>2. IsFiniteSet(S \ {x}) /\ Cardinality(S \ {x}) = IF x \in S THEN Cardinality(S) - 1 ELSE Cardinality(S)
    BY FS_RemoveElement
  <1>3. Cardinality(S \ {x}) \in Nat
    BY <1>2, FS_CardinalityType
  <1> QED BY <1>1, <1>2, <1>3

\* A call that gives its yes up, or never had one, covers no less.
LEMMA GivenUpKeeps ==
    ASSUME YesesCovered, NEW c \in Caller, NEW p \in Phase \ {"confirmed"},
           phase' = [phase EXCEPT ![c] = p], yes' \in Nat, yes' >= yes, closed' \in Nat,
           \/ closed' = closed
           \/ closed' = closed + 1 /\ phase[c] = "confirmed"
    PROVE  YesesCovered'
  <1>1. Confirmed' = Confirmed \ {c}
    BY DEF Confirmed, YesesCovered
  <1>2. phase' \in [Caller -> Phase]
    BY DEF YesesCovered
  <1>3. c \in Confirmed <=> phase[c] = "confirmed"
    BY DEF Confirmed
  <1>4. /\ IsFiniteSet(Confirmed') /\ Cardinality(Confirmed) \in Nat
        /\ Cardinality(Confirmed') \in Nat
        /\ Cardinality(Confirmed') <= Cardinality(Confirmed)
        /\ c \in Confirmed => Cardinality(Confirmed') + 1 = Cardinality(Confirmed)
    BY <1>1, OneLess DEF YesesCovered
  <1>5. closed' + Cardinality(Confirmed') <= yes'
    BY <1>3, <1>4 DEF YesesCovered
  <1> QED BY <1>2, <1>4, <1>5 DEF YesesCovered

\* A human's yes covers one more call.
LEMMA ConfirmKeeps ==
    ASSUME YesesCovered, NEW c \in Caller, Confirm(c)
    PROVE  YesesCovered'
  <1>1. yes' = yes + 1 /\ yes' \in Nat /\ closed' = closed
    BY DEF Confirm, YesesCovered
  <1>2. CASE phase' = [phase EXCEPT ![c] = "confirmed"]
    <2>1. Confirmed' = Confirmed \cup {c}
      BY <1>2 DEF Confirmed, YesesCovered
    <2>2. phase' \in [Caller -> Phase]
      BY <1>2 DEF YesesCovered, Phase
    <2>3. Cardinality(Confirmed) \in Nat
      BY FS_CardinalityType DEF YesesCovered
    <2>4. /\ IsFiniteSet(Confirmed')
          /\ Cardinality(Confirmed') \in {Cardinality(Confirmed), Cardinality(Confirmed) + 1}
      BY <2>1, FS_AddElement DEF YesesCovered
    <2> QED BY <1>1, <2>2, <2>3, <2>4 DEF YesesCovered
  <1>3. CASE phase' = [phase EXCEPT ![c] = "skipped"]
    <2>1. yes' >= yes /\ closed' \in Nat /\ "skipped" \in Phase \ {"confirmed"}
      BY <1>1 DEF YesesCovered, Phase
    <2> QED BY <1>1, <1>3, <2>1, GivenUpKeeps
  <1> QED BY <1>2, <1>3 DEF Confirm

\* Steps that touch neither calls nor confirmations.
LEMMA UntouchedKeeps ==
    ASSUME YesesCovered, UNCHANGED <<phase, yes, closed>>
    PROVE  YesesCovered'
  BY DEF YesesCovered, Confirmed

\* A reset that changes something uses up the yes of its own call: a caller who was
\* told there is nothing to reset closes no breaker that opened since, and no yes
\* closes it twice (_confirm_reset, AdminService.reset_circuit_breaker).
THEOREM ResetsHaveTheirYes == Spec => []ResetsAreConfirmed
  <1>1. Init => YesesCovered
    <2> SUFFICES ASSUME Init PROVE YesesCovered
      OBVIOUS
    <2>1. Confirmed = {}
      BY DEF Init, Confirmed, NoCalls
    <2> QED BY <2>1, FS_EmptySet, StartTypes DEF Init, YesesCovered
  <1>2. YesesCovered /\ [Next]_vars => YesesCovered'
    <2> SUFFICES ASSUME YesesCovered, [Next]_vars PROVE YesesCovered'
      OBVIOUS
    <2>0. yes \in Nat /\ yes >= yes /\ closed \in Nat /\ "idle" \in Phase \ {"confirmed"}
      BY DEF YesesCovered, Phase
    <2>1. CASE RecordSuccess \/ RecordRejection \/ Restart \/ UNCHANGED vars
      BY <2>1, UntouchedKeeps DEF RecordSuccess, RecordRejection, Restart, vars
    <2>2. ASSUME NEW c \in Caller, AskReset(c) PROVE YesesCovered'
      <3>1. PICK p \in Phase \ {"confirmed"} : phase' = [phase EXCEPT ![c] = p]
        BY <2>2 DEF AskReset, Phase
      <3>2. yes' = yes /\ closed' = closed
        BY <2>2 DEF AskReset
      <3> QED BY <2>0, <3>1, <3>2, GivenUpKeeps
    <2>3. ASSUME NEW c \in Caller, Confirm(c) PROVE YesesCovered'
      BY <2>3, ConfirmKeeps
    <2>4. ASSUME NEW c \in Caller, Decline(c) PROVE YesesCovered'
      <3>1. phase' = [phase EXCEPT ![c] = "idle"] /\ yes' = yes /\ closed' = closed
        BY <2>4 DEF Decline
      <3> QED BY <2>0, <3>1, GivenUpKeeps
    <2>5. ASSUME NEW c \in Caller, ResetBreaker(c) PROVE YesesCovered'
      <3>1. closed' = closed \/ (closed' = closed + 1 /\ phase[c] = "confirmed")
        BY <2>5 DEF ResetBreaker, Reset
      <3>2. phase' = [phase EXCEPT ![c] = "idle"] /\ yes' = yes
        BY <2>5 DEF ResetBreaker
      <3>3. closed' \in Nat
        BY <2>0, <3>1
      <3> QED BY <2>0, <3>1, <3>2, <3>3, GivenUpKeeps
    <2>6. CASE Crash \/ CrashInSave
      <3>1. phase' = NoCalls /\ yes' = yes /\ closed' = closed
        BY <2>6 DEF Crash, CrashInSave, Die
      <3>2. Confirmed' = {}
        BY <3>1 DEF Confirmed, NoCalls
      <3>3. Cardinality(Confirmed) \in Nat
        BY FS_CardinalityType DEF YesesCovered
      <3> QED BY <3>1, <3>2, <3>3, FS_EmptySet, StartTypes DEF YesesCovered
    <2> QED BY <2>1, <2>2, <2>3, <2>4, <2>5, <2>6 DEF Next
  <1>3. YesesCovered => ResetsAreConfirmed
    BY DEF YesesCovered, Confirmed, ResetsAreConfirmed
  <1> QED BY <1>1, <1>2, <1>3, PTL DEF Spec

------------------------------------------------------------------------------
(* Opened by a streak of rejections, and by nothing else *)

\* The results q end with a streak of exactly n rejections.
EndsWith(q, n) ==
    /\ n \in 0 .. Len(q)
    /\ \A i \in 1 .. Len(q) : i > Len(q) - n => q[i] = "rejected"
    /\ n < Len(q) => q[Len(q) - n] = "accepted"

\* While the breaker is closed its count is that streak's; an open one was loaded or
\* opened by a streak.
Counting ==
    /\ outcomes \in Seq(Outcome) /\ breaker \in Breaker
    /\ ~breaker.open => /\ ~loaded /\ ~StreakIn(outcomes)
                        /\ EndsWith(outcomes, breaker.rejections)
    /\ breaker.open => loaded \/ StreakIn(outcomes)
    /\ ~up => outcomes = <<>>

\* A process, or a reset, starts the count.
LEMMA NothingCounted == ~StreakIn(<<>>) /\ EndsWith(<<>>, 0)
  BY ThresholdAssumption DEF StreakIn, EndsWith

\* A streak stays one when results are added.
LEMMA StreaksStay ==
    ASSUME NEW q \in Seq(Outcome), NEW o \in Outcome, StreakIn(q)
    PROVE  StreakIn(Append(q, o))
  <1> USE ThresholdAssumption
  <1>1. PICK i \in 0 .. Len(q) - Threshold : \A j \in 1 .. Threshold : q[i + j] = "rejected"
    BY DEF StreakIn
  <1>2. i \in 0 .. Len(Append(q, o)) - Threshold
    OBVIOUS
  <1>3. ASSUME NEW j \in 1 .. Threshold PROVE Append(q, o)[i + j] = "rejected"
    <2>1. i + j \in 1 .. Len(q)
      OBVIOUS
    <2>2. Append(q, o)[i + j] = q[i + j]
      BY <2>1
    <2> QED BY <1>1, <2>2
  <1> QED BY <1>2, <1>3 DEF StreakIn

\* A streak that is new ends with the result just added.
LEMMA NewStreakIsLast ==
    ASSUME NEW q \in Seq(Outcome), NEW o \in Outcome, ~StreakIn(q), StreakIn(Append(q, o))
    PROVE  /\ Threshold <= Len(q) + 1 /\ o = "rejected"
           /\ \A i \in 1 .. Len(q) : i > Len(q) + 1 - Threshold => q[i] = "rejected"
  <1> DEFINE r == Append(q, o)
  <1> USE ThresholdAssumption
  <1>1. PICK i \in 0 .. Len(r) - Threshold : \A j \in 1 .. Threshold : r[i + j] = "rejected"
    BY DEF StreakIn
  <1>2. Len(r) = Len(q) + 1 /\ r[Len(q) + 1] = o /\ \A k \in 1 .. Len(q) : r[k] = q[k]
    OBVIOUS
  <1>3. Len(q) \in Nat /\ Threshold \in Nat \ {0}
    OBVIOUS
  <1> HIDE DEF r
  <1>4. i = Len(q) + 1 - Threshold
    <2> SUFFICES ASSUME i # Len(q) + 1 - Threshold PROVE FALSE
      OBVIOUS
    <2>1. i \in 0 .. Len(q) - Threshold
      BY <1>2, <1>3
    <2>2. ASSUME NEW j \in 1 .. Threshold PROVE q[i + j] = "rejected"
      <3>1. i + j \in 1 .. Len(q)
        BY <1>3, <2>1
      <3> QED BY <1>1, <1>2, <3>1
    <2> QED BY <2>1, <2>2 DEF StreakIn
  <1>5. ASSUME NEW k \in 1 .. Len(q) + 1, k > Len(q) + 1 - Threshold PROVE r[k] = "rejected"
    <2>1. k - i \in 1 .. Threshold /\ i + (k - i) = k
      BY <1>3, <1>4, <1>5
    <2> QED BY <1>1, <2>1
  <1>6. r[Len(q) + 1] = "rejected" /\ Threshold <= Len(q) + 1
    BY <1>1, <1>2, <1>3, <1>4, <1>5
  <1>7. \A k \in 1 .. Len(q) : k > Len(q) + 1 - Threshold => q[k] = "rejected"
    BY <1>2, <1>3, <1>5
  <1> QED BY <1>2, <1>6, <1>7

\* An accepted order ends the streak.
LEMMA AcceptedEndsIt ==
    ASSUME NEW q \in Seq(Outcome), ~StreakIn(q)
    PROVE  ~StreakIn(Append(q, "accepted")) /\ EndsWith(Append(q, "accepted"), 0)
  <1>1. "accepted" \in Outcome
    BY DEF Outcome
  <1>2. ~StreakIn(Append(q, "accepted"))
    BY <1>1, NewStreakIsLast
  <1> QED BY <1>1, <1>2 DEF EndsWith

\* A rejection makes it one longer, and a streak of Threshold exactly when it was one
\* short of that.
LEMMA RejectedMakesItLonger ==
    ASSUME NEW q \in Seq(Outcome), NEW n \in Nat, ~StreakIn(q), EndsWith(q, n)
    PROVE  LET r == Append(q, "rejected")
           IN  EndsWith(r, n + 1) /\ (StreakIn(r) <=> n + 1 >= Threshold)
  <1> DEFINE r == Append(q, "rejected")
  <1> USE ThresholdAssumption
  <1>0. "rejected" \in Outcome
    BY DEF Outcome
  <1>1. /\ Len(r) = Len(q) + 1 /\ r[Len(q) + 1] = "rejected"
        /\ \A k \in 1 .. Len(q) : r[k] = q[k]
    BY <1>0
  <1>2. Len(q) \in Nat /\ Threshold \in Nat \ {0} /\ n <= Len(q)
    BY DEF EndsWith
  <1>3. ASSUME StreakIn(r) PROVE n + 1 >= Threshold
    <2>1. /\ Threshold <= Len(q) + 1
          /\ \A i \in 1 .. Len(q) : i > Len(q) + 1 - Threshold => q[i] = "rejected"
      BY <1>0, <1>3, NewStreakIsLast
    <2> SUFFICES ASSUME n + 1 < Threshold PROVE FALSE
      BY <1>2
    <2>2. n < Len(q) /\ Len(q) - n \in 1 .. Len(q) /\ Len(q) - n > Len(q) + 1 - Threshold
      BY <1>2, <2>1
    <2> QED BY <2>1, <2>2 DEF EndsWith
  <1> HIDE DEF r
  <1>4. EndsWith(r, n + 1)
    <2>1. ASSUME NEW i \in 1 .. Len(r), i > Len(r) - (n + 1) PROVE r[i] = "rejected"
      <3>1. CASE i = Len(q) + 1
        BY <1>1, <3>1
      <3>2. CASE i # Len(q) + 1
        <4>1. i \in 1 .. Len(q) /\ i > Len(q) - n
          BY <1>1, <1>2, <2>1, <3>2
        <4> QED BY <1>1, <4>1 DEF EndsWith
      <3> QED BY <3>1, <3>2
    <2>2. n + 1 < Len(r) => r[Len(r) - (n + 1)] = "accepted"
      <3> SUFFICES ASSUME n + 1 < Len(r) PROVE r[Len(r) - (n + 1)] = "accepted"
        OBVIOUS
      <3>1. n < Len(q) /\ Len(r) - (n + 1) = Len(q) - n /\ Len(q) - n \in 1 .. Len(q)
        BY <1>1, <1>2
      <3> QED BY <1>1, <3>1 DEF EndsWith
    <2> QED BY <1>1, <1>2, <2>1, <2>2 DEF EndsWith
  <1>5. ASSUME n + 1 >= Threshold PROVE StreakIn(r)
    <2>1. Len(r) - Threshold \in 0 .. Len(r) - Threshold
      BY <1>1, <1>2, <1>5
    <2>2. ASSUME NEW j \in 1 .. Threshold PROVE r[(Len(r) - Threshold) + j] = "rejected"
      <3>1. /\ (Len(r) - Threshold) + j \in 1 .. Len(r)
            /\ (Len(r) - Threshold) + j > Len(r) - (n + 1)
        BY <1>1, <1>2, <1>5, <2>1
      <3> QED BY <1>4, <3>1 DEF EndsWith
    <2> QED BY <2>1, <2>2 DEF StreakIn
  <1> QED BY <1>3, <1>4, <1>5 DEF r

\* Where a process starts, or a reset ends, the count starts.
LEMMA StartCounts ==
    ASSUME breaker' = Armed, outcomes' = <<>>, loaded' = FALSE
    PROVE  Counting'
  BY NothingCounted, StartTypes DEF Counting, Armed

\* The breaker is open exactly when it was open at start-up, or the results since then
\* hold Threshold rejections in a row, however they are interleaved with resets, crashes
\* and failed saves: it opens neither late nor early (record_success, record_rejection,
\* reset, _load).
THEOREM OpensAtTheThreshold == Spec => []OpensExactlyAtTheThreshold
  <1> USE ThresholdAssumption
  <1>1. Init => Counting
    BY NothingCounted, StartTypes DEF Init, Counting, Armed
  <1>2. IInv /\ Counting /\ [Next]_vars => Counting'
    <2> SUFFICES ASSUME IInv, Counting, [Next]_vars PROVE Counting'
      OBVIOUS
    <2>0. /\ outcomes \in Seq(Outcome) /\ breaker \in Breaker
          /\ breaker.open \in BOOLEAN /\ breaker.rejections \in Nat
          /\ "accepted" \in Outcome /\ "rejected" \in Outcome
      BY DEF Counting, Breaker, Outcome
    <2>1. CASE RecordSuccess
      <3>1. /\ outcomes' = Append(outcomes, "accepted") /\ loaded' = loaded
            /\ breaker' = Succeeded(breaker) /\ up'
        BY <2>1 DEF RecordSuccess, Note
      <3>2. outcomes' \in Seq(Outcome) /\ breaker' \in Breaker
        BY <2>0, <3>1, StartTypes DEF Succeeded
      <3>3. CASE breaker.open
        BY <2>0, <3>1, <3>2, <3>3, StreaksStay DEF Counting, Succeeded
      <3>4. CASE ~breaker.open
        <4>1. ~StreakIn(outcomes') /\ EndsWith(outcomes', 0)
          BY <2>0, <3>1, <3>4, AcceptedEndsIt DEF Counting
        <4>2. breaker' = Armed
          BY <3>1, <3>4 DEF Succeeded
        <4>3. ~loaded'
          BY <3>1, <3>4 DEF Counting
        <4> QED BY <3>1, <3>2, <4>1, <4>2, <4>3 DEF Counting, Armed
      <3> QED BY <3>3, <3>4
    <2>2. CASE RecordRejection
      <3>1. /\ outcomes' = Append(outcomes, "rejected") /\ loaded' = loaded
            /\ breaker' = Rejected(breaker) /\ up'
        BY <2>2 DEF RecordRejection, Note
      <3>2. outcomes' \in Seq(Outcome) /\ breaker' \in Breaker
        BY <2>0, <3>1, RejectedType
      <3>3. /\ breaker'.rejections = breaker.rejections + 1
            /\ breaker'.open <=> breaker.open \/ breaker.rejections + 1 >= Threshold
        BY <3>1 DEF Rejected
      <3>4. CASE breaker.open
        <4>1. loaded' \/ StreakIn(outcomes')
          BY <2>0, <3>1, <3>4, StreaksStay DEF Counting
        <4> QED BY <3>1, <3>2, <3>3, <3>4, <4>1 DEF Counting
      <3>5. CASE ~breaker.open
        <4>1. /\ EndsWith(outcomes', breaker.rejections + 1)
              /\ StreakIn(outcomes') <=> breaker.rejections + 1 >= Threshold
          BY <2>0, <3>1, <3>5, RejectedMakesItLonger DEF Counting
        <4>2. ~loaded'
          BY <3>1, <3>5 DEF Counting
        <4> QED BY <3>1, <3>2, <3>3, <3>5, <4>1, <4>2 DEF Counting
      <3> QED BY <3>4, <3>5
    <2>3. ASSUME NEW c \in Caller, AskReset(c) \/ Confirm(c) \/ Decline(c) PROVE Counting'
      BY <2>3 DEF AskReset, Confirm, Decline, Counting
    <2>4. ASSUME NEW c \in Caller, ResetBreaker(c) PROVE Counting'
      <3>1. (Reset \/ UNCHANGED <<breaker, outcomes, loaded>>) /\ up'
        BY <2>4 DEF ResetBreaker
      <3>2. CASE Reset
        BY <3>2, StartCounts DEF Reset
      <3>3. CASE UNCHANGED <<breaker, outcomes, loaded>>
        BY <3>1, <3>3 DEF Counting
      <3> QED BY <3>1, <3>2, <3>3
    <2>5. CASE Crash \/ CrashInSave
      BY <2>5, StartCounts DEF Crash, CrashInSave, Die
    <2>6. CASE Restart
      <3>1. CASE file = NoFile
        <4>1. breaker' = Armed /\ loaded' = FALSE /\ outcomes' = outcomes
          BY <2>6, <3>1 DEF Restart
        <4>2. outcomes = <<>>
          BY <2>6 DEF Restart, Counting
        <4> QED BY <4>1, <4>2, StartCounts
      <3>2. CASE file # NoFile
        <4>1. /\ breaker' = [rejections |-> file.rejections, open |-> TRUE]
              /\ loaded' = TRUE /\ outcomes' = outcomes /\ up'
          BY <2>6, <3>2 DEF Restart
        <4>2. breaker' \in Breaker
          BY <4>1 DEF IInv, TypeOK, DataOK, File, Breaker
        <4> QED BY <2>0, <4>1, <4>2 DEF Counting
      <3> QED BY <3>1, <3>2
    <2>7. CASE UNCHANGED vars
      BY <2>7 DEF vars, Counting
    <2> QED BY <2>1, <2>2, <2>3, <2>4, <2>5, <2>6, <2>7 DEF Next
  <1>3. Counting => OpensExactlyAtTheThreshold
    BY DEF Counting, OpensExactlyAtTheThreshold, Breaker
  <1> QED BY <1>1, <1>2, <1>3, BreakerInvariant, PTL DEF Spec
=============================================================================
