---------------------------- MODULE AnswerProofs ----------------------------
(***************************************************************************)
(* Proofs about the parts of the services whose answers must be told       *)
(* apart: of each, that its invariant holds at its start and that every    *)
(* step keeps it; and of a behaviour of whichever part, AnswersAreOwn and  *)
(* OverwritesWhatWasShown, PreviewsAreChecked, HistoryIsPaced,             *)
(* ModificationsAreTrue and LogIsReadRight.                                *)
(***************************************************************************)
EXTENDS AnswerParts, SequenceTheorems, FiniteSetTheorems, TLAPS

-----------------------------------------------------------------------------
(* Requests whose answers cannot be told apart (SharedRequests) *)

SharedLine == Shared!Range(asked) \cup Shared!Range(answered)

\* What the assumption says of numbers and names.
LEMMA SharedConstants == MaxSends \in Nat /\ None \notin Caller /\ None \notin 1..MaxSends
  BY AnswerPartsAssumption DEF Shared!SharedAssumption

\* What is sent is last on the line.
LEMMA RangeOfAppend ==
    ASSUME NEW S, NEW s \in Seq(S), NEW x \in S
    PROVE  Shared!Range(Append(s, x)) = Shared!Range(s) \cup {x} /\ Append(s, x) \in Seq(S)
  BY AppendProperties DEF Shared!Range

\* What leaves one end of the line was on it.
LEMMA RangeOfTail ==
    ASSUME NEW S, NEW s \in Seq(S), s # <<>>
    PROVE  /\ Head(s) \in S /\ Head(s) \in Shared!Range(s)
           /\ Tail(s) \in Seq(S) /\ Shared!Range(Tail(s)) \subseteq Shared!Range(s)
  <1>1. Head(s) \in S /\ Tail(s) \in Seq(S) /\ Head(s) = s[1] /\ 1 \in DOMAIN s
    BY HeadTailProperties
  <1>2. \A i \in DOMAIN Tail(s) : i + 1 \in DOMAIN s /\ Tail(s)[i] = s[i + 1]
    BY HeadTailProperties
  <1> QED BY <1>1, <1>2 DEF Shared!Range

\* A call waits for its turn.
LEMMA SharedCallsKeeps ==
    ASSUME Shared!IInv, NEW c \in Caller, Shared!Calls(c)
    PROVE  Shared!IInv'
  <1> USE SharedConstants
  <1>1. Shared!TypeOK'
    BY DEF Shared!IInv, Shared!TypeOK, Shared!Call, Shared!Calls, Shared!Call0, Shared!shared, Shared!line
  <1>2. Shared!Locked' /\ Shared!NobodyWaitsInVain' /\ Shared!HookIsOwners'
    BY DEF Shared!IInv, Shared!TypeOK, Shared!Call, Shared!Locked, Shared!NobodyWaitsInVain, Shared!HookIsOwners, Shared!Hooked, Shared!Calls,
       Shared!Call0, Shared!shared, Shared!line
  <1>3. Shared!Alone'
    BY DEF Shared!IInv, Shared!TypeOK, Shared!Call, Shared!Locked, Shared!Alone, SharedLine, Shared!Calls, Shared!Call0, Shared!shared, Shared!line
  <1>4. Shared!AnswerIsOwn'
    BY DEF Shared!IInv, Shared!TypeOK, Shared!Call, Shared!Locked, Shared!NobodyWaitsInVain, Shared!HookIsOwners, Shared!Hooked, Shared!Kinds,
       Shared!Alone, SharedLine, Shared!AnswerIsOwn, Shared!Calls, Shared!Call0, Shared!shared, Shared!line
  <1> QED BY <1>1, <1>2, <1>3, <1>4 DEF Shared!IInv

\* A request is sent under the lock: what else is on the line was given up.
LEMMA SharedSendKeeps ==
    ASSUME Shared!IInv, NEW c \in Caller, Shared!Send(c)
    PROVE  Shared!IInv'
  <1> USE SharedConstants
  <1>1. CASE online
    <2> DEFINE asking == [at |-> "asking", request |-> sends + 1, got |-> None]
    <2>1. /\ keyLock = None /\ sends + 1 \in 1..MaxSends /\ sends' = sends + 1
          /\ calls' = [calls EXCEPT ![c] = asking]
          /\ keyLock' = c /\ future' = c /\ hook' = (IF Shared!Hooked THEN c ELSE hook)
          /\ asked' = Append(asked, sends + 1)
          /\ abandoned' = (IF Shared!Orphans # {} THEN abandoned \cup {c} ELSE abandoned \ {c})
          /\ UNCHANGED <<kind, answered, online>>
      BY <1>1 DEF Shared!Send, Shared!Sends, Shared!IInv, Shared!TypeOK
    <2>2. /\ Shared!Range(Append(asked, sends + 1)) = Shared!Range(asked) \cup {sends + 1}
          /\ Append(asked, sends + 1) \in Seq(1..MaxSends)
      BY <2>1, RangeOfAppend DEF Shared!IInv, Shared!TypeOK
    <2>3. asking \in Shared!Call
      BY <2>1 DEF Shared!Call
    <2>4. \A d \in Caller : calls[d].at \notin {"asking", "answered"}
      BY <2>1 DEF Shared!IInv, Shared!Locked
    <2>5. calls' \in [Caller -> Shared!Call] /\ calls'[c] = asking
          /\ \A d \in Caller \ {c} : calls'[d] = calls[d]
      BY <2>1, <2>3 DEF Shared!IInv, Shared!TypeOK
    <2>6. Shared!Orphans = SharedLine
      BY <2>4 DEF Shared!Orphans, SharedLine
    <2>7. Shared!TypeOK'
      BY <2>1, <2>2, <2>5 DEF Shared!IInv, Shared!TypeOK
    <2>8. Shared!Locked' /\ Shared!NobodyWaitsInVain'
      BY <2>1, <2>4, <2>5 DEF Shared!Locked, Shared!NobodyWaitsInVain
    <2>9. Shared!HookIsOwners'
      BY <2>1 DEF Shared!HookIsOwners, Shared!Hooked
    <2>10. Shared!Alone'
      <3> SUFFICES ASSUME NEW d \in Caller, calls'[d].at = "asking", d \notin abandoned'
                   PROVE  SharedLine' \subseteq {calls'[d].request}
        BY DEF Shared!Alone, SharedLine
      <3>1. d = c /\ SharedLine = {}
        BY <2>1, <2>4, <2>5, <2>6
      <3> QED BY <3>1, <2>1, <2>2, <2>5 DEF SharedLine
    <2>11. Shared!AnswerIsOwn'
      BY <2>1, <2>5 DEF Shared!AnswerIsOwn, Shared!IInv
    <2> QED BY <2>7, <2>8, <2>9, <2>10, <2>11 DEF Shared!IInv
  <1>2. CASE ~online
    <2>1. calls' = [calls EXCEPT ![c].at = "failed"] /\ calls[c].at = "queued"
          /\ UNCHANGED <<kind, keyLock, future, hook, asked, answered, sends, online, abandoned>>
      BY <1>2 DEF Shared!Send, Shared!Sends, Shared!Goes, Shared!shared
    <2>2. Shared!TypeOK'
      BY <2>1 DEF Shared!IInv, Shared!TypeOK, Shared!Call
    <2>3. \A d \in Caller : /\ calls'[d].at # calls[d].at => calls'[d].at = "failed" /\ calls[d].at = "queued"
                            /\ calls'[d].got = calls[d].got /\ calls'[d].request = calls[d].request
      BY <2>1 DEF Shared!IInv, Shared!TypeOK, Shared!Call
    <2>4. Shared!Locked' /\ Shared!NobodyWaitsInVain' /\ Shared!HookIsOwners'
      BY <2>1, <2>3 DEF Shared!IInv, Shared!Locked, Shared!NobodyWaitsInVain, Shared!HookIsOwners, Shared!Hooked
    <2>5. Shared!Alone' /\ Shared!AnswerIsOwn'
      BY <2>1, <2>3, ZenonT(30) DEF Shared!IInv, Shared!Alone, SharedLine, Shared!AnswerIsOwn
    <2> QED BY <2>2, <2>4, <2>5 DEF Shared!IInv
  <1> QED BY <1>1, <1>2

\* A call resumes.
LEMMA SharedReturnsKeeps ==
    ASSUME Shared!IInv, NEW c \in Caller, Shared!Returns(c)
    PROVE  Shared!IInv'
  <1> USE SharedConstants
  <1>1. Shared!TypeOK'
    BY ZenonT(30) DEF Shared!IInv, Shared!TypeOK, Shared!Call, Shared!Returns, Shared!Goes, Shared!Release, Shared!shared, Shared!line
  <1>2. Shared!Locked' /\ Shared!NobodyWaitsInVain' /\ Shared!HookIsOwners'
    BY DEF Shared!IInv, Shared!TypeOK, Shared!Call, Shared!Locked, Shared!NobodyWaitsInVain, Shared!HookIsOwners, Shared!Hooked,
       Shared!Returns, Shared!Goes, Shared!Release, Shared!shared, Shared!line
  <1>3. Shared!Alone'
    BY DEF Shared!IInv, Shared!TypeOK, Shared!Call, Shared!Locked, Shared!Alone, SharedLine, Shared!Returns, Shared!Goes, Shared!Release, Shared!shared,
       Shared!line
  <1>4. Shared!AnswerIsOwn'
    BY ZenonT(30) DEF Shared!IInv, Shared!TypeOK, Shared!Call, Shared!Locked, Shared!NobodyWaitsInVain, Shared!HookIsOwners, Shared!Hooked, Shared!Kinds,
       Shared!Alone, SharedLine, Shared!AnswerIsOwn, Shared!Returns, Shared!Goes, Shared!Release, Shared!shared, Shared!line
  <1> QED BY <1>1, <1>2, <1>3, <1>4 DEF Shared!IInv

\* A call gives up.
LEMMA SharedTimesOutKeeps ==
    ASSUME Shared!IInv, NEW c \in Caller, Shared!TimesOut(c)
    PROVE  Shared!IInv'
  <1> USE SharedConstants
  <1>1. Shared!TypeOK'
    BY ZenonT(30) DEF Shared!IInv, Shared!TypeOK, Shared!Call, Shared!TimesOut, Shared!Release, Shared!shared, Shared!line
  <1>2. Shared!Locked' /\ Shared!NobodyWaitsInVain' /\ Shared!HookIsOwners'
    BY DEF Shared!IInv, Shared!TypeOK, Shared!Call, Shared!Locked, Shared!NobodyWaitsInVain, Shared!HookIsOwners, Shared!Hooked,
       Shared!TimesOut, Shared!Release, Shared!shared, Shared!line
  <1>3. Shared!Alone'
    BY DEF Shared!IInv, Shared!TypeOK, Shared!Call, Shared!Locked, Shared!Alone, SharedLine, Shared!TimesOut, Shared!Release, Shared!shared, Shared!line
  <1>4. Shared!AnswerIsOwn'
    BY DEF Shared!IInv, Shared!TypeOK, Shared!Call, Shared!Locked, Shared!NobodyWaitsInVain, Shared!HookIsOwners, Shared!Hooked, Shared!Kinds,
       Shared!Alone, SharedLine, Shared!AnswerIsOwn, Shared!TimesOut, Shared!Release, Shared!shared, Shared!line
  <1> QED BY <1>1, <1>2, <1>3, <1>4 DEF Shared!IInv

\* An answer stays on the line.
LEMMA SharedIbkrAnswersKeeps ==
    ASSUME Shared!IInv, Shared!IbkrAnswers
    PROVE  Shared!IInv'
  <1> USE SharedConstants
  <1>1. Shared!TypeOK'
    BY RangeOfAppend, RangeOfTail DEF Shared!IInv, Shared!TypeOK, Shared!Call, Shared!IbkrAnswers, Shared!shared, Shared!line
  <1>2. Shared!Locked' /\ Shared!NobodyWaitsInVain' /\ Shared!HookIsOwners'
    BY DEF Shared!IInv, Shared!TypeOK, Shared!Call, Shared!Locked, Shared!NobodyWaitsInVain, Shared!HookIsOwners, Shared!Hooked,
       Shared!IbkrAnswers, Shared!shared, Shared!line
  <1>3. Shared!Alone'
    BY RangeOfAppend, RangeOfTail DEF Shared!IInv, Shared!TypeOK, Shared!Call, Shared!Locked, Shared!Alone, SharedLine,
       Shared!IbkrAnswers, Shared!shared, Shared!line
  <1>4. Shared!AnswerIsOwn'
    BY RangeOfAppend, RangeOfTail DEF Shared!IInv, Shared!TypeOK, Shared!Call, Shared!Locked, Shared!NobodyWaitsInVain,
       Shared!HookIsOwners, Shared!Hooked, Shared!Kinds, Shared!Alone, SharedLine, Shared!AnswerIsOwn, Shared!IbkrAnswers, Shared!shared, Shared!line
  <1> QED BY <1>1, <1>2, <1>3, <1>4 DEF Shared!IInv

\* An answer ends the request of who holds the lock, and is its own unless that call sent
\* behind one that gave up.
LEMMA SharedDeliverKeeps ==
    ASSUME Shared!IInv, Shared!Deliver
    PROVE  Shared!IInv'
  <1> USE SharedConstants
  <1> DEFINE n == Head(answered)
  <1>1. /\ n \in 1..MaxSends /\ n \in Shared!Range(answered)
        /\ Tail(answered) \in Seq(1..MaxSends) /\ Shared!Range(Tail(answered)) \subseteq Shared!Range(answered)
    BY RangeOfTail DEF Shared!IInv, Shared!TypeOK, Shared!Deliver
  <1>2. /\ answered' = Tail(answered)
        /\ UNCHANGED <<kind, keyLock, hook, asked, sends, online, abandoned>>
    BY DEF Shared!Deliver
  <1>3. SharedLine' \subseteq SharedLine
    BY <1>1, <1>2 DEF SharedLine
  <1>4. CASE Shared!Ends(n) /\ future # None /\ calls[future].at = "asking"
    <2>1. /\ future \in Caller /\ future' = None
          /\ calls' = [calls EXCEPT ![future].at = "answered", ![future].got = n]
      BY <1>4 DEF Shared!Deliver, Shared!IInv, Shared!TypeOK
    <2>2. /\ calls' \in [Caller -> Shared!Call]
          /\ calls'[future].at = "answered" /\ calls'[future].got = n
          /\ calls'[future].request = calls[future].request
          /\ \A d \in Caller \ {future} : calls'[d] = calls[d]
      BY <2>1, <1>1 DEF Shared!IInv, Shared!TypeOK, Shared!Call
    <2>3. keyLock = future
      BY <1>4, <2>1 DEF Shared!IInv, Shared!Locked
    <2>4. Shared!TypeOK'
      BY <1>1, <1>2, <2>1, <2>2 DEF Shared!IInv, Shared!TypeOK
    <2>5. Shared!Locked'
      BY <1>2, <1>4, <2>2 DEF Shared!IInv, Shared!Locked
    <2>6. Shared!NobodyWaitsInVain'
      BY <2>2 DEF Shared!IInv, Shared!NobodyWaitsInVain
    <2>7. Shared!HookIsOwners'
      BY <1>2 DEF Shared!IInv, Shared!HookIsOwners, Shared!Hooked
    <2>8. Shared!Alone'
      BY <1>2, <1>3, <2>2 DEF Shared!IInv, Shared!Alone, SharedLine
    <2>9. n = calls[future].request \/ (future \in abandoned /\ kind # "hooked id")
      <3>1. CASE kind = "hooked id"
        <4>1. hook = future
          BY <3>1, <2>3 DEF Shared!IInv, Shared!HookIsOwners, Shared!Hooked
        <4> QED BY <4>1, <3>1, <1>4 DEF Shared!Ends
      <3>2. CASE kind # "hooked id" /\ future \notin abandoned
        BY <3>2, <1>1, <1>4, <2>1 DEF Shared!IInv, Shared!Alone, SharedLine
      <3> QED BY <3>1, <3>2
    <2>10. Shared!AnswerIsOwn'
      BY <1>2, <2>2, <2>9 DEF Shared!IInv, Shared!AnswerIsOwn
    <2> QED BY <2>4, <2>5, <2>6, <2>7, <2>8, <2>10 DEF Shared!IInv
  <1>5. CASE ~(Shared!Ends(n) /\ future # None /\ calls[future].at = "asking")
    <2>1. calls' = calls /\ future' \in {future, None}
      BY <1>5 DEF Shared!Deliver
    <2>2. \A d \in Caller : calls[d].at = "asking" => future' = d
      BY <1>5, <2>1 DEF Shared!Deliver, Shared!IInv, Shared!TypeOK, Shared!NobodyWaitsInVain
    <2>3. Shared!TypeOK'
      BY <1>1, <1>2, <2>1 DEF Shared!IInv, Shared!TypeOK
    <2>4. Shared!Locked' /\ Shared!NobodyWaitsInVain' /\ Shared!HookIsOwners' /\ Shared!AnswerIsOwn'
      BY <1>2, <2>1, <2>2 DEF Shared!IInv, Shared!Locked, Shared!NobodyWaitsInVain, Shared!HookIsOwners, Shared!Hooked, Shared!AnswerIsOwn
    <2>5. Shared!Alone'
      BY <1>2, <1>3, <2>1 DEF Shared!IInv, Shared!Alone, SharedLine
    <2> QED BY <2>3, <2>4, <2>5 DEF Shared!IInv
  <1> QED BY <1>4, <1>5

\* The line is cut, and whoever waited is answered with nothing.
LEMMA SharedDropKeeps ==
    ASSUME Shared!IInv, Shared!Drop
    PROVE  Shared!IInv'
  <1> USE SharedConstants
  <1>1. online' \in BOOLEAN
    BY Zenon DEF Shared!Drop
  <1>2. \A c \in Caller :
           IF calls[c].at = "asking"
           THEN calls'[c] = [calls[c] EXCEPT !.at = "answered"] ELSE calls'[c] = calls[c]
    BY DEF Shared!Drop, Shared!IInv, Shared!NobodyWaitsInVain
  <1>3. calls' \in [Caller -> Shared!Call]
    <2>1. \A c \in Caller : calls'[c] \in Shared!Call
      BY <1>2 DEF Shared!IInv, Shared!TypeOK, Shared!Call
    <2> QED BY <2>1 DEF Shared!Drop
  <1>4. Shared!TypeOK'
    BY <1>1, <1>3 DEF Shared!IInv, Shared!TypeOK, Shared!Drop
  <1>5. \A c \in Caller : /\ calls'[c].at = (IF calls[c].at = "asking" THEN "answered" ELSE calls[c].at)
                          /\ calls'[c].got = calls[c].got /\ calls'[c].request = calls[c].request
    BY <1>2 DEF Shared!IInv, Shared!TypeOK, Shared!Call
  <1>6. Shared!Locked' /\ Shared!NobodyWaitsInVain'
    BY <1>5 DEF Shared!IInv, Shared!Drop, Shared!Locked, Shared!NobodyWaitsInVain
  <1>8. Shared!Alone'
    BY <1>5 DEF Shared!Alone
  <1>9. Shared!AnswerIsOwn'
    <2>1. UNCHANGED <<kind, abandoned>>
      BY DEF Shared!Drop
    <2> QED BY <1>5, <2>1 DEF Shared!IInv, Shared!AnswerIsOwn
  <1>7. Shared!HookIsOwners'
    BY DEF Shared!IInv, Shared!Drop, Shared!HookIsOwners, Shared!Hooked
  <1> QED BY <1>4, <1>6, <1>7, <1>8, <1>9 DEF Shared!IInv

\* A new line is empty.
LEMMA SharedReconnectKeeps ==
    ASSUME Shared!IInv, Shared!Reconnect
    PROVE  Shared!IInv'
  <1> USE SharedConstants
  <1>1. Shared!TypeOK'
    BY DEF Shared!IInv, Shared!TypeOK, Shared!Call, Shared!Reconnect, Shared!shared, Shared!line
  <1>2. Shared!Locked' /\ Shared!NobodyWaitsInVain' /\ Shared!HookIsOwners'
    BY DEF Shared!IInv, Shared!TypeOK, Shared!Call, Shared!Locked, Shared!NobodyWaitsInVain, Shared!HookIsOwners, Shared!Hooked,
       Shared!Reconnect, Shared!shared, Shared!line
  <1>3. Shared!Alone'
    BY DEF Shared!IInv, Shared!TypeOK, Shared!Call, Shared!Locked, Shared!Alone, SharedLine, Shared!Reconnect, Shared!shared, Shared!line
  <1>4. Shared!AnswerIsOwn'
    BY DEF Shared!IInv, Shared!TypeOK, Shared!Call, Shared!Locked, Shared!NobodyWaitsInVain, Shared!HookIsOwners, Shared!Hooked, Shared!Kinds,
       Shared!Alone, SharedLine, Shared!AnswerIsOwn, Shared!Reconnect, Shared!shared, Shared!line
  <1> QED BY <1>1, <1>2, <1>3, <1>4 DEF Shared!IInv

\* Nothing is asked yet.
LEMMA SharedStarts == ASSUME Shared!Init PROVE Shared!IInv
  <1> USE SharedConstants
  <1>1. Shared!TypeOK
    <2>1. online \in BOOLEAN
      BY Zenon DEF Shared!Init
    <2>2. Shared!Call0 \in Shared!Call
      BY DEF Shared!Call0, Shared!Call
    <2> QED BY <2>1, <2>2 DEF Shared!Init, Shared!TypeOK
  <1>2. Shared!Locked /\ Shared!NobodyWaitsInVain /\ Shared!HookIsOwners /\ Shared!Alone /\ Shared!AnswerIsOwn
    BY DEF Shared!Init, Shared!Locked, Shared!NobodyWaitsInVain, Shared!HookIsOwners, Shared!Alone, Shared!AnswerIsOwn, Shared!Call0
  <1> QED BY <1>1, <1>2 DEF Shared!IInv

\* Every step keeps what the argument needs.
LEMMA SharedKeeps == ASSUME Shared!IInv, [Shared!Next]_(Shared!svars) PROVE Shared!IInv'
  <1>1. CASE \E c \in Caller : Shared!Calls(c) \/ Shared!Send(c) \/ Shared!Returns(c) \/ Shared!TimesOut(c)
    BY <1>1, SharedCallsKeeps, SharedSendKeeps, SharedReturnsKeeps, SharedTimesOutKeeps
  <1>2. CASE Shared!IbkrAnswers \/ Shared!Deliver \/ Shared!Drop \/ Shared!Reconnect
    BY <1>2, SharedIbkrAnswersKeeps, SharedDeliverKeeps, SharedDropKeeps, SharedReconnectKeeps
  <1>3. CASE UNCHANGED Shared!svars
    BY <1>3 DEF Shared!svars, Shared!shared, Shared!line, Shared!IInv, Shared!TypeOK, Shared!Locked, Shared!NobodyWaitsInVain, Shared!HookIsOwners,
       Shared!Hooked, Shared!Alone, SharedLine, Shared!AnswerIsOwn
  <1> QED BY <1>1, <1>2, <1>3 DEF Shared!Next

\* However many calls ask for what IBKR's answers do not tell apart, each gets the answer
\* to its own request, nobody waits for a future that is another's, and the callback is
\* hooked by who holds the lock (_call, _hooked_request); only behind a request that was
\* given up may an answer be taken for the next one's.
THEOREM EachGetsItsAnswer == Shared!Spec => []Shared!IInv
  <1>1. Shared!Init => Shared!IInv
    BY SharedStarts
  <1>2. Shared!IInv /\ [Shared!Next]_(Shared!svars) => Shared!IInv'
    BY SharedKeeps
  <1> QED BY <1>1, <1>2, PTL DEF Shared!Spec

-----------------------------------------------------------------------------
(* The FA groups (FaConfig) *)

\* A name of a call is not None.
LEMMA FaConstants ==
    None \notin Fa!Calls /\ Other \notin Fa!Calls /\ Advisor \cap Reader = {} /\ MaxReads \in Nat
  BY AnswerPartsAssumption DEF Fa!FaAssumption, Fa!Calls

\* What the argument about the FA groups needs.
FaInductive == Fa!IInv /\ Fa!OverwritesWhatWasShown

\* A reader asks.
LEMMA FaReadKeeps ==
    ASSUME FaInductive, NEW c \in Fa!Calls, Fa!Read(c)
    PROVE  FaInductive'
  <1> USE FaConstants
  <1>1. Fa!TypeOK'
    BY DEF FaInductive, Fa!IInv, Fa!TypeOK, Fa!Compared, Fa!OneRequestAwaited, Fa!Read, Fa!Fetch, Fa!Calls,
       Fa!Groups, Fa!fetching, Fa!server
  <1>3. Fa!OneRequestAwaited'
    BY DEF FaInductive, Fa!IInv, Fa!TypeOK, Fa!OneRequestAwaited, Fa!Read, Fa!Fetch, Fa!Calls, Fa!fetching, Fa!server
  <1>4. Fa!Compared' /\ Fa!OverwritesWhatWasShown'
    BY DEF FaInductive, Fa!IInv, Fa!TypeOK, Fa!OneRequestAwaited, Fa!Compared, Fa!OverwritesWhatWasShown, Fa!Read,
       Fa!Fetch, Fa!Calls, Fa!Groups, Fa!fetching, Fa!server
  <1> QED BY <1>1, <1>3, <1>4 DEF FaInductive, Fa!IInv

\* An advisor previews.
LEMMA FaPreviewKeeps ==
    ASSUME FaInductive, NEW c \in Fa!Calls, Fa!Preview(c)
    PROVE  FaInductive'
  <1> USE FaConstants
  <1>1. Fa!TypeOK'
    BY DEF FaInductive, Fa!IInv, Fa!TypeOK, Fa!Compared, Fa!OneRequestAwaited, Fa!Preview, Fa!Fetch, Fa!Calls,
       Fa!Groups, Fa!fetching, Fa!server
  <1>3. Fa!OneRequestAwaited'
    BY DEF FaInductive, Fa!IInv, Fa!TypeOK, Fa!OneRequestAwaited, Fa!Preview, Fa!Fetch, Fa!Calls, Fa!fetching, Fa!server
  <1>4. Fa!Compared' /\ Fa!OverwritesWhatWasShown'
    BY DEF FaInductive, Fa!IInv, Fa!TypeOK, Fa!OneRequestAwaited, Fa!Compared, Fa!OverwritesWhatWasShown, Fa!Preview,
       Fa!Fetch, Fa!Calls, Fa!Groups, Fa!fetching, Fa!server
  <1> QED BY <1>1, <1>3, <1>4 DEF FaInductive, Fa!IInv

\* An apply reads the groups again, and was not overtaken yet.
LEMMA FaApplyKeeps ==
    ASSUME FaInductive, NEW c \in Fa!Calls, Fa!Apply(c)
    PROVE  FaInductive'
  <1> USE FaConstants
  <1>1. Fa!TypeOK'
    BY DEF FaInductive, Fa!IInv, Fa!TypeOK, Fa!Compared, Fa!OneRequestAwaited, Fa!Apply, Fa!Fetch, Fa!Calls,
       Fa!Groups, Fa!fetching, Fa!server
  <1>3. Fa!OneRequestAwaited'
    BY DEF FaInductive, Fa!IInv, Fa!TypeOK, Fa!OneRequestAwaited, Fa!Apply, Fa!Fetch, Fa!Calls, Fa!fetching, Fa!server
  <1>4. Fa!Compared' /\ Fa!OverwritesWhatWasShown'
    BY DEF FaInductive, Fa!IInv, Fa!TypeOK, Fa!OneRequestAwaited, Fa!Compared, Fa!OverwritesWhatWasShown, Fa!Apply,
       Fa!Fetch, Fa!Calls, Fa!Groups, Fa!fetching, Fa!server
  <1> QED BY <1>1, <1>3, <1>4 DEF FaInductive, Fa!IInv

\* _fetch_fa_xml sends under the lock.
LEMMA FaAskKeeps ==
    ASSUME FaInductive, NEW c \in Fa!Calls, Fa!Ask(c)
    PROVE  FaInductive'
  <1> USE FaConstants
  <1>1. Fa!TypeOK'
    BY DEF FaInductive, Fa!IInv, Fa!TypeOK, Fa!Compared, Fa!OneRequestAwaited, Fa!Ask, Fa!Calls, Fa!Groups,
       Fa!fetching, Fa!server
  <1>3. Fa!OneRequestAwaited'
    BY DEF FaInductive, Fa!IInv, Fa!TypeOK, Fa!OneRequestAwaited, Fa!Ask, Fa!Calls, Fa!fetching, Fa!server
  <1>4. Fa!Compared' /\ Fa!OverwritesWhatWasShown'
    BY DEF FaInductive, Fa!IInv, Fa!TypeOK, Fa!OneRequestAwaited, Fa!Compared, Fa!OverwritesWhatWasShown, Fa!Ask,
       Fa!Calls, Fa!Groups, Fa!fetching, Fa!server
  <1> QED BY <1>1, <1>3, <1>4 DEF FaInductive, Fa!IInv

\* The 4 s of a request are over.
LEMMA FaGivesUpKeeps ==
    ASSUME FaInductive, NEW c \in Fa!Calls, Fa!GivesUp(c)
    PROVE  FaInductive'
  <1> USE FaConstants
  <1>1. Fa!TypeOK'
    BY DEF FaInductive, Fa!IInv, Fa!TypeOK, Fa!Compared, Fa!OneRequestAwaited, Fa!GivesUp, Fa!Fails, Fa!Calls,
       Fa!Groups, Fa!fetching, Fa!server
  <1>3. Fa!OneRequestAwaited'
    BY DEF FaInductive, Fa!IInv, Fa!TypeOK, Fa!OneRequestAwaited, Fa!GivesUp, Fa!Fails, Fa!Calls, Fa!fetching, Fa!server
  <1>4. Fa!Compared' /\ Fa!OverwritesWhatWasShown'
    BY DEF FaInductive, Fa!IInv, Fa!TypeOK, Fa!OneRequestAwaited, Fa!Compared, Fa!OverwritesWhatWasShown, Fa!GivesUp,
       Fa!Fails, Fa!Calls, Fa!Groups, Fa!fetching, Fa!server
  <1> QED BY <1>1, <1>3, <1>4 DEF FaInductive, Fa!IInv

\* The time of a call is over.
LEMMA FaTimesOutKeeps ==
    ASSUME FaInductive, NEW c \in Fa!Calls, Fa!TimesOut(c)
    PROVE  FaInductive'
  <1> USE FaConstants
  <1>1. Fa!TypeOK'
    BY DEF FaInductive, Fa!IInv, Fa!TypeOK, Fa!Compared, Fa!OneRequestAwaited, Fa!TimesOut, Fa!Fails, Fa!Calls,
       Fa!Groups, Fa!fetching, Fa!server
  <1>3. Fa!OneRequestAwaited'
    BY DEF FaInductive, Fa!IInv, Fa!TypeOK, Fa!OneRequestAwaited, Fa!TimesOut, Fa!Fails, Fa!Calls, Fa!fetching, Fa!server
  <1>4. Fa!Compared' /\ Fa!OverwritesWhatWasShown'
    BY DEF FaInductive, Fa!IInv, Fa!TypeOK, Fa!OneRequestAwaited, Fa!Compared, Fa!OverwritesWhatWasShown,
       Fa!TimesOut, Fa!Fails, Fa!Calls, Fa!Groups, Fa!fetching, Fa!server
  <1> QED BY <1>1, <1>3, <1>4 DEF FaInductive, Fa!IInv

\* A late answer of the other kind is dropped.
LEMMA FaDropLateKeeps ==
    ASSUME FaInductive, NEW c \in Fa!Calls, Fa!DropLate(c)
    PROVE  FaInductive'
  <1> USE FaConstants
  <1>1. Fa!TypeOK'
    <2>1. pendingAnswer' \in BOOLEAN
      BY Zenon DEF Fa!DropLate
    <2>2. doing' \in [Fa!Calls -> {"idle", "queued", "asking", "answered", "previewed", "locking",
                           "replacing", "done", "refused"}]
      BY DEF FaInductive, Fa!IInv, Fa!TypeOK, Fa!DropLate, Fa!Drops,
         Fa!Calls, Fa!Groups, Fa!fetching, Fa!server
    <2>3. got[c] \in Fa!Groups \cup {None}
      BY DEF FaInductive, Fa!IInv, Fa!TypeOK, Fa!Calls
    <2> QED
      BY <2>1, <2>2, <2>3 DEF FaInductive, Fa!IInv, Fa!TypeOK, Fa!Compared, Fa!OneRequestAwaited, Fa!DropLate, Fa!Drops,
         Fa!Calls, Fa!Groups, Fa!fetching, Fa!server
  <1>3. Fa!OneRequestAwaited'
    BY DEF FaInductive, Fa!IInv, Fa!TypeOK, Fa!OneRequestAwaited, Fa!DropLate, Fa!Drops, Fa!Calls, Fa!fetching, Fa!server
  <1>4. Fa!Compared' /\ Fa!OverwritesWhatWasShown'
    BY DEF FaInductive, Fa!IInv, Fa!TypeOK, Fa!OneRequestAwaited, Fa!Compared, Fa!OverwritesWhatWasShown,
       Fa!DropLate, Fa!Drops, Fa!Calls, Fa!Groups, Fa!fetching, Fa!server
  <1> QED BY <1>1, <1>3, <1>4 DEF FaInductive, Fa!IInv

\* An answer is taken: what is replaced is what was compared.
LEMMA FaTakeKeeps ==
    ASSUME FaInductive, NEW c \in Fa!Calls, Fa!Take(c)
    PROVE  FaInductive'
  <1> USE FaConstants
  <1>1. Fa!TypeOK'
    <2>1. pendingAnswer' \in BOOLEAN
      BY Zenon DEF Fa!Take
    <2>2. doing' \in [Fa!Calls -> {"idle", "queued", "asking", "answered", "previewed", "locking",
                           "replacing", "done", "refused"}]
      BY DEF FaInductive, Fa!IInv, Fa!TypeOK, Fa!Take, Fa!Drops,
         Fa!RootFits, Fa!SameGroups, Fa!Fails, Fa!Calls, Fa!Groups, Fa!fetching, Fa!server
    <2>3. got[c] \in Fa!Groups \cup {None}
      BY DEF FaInductive, Fa!IInv, Fa!TypeOK, Fa!Calls
    <2> QED
      BY <2>1, <2>2, <2>3 DEF FaInductive, Fa!IInv, Fa!TypeOK, Fa!Compared, Fa!OneRequestAwaited, Fa!Take, Fa!Drops,
         Fa!RootFits, Fa!SameGroups, Fa!Fails, Fa!Calls, Fa!Groups, Fa!fetching, Fa!server
  <1>3. Fa!OneRequestAwaited'
    BY DEF FaInductive, Fa!IInv, Fa!TypeOK, Fa!OneRequestAwaited, Fa!Take, Fa!Drops, Fa!RootFits, Fa!SameGroups, Fa!Fails,
       Fa!Calls, Fa!fetching, Fa!server
  <1>4. Fa!Compared' /\ Fa!OverwritesWhatWasShown'
    BY DEF FaInductive, Fa!IInv, Fa!TypeOK, Fa!OneRequestAwaited, Fa!Compared, Fa!OverwritesWhatWasShown, Fa!Take,
       Fa!Drops, Fa!RootFits, Fa!SameGroups, Fa!Fails, Fa!Calls, Fa!Groups, Fa!fetching, Fa!server
  <1> QED BY <1>1, <1>3, <1>4 DEF FaInductive, Fa!IInv

\* replaceFA is over for its caller.
LEMMA FaReplacedKeeps ==
    ASSUME FaInductive, NEW c \in Fa!Calls, Fa!Replaced(c)
    PROVE  FaInductive'
  <1> USE FaConstants
  <1>1. Fa!TypeOK'
    BY DEF FaInductive, Fa!IInv, Fa!TypeOK, Fa!Compared, Fa!OneRequestAwaited, Fa!Replaced, Fa!Calls,
       Fa!Groups, Fa!fetching, Fa!server
  <1>3. Fa!OneRequestAwaited'
    BY DEF FaInductive, Fa!IInv, Fa!TypeOK, Fa!OneRequestAwaited, Fa!Replaced, Fa!Calls, Fa!fetching, Fa!server
  <1>4. Fa!Compared' /\ Fa!OverwritesWhatWasShown'
    BY DEF FaInductive, Fa!IInv, Fa!TypeOK, Fa!OneRequestAwaited, Fa!Compared, Fa!OverwritesWhatWasShown,
       Fa!Replaced, Fa!Calls, Fa!Groups, Fa!fetching, Fa!server
  <1> QED BY <1>1, <1>3, <1>4 DEF FaInductive, Fa!IInv

\* IBKR takes a replacement: whoever compared before is overtaken.
LEMMA FaIbkrReplacesKeeps ==
    ASSUME FaInductive, NEW c \in Fa!Calls, Fa!IbkrReplaces(c)
    PROVE  FaInductive'
  <1> USE FaConstants
  <1>1. Fa!TypeOK'
    BY DEF FaInductive, Fa!IInv, Fa!TypeOK, Fa!Compared, Fa!OneRequestAwaited, Fa!IbkrReplaces, Fa!Changes,
       Fa!Calls, Fa!Groups, Fa!fetching, Fa!server
  <1>3. Fa!OneRequestAwaited'
    BY DEF FaInductive, Fa!IInv, Fa!TypeOK, Fa!OneRequestAwaited, Fa!IbkrReplaces, Fa!Changes, Fa!Calls, Fa!fetching,
       Fa!server
  <1>4. Fa!Compared' /\ Fa!OverwritesWhatWasShown'
    BY DEF FaInductive, Fa!IInv, Fa!TypeOK, Fa!OneRequestAwaited, Fa!Compared, Fa!OverwritesWhatWasShown,
       Fa!IbkrReplaces, Fa!Changes, Fa!Calls, Fa!Groups, Fa!fetching, Fa!server
  <1> QED BY <1>1, <1>3, <1>4 DEF FaInductive, Fa!IInv

\* An answer leaves with the groups as they are.
LEMMA FaIbkrAnswersKeeps ==
    ASSUME FaInductive, Fa!IbkrAnswers
    PROVE  FaInductive'
  <1> USE FaConstants
  <1>1. Fa!TypeOK'
    <2>1. /\ Head(asked) \in [by : Fa!Calls, aliases : BOOLEAN]
          /\ Tail(asked) \in Seq([by : Fa!Calls, aliases : BOOLEAN])
      BY HeadTailProperties DEF FaInductive, Fa!IInv, Fa!TypeOK, Fa!IbkrAnswers
    <2>2. [to |-> Head(asked).by, doc |-> IF Head(asked).aliases THEN None ELSE groups]
              \in [to : Fa!Calls, doc : Fa!Groups \cup {None}]
      BY <2>1 DEF FaInductive, Fa!IInv, Fa!TypeOK
    <2>3. asked' \in Seq([by : Fa!Calls, aliases : BOOLEAN])
          /\ answers' \in Seq([to : Fa!Calls, doc : Fa!Groups \cup {None}])
      BY <2>1, <2>2, AppendProperties DEF FaInductive, Fa!IInv, Fa!TypeOK, Fa!IbkrAnswers
    <2> QED BY <2>3 DEF FaInductive, Fa!IInv, Fa!TypeOK, Fa!IbkrAnswers, Fa!fetching
  <1>3. Fa!OneRequestAwaited'
    BY DEF FaInductive, Fa!IInv, Fa!TypeOK, Fa!OneRequestAwaited, Fa!IbkrAnswers, Fa!Calls, Fa!fetching, Fa!server
  <1>4. Fa!Compared' /\ Fa!OverwritesWhatWasShown'
    BY DEF FaInductive, Fa!IInv, Fa!TypeOK, Fa!OneRequestAwaited, Fa!Compared, Fa!OverwritesWhatWasShown,
       Fa!IbkrAnswers, Fa!Calls, Fa!Groups, Fa!fetching, Fa!server
  <1> QED BY <1>1, <1>3, <1>4 DEF FaInductive, Fa!IInv

\* An answer ends the awaited request.
LEMMA FaDeliverKeeps ==
    ASSUME FaInductive, Fa!Deliver
    PROVE  FaInductive'
  <1> USE FaConstants
  <1> DEFINE doc == Head(answers).doc
  <1>1. /\ doc \in Fa!Groups \cup {None}
        /\ Tail(answers) \in Seq([to : Fa!Calls, doc : Fa!Groups \cup {None}])
    <2>1. /\ answers \in Seq([to : Fa!Calls, doc : Fa!Groups \cup {None}])
          /\ answers # <<>>
      BY DEF FaInductive, Fa!IInv, Fa!TypeOK, Fa!Deliver
    <2>2. /\ Head(answers) \in [to : Fa!Calls, doc : Fa!Groups \cup {None}]
          /\ Tail(answers) \in Seq([to : Fa!Calls, doc : Fa!Groups \cup {None}])
      BY <2>1, HeadTailProperties
    <2> QED BY <2>2
  <1>2. /\ answers' = Tail(answers) /\ awaited' = None
        /\ UNCHANGED <<attempt, requestLock, pendingAnswer, basis, replaceLock, asked, groups,
                       replacing, reads, lost>>
    BY DEF Fa!Deliver
  <1>3. CASE awaited = None
    <2>1. UNCHANGED <<doing, got, overtaken>>
      BY <1>3 DEF Fa!Deliver
    <2>2. Fa!TypeOK'
      BY <1>1, <1>2, <2>1 DEF FaInductive, Fa!IInv, Fa!TypeOK
    <2>3. Fa!OneRequestAwaited' /\ Fa!Compared' /\ Fa!OverwritesWhatWasShown'
      BY <1>2, <2>1 DEF FaInductive, Fa!IInv, Fa!OneRequestAwaited, Fa!Compared,
         Fa!OverwritesWhatWasShown
    <2> QED BY <2>2, <2>3 DEF FaInductive, Fa!IInv
  <1>4. CASE awaited # None
    <2>1. /\ got' = [got EXCEPT ![awaited] = doc]
          /\ doing' = [doing EXCEPT ![awaited] = "answered"]
          /\ overtaken' = IF doc \notin {None, groups}
                          THEN overtaken \cup ({awaited} \cap Advisor) ELSE overtaken
      BY <1>4 DEF Fa!Deliver
    <2>2. awaited \in Fa!Calls /\ awaited = requestLock /\ doing[awaited] = "asking"
      BY <1>4 DEF FaInductive, Fa!IInv, Fa!TypeOK, Fa!OneRequestAwaited
    <2>3. Fa!TypeOK'
      BY <1>1, <1>2, <2>1, <2>2 DEF FaInductive, Fa!IInv, Fa!TypeOK
    <2>4. Fa!OneRequestAwaited'
      BY <1>2, <2>1, <2>2 DEF FaInductive, Fa!IInv, Fa!TypeOK, Fa!OneRequestAwaited
    <2>5. Fa!Compared' /\ Fa!OverwritesWhatWasShown'
      BY <1>2, <2>1, <2>2 DEF FaInductive, Fa!IInv, Fa!TypeOK, Fa!Compared,
         Fa!OverwritesWhatWasShown, Fa!Calls
    <2> QED BY <2>3, <2>4, <2>5 DEF FaInductive, Fa!IInv
  <1> QED BY <1>3, <1>4

\* Somebody else changes the groups.
LEMMA FaChangedElsewhereKeeps ==
    ASSUME FaInductive, Fa!ChangedElsewhere
    PROVE  FaInductive'
  <1> USE FaConstants
  <1>1. Fa!TypeOK'
    BY DEF FaInductive, Fa!IInv, Fa!TypeOK, Fa!Compared, Fa!OneRequestAwaited, Fa!ChangedElsewhere,
       Fa!Changes, Fa!Calls, Fa!Groups, Fa!fetching, Fa!server
  <1>3. Fa!OneRequestAwaited'
    BY DEF FaInductive, Fa!IInv, Fa!TypeOK, Fa!OneRequestAwaited, Fa!ChangedElsewhere, Fa!Changes, Fa!Calls,
       Fa!fetching, Fa!server
  <1>4. Fa!Compared' /\ Fa!OverwritesWhatWasShown'
    BY DEF FaInductive, Fa!IInv, Fa!TypeOK, Fa!OneRequestAwaited, Fa!Compared, Fa!OverwritesWhatWasShown,
       Fa!ChangedElsewhere, Fa!Changes, Fa!Calls, Fa!Groups, Fa!fetching, Fa!server
  <1> QED BY <1>1, <1>3, <1>4 DEF FaInductive, Fa!IInv

\* Nothing is asked, compared or replaced yet.
LEMMA FaStarts == ASSUME Fa!Init PROVE FaInductive
  <1> USE FaConstants
  <1>1. Fa!TypeOK
    <2>1. pendingAnswer \in BOOLEAN
      BY Zenon DEF Fa!Init
    <2> QED BY <2>1 DEF Fa!Init, Fa!TypeOK, Fa!Groups, Fa!Calls
  <1>2. Fa!OneRequestAwaited /\ Fa!Compared /\ Fa!OverwritesWhatWasShown
    BY DEF Fa!Init, Fa!OneRequestAwaited, Fa!Compared, Fa!OverwritesWhatWasShown, Fa!Calls
  <1> QED BY <1>1, <1>2 DEF FaInductive, Fa!IInv

\* Every step keeps what the argument needs.
LEMMA FaKeeps == ASSUME FaInductive, [Fa!Next]_(Fa!fvars) PROVE FaInductive'
  <1>1. CASE \E c \in Fa!Calls : Fa!Read(c) \/ Fa!Preview(c) \/ Fa!Apply(c) \/ Fa!Ask(c) \/ Fa!GivesUp(c)
    BY <1>1, FaReadKeeps, FaPreviewKeeps, FaApplyKeeps, FaAskKeeps, FaGivesUpKeeps
  <1>2. CASE \E c \in Fa!Calls : Fa!TimesOut(c) \/ Fa!DropLate(c) \/ Fa!Take(c) \/ Fa!Replaced(c) \/ Fa!IbkrReplaces(c)
    BY <1>2, FaTimesOutKeeps, FaDropLateKeeps, FaTakeKeeps, FaReplacedKeeps, FaIbkrReplacesKeeps
  <1>3. CASE Fa!IbkrAnswers \/ Fa!Deliver \/ Fa!ChangedElsewhere
    BY <1>3, FaIbkrAnswersKeeps, FaDeliverKeeps, FaChangedElsewhereKeeps
  <1>4. CASE UNCHANGED Fa!fvars
    BY <1>4 DEF Fa!fvars, Fa!fetching, Fa!server, FaInductive, Fa!IInv, Fa!TypeOK,
       Fa!OneRequestAwaited, Fa!Compared, Fa!OverwritesWhatWasShown
  <1> QED BY <1>1, <1>2, <1>3, <1>4 DEF Fa!Next

\* One requestFA is awaited at a time, by the call that has its lock (_fetch_fa_xml), and
\* what an apply compares are the groups IBKR has, unless they changed since it answered.
THEOREM OneAwaited == Fa!Spec => []Fa!IInv
  <1>1. Fa!Init => FaInductive
    BY FaStarts
  <1>2. FaInductive /\ [Fa!Next]_(Fa!fvars) => FaInductive'
    BY FaKeeps
  <1>3. FaInductive => Fa!IInv
    BY DEF FaInductive
  <1> QED BY <1>1, <1>2, <1>3, PTL DEF Fa!Spec

\* A replacement overwrites the groups its preview showed, unless they changed after
\* IBKR had sent the answer the apply compared them with (apply_fa_config): however
\* many advisors preview and apply, and whichever answers come late or are taken for
\* another's.
THEOREM NothingUnseenIsLost == Fa!Spec => []Fa!OverwritesWhatWasShown
  <1>1. Fa!Init => FaInductive
    BY FaStarts
  <1>2. FaInductive /\ [Fa!Next]_(Fa!fvars) => FaInductive'
    BY FaKeeps
  <1>3. FaInductive => Fa!OverwritesWhatWasShown
    BY DEF FaInductive
  <1> QED BY <1>1, <1>2, <1>3, PTL DEF Fa!Spec

-----------------------------------------------------------------------------
(* Readings of profit and loss (PnlReadings) *)

\* What the assumption says of numbers and names.
LEMMA PnlConstants == MaxSubscriptions \in Nat \ {0} /\ None \notin Caller
  BY AnswerPartsAssumption DEF Pnl!PnlAssumption

\* No subscription is left behind when the lock is told by the filed one.
LEMMA PnlNoneLeft ==
    ASSUME Pnl!TypeOK, Pnl!Locked, Pnl!FiledOnly, asserted = FALSE
    PROVE  Pnl!NoneLeftOpen
  <1> USE PnlConstants
  <1>1. \A n \in live : n = filed /\ n # 0
    BY DEF Pnl!TypeOK, Pnl!FiledOnly
  <1>2. filed # 0 => keyLock # None /\ keyLock \in Caller
                     /\ calls[keyLock].at = "waiting" /\ calls[keyLock].subscription = filed
    BY DEF Pnl!TypeOK, Pnl!Locked
  <1> QED BY <1>1, <1>2 DEF Pnl!NoneLeftOpen

\* Nothing is read yet.
LEMMA PnlStarts == ASSUME Pnl!Init PROVE Pnl!IInv
  <1> USE PnlConstants
  <1>1. up \in BOOLEAN /\ asserted \in BOOLEAN /\ asserted = FALSE
    BY Zenon DEF Pnl!Init
  <1>2. Pnl!TypeOK
    BY <1>1 DEF Pnl!Init, Pnl!TypeOK, Pnl!Call0, Pnl!Call
  <1>3. Pnl!Locked /\ Pnl!FiledOnly /\ Pnl!ReadingIsOwn
    BY DEF Pnl!Init, Pnl!Locked, Pnl!FiledOnly, Pnl!ReadingIsOwn, Pnl!Call0
  <1> QED BY <1>1, <1>2, <1>3, PnlNoneLeft DEF Pnl!IInv

\* A reading that does not wait changes, and nothing else: one waits for the lock, or the
\* session is gone.
LEMMA PnlOneMoves ==
    ASSUME Pnl!IInv, NEW c \in Caller, calls[c].at # "waiting", NEW call \in Pnl!Call,
           call.at \notin {"waiting", "read"}, calls' = [calls EXCEPT ![c] = call],
           UNCHANGED <<position, up, keyLock, filed, live, sent, subscribed, asserted>>
    PROVE  Pnl!IInv'
  <1> USE PnlConstants
  <1>1. /\ calls' \in [Caller -> Pnl!Call] /\ calls'[c] = call
        /\ \A d \in Caller \ {c} : calls'[d] = calls[d]
    BY DEF Pnl!IInv, Pnl!TypeOK
  <1>2. Pnl!TypeOK'
    BY <1>1 DEF Pnl!IInv, Pnl!TypeOK
  <1>3. Pnl!Locked' /\ Pnl!FiledOnly' /\ Pnl!ReadingIsOwn'
    BY <1>1 DEF Pnl!IInv, Pnl!TypeOK, Pnl!Locked, Pnl!FiledOnly, Pnl!ReadingIsOwn
  <1>4. asserted' = FALSE
    BY Zenon DEF Pnl!IInv, Pnl!TypeOK, Pnl!NoneLeftOpen
  <1>5. Pnl!NoneLeftOpen'
    BY <1>1 DEF Pnl!IInv, Pnl!NoneLeftOpen
  <1> QED BY <1>2, <1>3, <1>5 DEF Pnl!IInv

\* The reading that holds the lock is over, and its subscription is gone.
LEMMA PnlEndKeeps ==
    ASSUME Pnl!IInv, NEW c \in Caller, calls[c].at = "waiting",
           NEW outcome \in {"read", "no_position", "failed"}, NEW from \in 0..MaxSubscriptions,
           outcome = "read" => from = filed,
           Pnl!Ends(c, outcome, from), sent' \subseteq sent,
           UNCHANGED <<position, up, subscribed, asserted>>
    PROVE  Pnl!IInv'
  <1> USE PnlConstants
  <1>1. keyLock = c /\ calls[c].subscription = filed /\ filed \in 0..MaxSubscriptions
    BY DEF Pnl!IInv, Pnl!TypeOK, Pnl!Locked
  <1>2. /\ calls' \in [Caller -> Pnl!Call]
        /\ calls'[c].at = outcome /\ calls'[c].from = from
        /\ calls'[c].subscription = calls[c].subscription
        /\ \A d \in Caller \ {c} : calls'[d] = calls[d]
    BY DEF Pnl!IInv, Pnl!TypeOK, Pnl!Call, Pnl!Ends
  <1>3. keyLock' = None /\ filed' = 0 /\ live' = {}
    BY DEF Pnl!IInv, Pnl!FiledOnly, Pnl!Ends
  <1>7. sent' \subseteq (1..MaxSubscriptions) \X (Pnl!Contents \cup {"error"})
    BY Zenon DEF Pnl!IInv, Pnl!TypeOK
  <1>4. Pnl!TypeOK'
    <2>1. position' \in Pnl!Positions /\ up' \in BOOLEAN /\ asserted' \in BOOLEAN
      BY Zenon DEF Pnl!IInv, Pnl!TypeOK
    <2>2. /\ {filed', subscribed'} \subseteq 0..MaxSubscriptions
          /\ keyLock' \in Caller \cup {None} /\ live' \subseteq 1..MaxSubscriptions
      BY <1>3 DEF Pnl!IInv, Pnl!TypeOK
    <2> QED BY <1>2, <1>7, <2>1, <2>2, Zenon DEF Pnl!TypeOK
  <1>5. Pnl!Locked' /\ Pnl!FiledOnly' /\ Pnl!ReadingIsOwn'
    BY <1>1, <1>2, <1>3 DEF Pnl!IInv, Pnl!Locked, Pnl!FiledOnly, Pnl!ReadingIsOwn
  <1>6. Pnl!NoneLeftOpen'
    BY <1>3 DEF Pnl!IInv, Pnl!NoneLeftOpen
  <1> QED BY <1>4, <1>5, <1>6 DEF Pnl!IInv

\* _first_update: who subscribes finds the key free.
LEMMA PnlSubscribeKeeps ==
    ASSUME Pnl!IInv, NEW c \in Caller, Pnl!Subscribe(c)
    PROVE  Pnl!IInv'
  <1> USE PnlConstants
  <1> DEFINE n == subscribed + 1
  <1>1. /\ keyLock = None /\ filed = 0 /\ live = {} /\ n \in 1..MaxSubscriptions
        /\ ~asserted
    BY DEF Pnl!IInv, Pnl!TypeOK, Pnl!Locked, Pnl!FiledOnly, Pnl!NoneLeftOpen, Pnl!Subscribe, Pnl!May
  <1>2. /\ subscribed' = n /\ keyLock' = c /\ filed' = n /\ live' = {n}
        /\ UNCHANGED <<position, up, sent>>
    BY <1>1 DEF Pnl!Subscribe
  <1>3. asserted' = FALSE /\ asserted' \in BOOLEAN
    <2>1. asserted' = (asserted \/ filed # 0)
      BY Zenon DEF Pnl!Subscribe
    <2> QED BY <1>1, <2>1
  <1>4. /\ calls' \in [Caller -> Pnl!Call]
        /\ calls'[c].at = "waiting" /\ calls'[c].subscription = n
        /\ \A d \in Caller \ {c} : calls'[d] = calls[d]
    <2>1. calls' = [calls EXCEPT ![c].at = "waiting", ![c].subscription = n]
      BY <1>2 DEF Pnl!Subscribe
    <2> HIDE DEF n
    <2>2. n \in 0..MaxSubscriptions
      BY <1>1
    <2> QED BY <2>1, <2>2 DEF Pnl!IInv, Pnl!TypeOK, Pnl!Call
  <1>5. Pnl!TypeOK'
    BY <1>1, <1>2, <1>3, <1>4 DEF Pnl!IInv, Pnl!TypeOK
  <1>6. Pnl!Locked' /\ Pnl!FiledOnly' /\ Pnl!ReadingIsOwn'
    BY <1>1, <1>2, <1>4 DEF Pnl!IInv, Pnl!Locked, Pnl!FiledOnly, Pnl!ReadingIsOwn
  <1>7. Pnl!NoneLeftOpen'
    BY <1>2, <1>3, <1>4 DEF Pnl!NoneLeftOpen
  <1> QED BY <1>5, <1>6, <1>7 DEF Pnl!IInv

\* IBKR and the session: an update leaves, one nobody hears is dropped, the session goes
\* with everything that waits for it, or comes.
LEMMA PnlOutsideKeeps ==
    ASSUME Pnl!IInv,
           \/ Pnl!Drop \/ Pnl!Connect
           \/ \E n \in 1..MaxSubscriptions, content \in Pnl!Contents \cup {"error"} :
                 Pnl!Unheard(n, content) \/ Pnl!Send(n, content)
    PROVE  Pnl!IInv'
  <1> USE PnlConstants
  <1>1. CASE Pnl!Drop
    <2>1. up' \in BOOLEAN
      BY <1>1, Zenon DEF Pnl!Drop
    <2>2. /\ calls' \in [Caller -> Pnl!Call]
          /\ \A d \in Caller : /\ calls'[d].at # "waiting"
                               /\ calls'[d].at = "read" => calls'[d] = calls[d]
      <3>1. \A d \in Caller : calls'[d] = IF calls[d].at = "waiting"
                                          THEN [calls[d] EXCEPT !.at = "failed"] ELSE calls[d]
        BY <1>1 DEF Pnl!Drop
      <3>2. \A d \in Caller : /\ calls'[d] \in Pnl!Call /\ calls'[d].at # "waiting"
                              /\ calls'[d].at = "read" => calls'[d] = calls[d]
        BY <3>1 DEF Pnl!IInv, Pnl!TypeOK, Pnl!Call
      <3> QED BY <1>1, <3>2 DEF Pnl!Drop
    <2>3. Pnl!TypeOK'
      BY <1>1, <2>1, <2>2 DEF Pnl!IInv, Pnl!TypeOK, Pnl!Drop
    <2>4. Pnl!Locked' /\ Pnl!FiledOnly' /\ Pnl!ReadingIsOwn' /\ Pnl!NoneLeftOpen'
      BY <1>1, <2>2 DEF Pnl!IInv, Pnl!Locked, Pnl!FiledOnly, Pnl!ReadingIsOwn, Pnl!NoneLeftOpen,
         Pnl!Drop
    <2> QED BY <2>3, <2>4 DEF Pnl!IInv
  <1>2. CASE ~Pnl!Drop
    <2>1. /\ up' \in BOOLEAN /\ UNCHANGED <<position, calls, keyLock, filed, subscribed, asserted>>
          /\ live' \subseteq live
      BY <1>2, Zenon DEF Pnl!Connect, Pnl!line, Pnl!Unheard, Pnl!Send, Pnl!IInv, Pnl!TypeOK
    <2>2. sent' \subseteq (1..MaxSubscriptions) \X (Pnl!Contents \cup {"error"})
      <3>1. ASSUME NEW n \in 1..MaxSubscriptions, NEW content \in Pnl!Contents \cup {"error"}
            PROVE  <<n, content>> \in (1..MaxSubscriptions) \X (Pnl!Contents \cup {"error"})
        OBVIOUS
      <3>2. sent' \subseteq sent \/ \E n \in 1..MaxSubscriptions, content \in Pnl!Contents \cup {"error"} :
                                      sent' = sent \cup {<<n, content>>}
        BY <1>2, Zenon DEF Pnl!Connect, Pnl!line, Pnl!Unheard, Pnl!Send
      <3> QED BY <3>1, <3>2, ZenonT(30) DEF Pnl!IInv, Pnl!TypeOK
    <2>3. Pnl!TypeOK'
      BY <2>1, <2>2 DEF Pnl!IInv, Pnl!TypeOK
    <2>4. Pnl!Locked' /\ Pnl!FiledOnly' /\ Pnl!ReadingIsOwn' /\ Pnl!NoneLeftOpen'
      BY <2>1 DEF Pnl!IInv, Pnl!Locked, Pnl!FiledOnly, Pnl!ReadingIsOwn, Pnl!NoneLeftOpen
    <2> QED BY <2>3, <2>4 DEF Pnl!IInv
  <1> QED BY <1>1, <1>2

\* Every step keeps what the argument needs.
LEMMA PnlKeeps == ASSUME Pnl!IInv, [Pnl!Next]_(Pnl!pvars) PROVE Pnl!IInv'
  <1> USE PnlConstants
  <1>1. ASSUME NEW c \in Caller, Pnl!Read(c) \/ Pnl!NotConnected(c) PROVE Pnl!IInv'
    <2>1. calls[c] \in Pnl!Call
      BY DEF Pnl!IInv, Pnl!TypeOK
    <2>2. CASE Pnl!Read(c)
      <3> DEFINE call == [at |-> "queued", subscription |-> 0, from |-> 0]
      <3>1. call \in Pnl!Call /\ call.at = "queued"
        BY DEF Pnl!Call
      <3>2. calls' = [calls EXCEPT ![c] = call] /\ calls[c].at # "waiting"
        <4>1. [Pnl!Call0 EXCEPT !.at = "queued"] = call
          BY DEF Pnl!Call0
        <4>2. /\ calls' = [calls EXCEPT ![c] = [Pnl!Call0 EXCEPT !.at = "queued"]]
              /\ calls[c].at # "waiting"
          BY <2>2 DEF Pnl!Read
        <4> QED BY <4>1, <4>2, Zenon
      <3>3. UNCHANGED <<position, up, keyLock, filed, live, sent, subscribed, asserted>>
        BY <2>2 DEF Pnl!Read, Pnl!line
      <3> HIDE DEF call
      <3> QED BY <3>1, <3>2, <3>3, PnlOneMoves
    <2>3. CASE Pnl!NotConnected(c)
      <3> DEFINE call == [calls[c] EXCEPT !.at = "failed"]
      <3>1. call \in Pnl!Call /\ call.at = "failed"
        BY <2>1 DEF Pnl!Call
      <3>2. calls' = [calls EXCEPT ![c] = call] /\ calls[c].at = "queued"
        BY <2>3 DEF Pnl!NotConnected
      <3>3. UNCHANGED <<position, up, keyLock, filed, live, sent, subscribed, asserted>>
        BY <2>3 DEF Pnl!NotConnected, Pnl!line
      <3> HIDE DEF call
      <3> QED BY <3>1, <3>2, <3>3, PnlOneMoves
    <2> QED BY <1>1, <2>2, <2>3
  <1>2. ASSUME NEW c \in Caller, Pnl!TimeOut(c) PROVE Pnl!IInv'
    <2> DEFINE outcome == IF position = "not_held" THEN "no_position" ELSE "failed"
    <2>1. /\ calls[c].at = "waiting" /\ Pnl!Ends(c, outcome, 0)
          /\ UNCHANGED <<position, up, sent, subscribed, asserted>>
      BY <1>2 DEF Pnl!TimeOut
    <2>2. outcome \in {"no_position", "failed"} /\ 0 \in 0..MaxSubscriptions
      OBVIOUS
    <2> HIDE DEF outcome
    <2> QED BY <2>1, <2>2, PnlEndKeeps
  <1>3. ASSUME NEW c \in Caller, NEW n \in 1..MaxSubscriptions,
               NEW content \in Pnl!Contents \cup {"error"}, Pnl!Arrive(c, n, content)
        PROVE Pnl!IInv'
    <2>1. /\ calls[c].at = "waiting" /\ n = filed /\ sent' \subseteq sent
          /\ UNCHANGED <<position, up, subscribed, asserted>>
          /\ IF content = "error" THEN Pnl!Ends(c, "failed", 0)
             ELSE Pnl!Ends(c, Pnl!Outcome(content), n)
      BY <1>3 DEF Pnl!Arrive
    <2>2. CASE content = "error"
      <3>1. 0 \in 0..MaxSubscriptions /\ Pnl!Ends(c, "failed", 0)
        BY <2>1, <2>2
      <3> QED BY <2>1, <3>1, PnlEndKeeps
    <2>3. CASE content # "error"
      <3>1. Pnl!Outcome(content) \in {"no_position", "read"} /\ n \in 0..MaxSubscriptions
        BY DEF Pnl!Outcome
      <3> QED BY <2>1, <2>3, <3>1, PnlEndKeeps
    <2> QED BY <2>2, <2>3
  <1>4. CASE UNCHANGED Pnl!pvars
    BY <1>4 DEF Pnl!pvars, Pnl!line, Pnl!IInv, Pnl!TypeOK, Pnl!Locked, Pnl!FiledOnly,
       Pnl!NoneLeftOpen, Pnl!ReadingIsOwn
  <1>5. CASE Pnl!Next
    BY <1>5, <1>1, <1>2, <1>3, PnlSubscribeKeeps, PnlOutsideKeeps DEF Pnl!Next
  <1> QED BY <1>4, <1>5

\* A reading of profit and loss returns what its own subscription sent, and leaves none
\* behind, at IBKR or in ib_async, where the next reading of the key would run into it
\* (pnl, position_pnl): whatever times out, is refused or is cut off meanwhile.
THEOREM ReadingsAreOwn == Pnl!Spec => []Pnl!IInv
  <1>1. Pnl!Init => Pnl!IInv
    BY PnlStarts
  <1>2. Pnl!IInv /\ [Pnl!Next]_(Pnl!pvars) => Pnl!IInv'
    BY PnlKeeps
  <1> QED BY <1>1, <1>2, PTL DEF Pnl!Spec

-----------------------------------------------------------------------------
(* Open and completed orders (OrderRecords) *)

\* What the assumption says of numbers and names.
LEMMA RecordsConstants ==
    /\ MaxLookups \in Nat \ {0} /\ MaxStrays \in Nat
    /\ None \notin Caller \cup Records!Keys
  BY AnswerPartsAssumption DEF Records!RecordsAssumption, Records!Keys

\* What leaves the front of a sequence, and what stays.
LEMMA InTail ==
    ASSUME NEW S, NEW s \in Seq(S), s # <<>>
    PROVE  /\ Head(s) \in S /\ Tail(s) \in Seq(S)
           /\ 1 \in DOMAIN s /\ Head(s) = s[1]
           /\ \A i \in DOMAIN Tail(s) : i + 1 \in DOMAIN s /\ Tail(s)[i] = s[i + 1]
  BY HeadTailProperties

\* What a sequence holds after something was added at its end.
LEMMA InAppend ==
    ASSUME NEW S, NEW s \in Seq(S), NEW x \in S
    PROVE  /\ Append(s, x) \in Seq(S)
           /\ \A i \in DOMAIN Append(s, x) :
                 (i \in DOMAIN s /\ Append(s, x)[i] = s[i]) \/ Append(s, x)[i] = x
  BY AppendProperties

\* The names differ, and each list has one.
LEMMA RecordsKeys ==
    /\ \A want \in Records!Wanted : Records!Key(want) \in Records!Keys
    /\ \A want \in Records!Wanted :
          Records!Key(want) = "completedOrders" <=> want = "completed"
  BY DEF Records!Wanted, Records!Key, Records!Keys

\* No list is left filed: its lock is held by who waits for it.
LEMMA RecordsNothingSwallowed == Records!TypeOK /\ Records!Locked => Records!NothingSwallowed
  <1> SUFFICES ASSUME Records!TypeOK, Records!Locked, NEW k \in Records!Keys, future[k] # 0
               PROVE  \E c \in Caller : /\ Records!Waiting(c) /\ keyLock[k] = c
                                        /\ calls[c].request = future[k]
    BY DEF Records!NothingSwallowed
  <1>1. keyLock[k] # None /\ keyLock[k] \in Caller
    BY DEF Records!TypeOK, Records!Locked
  <1> QED BY <1>1 DEF Records!Locked

\* A call that nobody made is one.
LEMMA RecordsCall0 == Records!Call0 \in Records!Call
  <1> USE RecordsConstants
  <1>1. Records!Call0.waited = FALSE /\ Records!Call0.spoilt = FALSE
    BY DEF Records!Call0
  <1> QED BY DEF Records!Call0, Records!Call, Records!Wanted

\* Nothing is asked yet.
LEMMA RecordsStarts == ASSUME Records!Init PROVE Records!IInv
  <1> USE RecordsConstants
  <1>1. Records!TypeOK
    <2>1. {readOnly, known, up} \subseteq BOOLEAN
      BY Zenon DEF Records!Init
    <2> QED BY <2>1, RecordsCall0 DEF Records!Init, Records!TypeOK
  <1>2. Records!Locked
    BY DEF Records!Init, Records!Locked, Records!Waiting, Records!Call0
  <1>3. Records!KindFits /\ Records!OnTheLine
    BY DEF Records!Init, Records!KindFits, Records!OnTheLine, Records!Waiting, Records!Call0
  <1>4. Records!RowsAreComplete /\ Records!OpenOrdersHadTheirTime
    BY DEF Records!Init, Records!RowsAreComplete, Records!OpenOrdersHadTheirTime, Records!Call0
  <1> QED BY <1>1, <1>2, <1>3, <1>4, RecordsNothingSwallowed DEF Records!IInv

\* A call that does not wait for IBKR changes, and nothing else.
LEMMA RecordsOneMoves ==
    ASSUME Records!IInv, NEW c \in Caller, ~Records!Waiting(c), NEW call \in Records!Call,
           call.at \in {"queued", "refused", "failed"},
           call.at = "refused" => call.want = "completed",
           call.kind = call.want \/ (call.want = "own" /\ call.kind = "all"),
           calls' = [calls EXCEPT ![c] = call],
           UNCHANGED <<readOnly, known, up, keyLock, future, asked, back, strays, sends>>
    PROVE  Records!IInv'
  <1> USE RecordsConstants
  <1>1. /\ calls' \in [Caller -> Records!Call] /\ calls'[c] = call
        /\ \A d \in Caller \ {c} : calls'[d] = calls[d]
    BY DEF Records!IInv, Records!TypeOK
  <1>2. Records!TypeOK'
    BY <1>1 DEF Records!IInv, Records!TypeOK
  <1>3. \A d \in Caller : Records!Waiting(d)' <=> Records!Waiting(d)
    BY <1>1 DEF Records!Waiting
  <1>4. Records!Locked'
    <2>1. \A d \in Caller : Records!Waiting(d)' => d # c /\ keyLock[Records!Key(calls[d].kind)] = d
      BY <1>3 DEF Records!IInv, Records!Locked
    <2>2. ASSUME NEW k \in Records!Keys, keyLock[k] # None
          PROVE  keyLock[k] \in Caller \ {c}
      BY <2>2 DEF Records!IInv, Records!TypeOK, Records!Locked
    <2> QED BY <1>1, <1>3, <2>1, <2>2 DEF Records!IInv, Records!Locked
  <1>5. Records!KindFits' /\ Records!RowsAreComplete' /\ Records!OpenOrdersHadTheirTime'
    BY <1>1 DEF Records!IInv, Records!KindFits, Records!RowsAreComplete,
       Records!OpenOrdersHadTheirTime
  <1>6. Records!OnTheLine'
    BY <1>1, <1>3 DEF Records!IInv, Records!OnTheLine
  <1>11. (Records!TypeOK /\ Records!Locked => Records!NothingSwallowed)'
    BY RecordsNothingSwallowed, PTL
  <1> QED BY <1>2, <1>4, <1>5, <1>6, <1>11 DEF Records!IInv

\* A request is sent under the lock of its name: what else is on the line under it was
\* given up.
LEMMA RecordsAsksKeeps ==
    ASSUME Records!IInv, NEW c \in Caller, Records!Asks(c)
    PROVE  Records!IInv'
  <1> USE RecordsConstants
  <1> DEFINE k == Records!Key(calls[c].kind)
             n == sends + 1
             spoilt == Records!Orphans(k) # {}
             item == [n |-> n, kind |-> calls[c].kind]
  <1>1. /\ calls[c].at = "queued" /\ keyLock[k] = None /\ n \in 1..MaxLookups /\ sends' = n
        /\ calls' = [calls EXCEPT ![c].at = "asking", ![c].request = n, ![c].spoilt = spoilt]
        /\ asked' = Append(asked, item)
        /\ keyLock' = [keyLock EXCEPT ![k] = c] /\ future' = [future EXCEPT ![k] = n]
        /\ UNCHANGED <<readOnly, known, up, back, strays>>
    BY DEF Records!Asks, Records!IInv, Records!TypeOK
  <1>2. calls[c] \in Records!Call /\ calls[c].kind \in Records!Wanted /\ k \in Records!Keys
    BY RecordsKeys DEF Records!IInv, Records!TypeOK, Records!Call
  <1>3. spoilt \in BOOLEAN
    OBVIOUS
  <1>4. /\ calls' \in [Caller -> Records!Call]
        /\ calls'[c].at = "asking" /\ calls'[c].request = n /\ calls'[c].spoilt = spoilt
        /\ calls'[c].kind = calls[c].kind /\ calls'[c].want = calls[c].want
        /\ \A d \in Caller \ {c} : calls'[d] = calls[d]
    <2> DEFINE call == [calls[c] EXCEPT !.at = "asking", !.request = n, !.spoilt = spoilt]
    <2>1. calls' = [calls EXCEPT ![c] = call]
      BY <1>1 DEF Records!IInv, Records!TypeOK
    <2> HIDE DEF spoilt, n, k
    <2>2. n \in 0..MaxLookups
      BY <1>1
    <2>3. /\ call \in Records!Call /\ call.at = "asking" /\ call.request = n
          /\ call.spoilt = spoilt /\ call.kind = calls[c].kind /\ call.want = calls[c].want
      BY <1>2, <1>3, <2>2 DEF Records!Call
    <2> HIDE DEF call
    <2> QED BY <2>1, <2>3 DEF Records!IInv, Records!TypeOK
  <1>5. /\ asked' \in Seq([n : 1..MaxLookups, kind : Records!Wanted])
        /\ \A i \in DOMAIN asked' : (i \in DOMAIN asked /\ asked'[i] = asked[i]) \/ asked'[i] = item
    <2>1. item \in [n : 1..MaxLookups, kind : Records!Wanted]
      BY <1>1, <1>2
    <2> HIDE DEF item
    <2> QED BY <1>1, <2>1, InAppend DEF Records!IInv, Records!TypeOK
  <1>6. Records!TypeOK'
    BY <1>1, <1>2, <1>4, <1>5 DEF Records!IInv, Records!TypeOK
  <1>7. \A d \in Caller \ {c} : Records!Waiting(d) => Records!Key(calls[d].kind) # k
    BY <1>1 DEF Records!IInv, Records!Locked
  <1>8. Records!Locked'
    <2>1. \A d \in Caller \ {c} : Records!Waiting(d)' <=> Records!Waiting(d)
      BY <1>4 DEF Records!Waiting
    <2>2. Records!Waiting(c)'
      BY <1>4 DEF Records!Waiting
    <2>3. keyLock'[k] = c /\ future'[k] = n
          /\ \A j \in Records!Keys \ {k} : keyLock'[j] = keyLock[j] /\ future'[j] = future[j]
      BY <1>1, <1>2 DEF Records!IInv, Records!TypeOK
    <2>4. ~Records!Waiting(c)
      BY <1>1 DEF Records!Waiting
    <2>5. \A d \in Caller : Records!Waiting(d)' => keyLock'[Records!Key(calls'[d].kind)] = d
      <3> SUFFICES ASSUME NEW d \in Caller, d # c, Records!Waiting(d)'
                   PROVE  keyLock'[Records!Key(calls'[d].kind)] = d
        BY <1>4, <2>3
      <3>1. calls[d].kind \in Records!Wanted /\ calls'[d] = calls[d]
        BY <1>4 DEF Records!IInv, Records!TypeOK, Records!Call
      <3> QED BY <1>7, <2>1, <2>3, <3>1, RecordsKeys DEF Records!IInv, Records!Locked
    <2>6. ASSUME NEW j \in Records!Keys
          PROVE  IF keyLock'[j] = None THEN future'[j] = 0
                 ELSE /\ calls'[keyLock'[j]].at \in {"asking", "grace"}
                      /\ Records!Key(calls'[keyLock'[j]].kind) = j
                      /\ future'[j] = calls'[keyLock'[j]].request
      <3>1. CASE j = k
        BY <3>1, <1>4, <2>3
      <3>2. CASE j # k
        <4>1. keyLock[j] # None => keyLock[j] \in Caller \ {c}
          BY <2>4 DEF Records!IInv, Records!TypeOK, Records!Locked
        <4> QED BY <3>2, <4>1, <1>4, <2>3 DEF Records!IInv, Records!Locked, Records!Waiting
      <3> QED BY <3>1, <3>2
    <2> HIDE DEF k
    <2> QED BY <2>5, <2>6 DEF Records!Locked, Records!Waiting
  <1>9. Records!KindFits' /\ Records!RowsAreComplete' /\ Records!OpenOrdersHadTheirTime'
    BY <1>4 DEF Records!IInv, Records!KindFits, Records!RowsAreComplete,
       Records!OpenOrdersHadTheirTime
  <1>10. Records!OnTheLine'
    <2> SUFFICES ASSUME NEW d \in Caller, Records!Waiting(d)', ~calls'[d].spoilt
                 PROVE  /\ \A i \in DOMAIN asked' :
                              Records!Key(asked'[i].kind) = Records!Key(calls'[d].kind) =>
                                 asked'[i].kind = calls'[d].kind
                        /\ \A i \in DOMAIN back' : back'[i].key = Records!Key(calls'[d].kind) =>
                                 back'[i].kind = calls'[d].kind
      BY DEF Records!OnTheLine
    <2>1. item.kind = calls[c].kind
      OBVIOUS
    <2>2. CASE d = c
      <3>1. Records!Orphans(k) = {}
        BY <1>4, <2>2
      <3>2. /\ \A i \in DOMAIN asked : Records!Key(asked[i].kind) # k
            /\ \A i \in DOMAIN back : back[i].key # k
        BY <3>1 DEF Records!Orphans
      <3> HIDE DEF item
      <3> QED BY <1>1, <1>4, <1>5, <2>1, <2>2, <3>2
    <2>3. CASE d # c
      <3>1. calls'[d] = calls[d] /\ Records!Waiting(d)
        BY <1>4, <2>3 DEF Records!Waiting
      <3>2. Records!Key(calls[d].kind) # k
        BY <1>7, <2>3, <3>1
      <3>3. Records!Key(item.kind) = k
        BY <2>1
      <3> HIDE DEF item, k
      <3>4. \A i \in DOMAIN asked' : Records!Key(asked'[i].kind) = Records!Key(calls'[d].kind) =>
                                       asked'[i].kind = calls'[d].kind
        BY <1>5, <3>1, <3>2, <3>3 DEF Records!IInv, Records!OnTheLine
      <3>5. UNCHANGED back
        BY <1>1
      <3>6. \A i \in DOMAIN back : back[i].key = Records!Key(calls[d].kind) =>
                                      back[i].kind = calls[d].kind
        BY <3>1 DEF Records!IInv, Records!OnTheLine
      <3> QED BY <3>1, <3>4, <3>5, <3>6
    <2> QED BY <2>2, <2>3
  <1>11. (Records!TypeOK /\ Records!Locked => Records!NothingSwallowed)'
    BY RecordsNothingSwallowed, PTL
  <1> QED BY <1>6, <1>8, <1>9, <1>10, <1>11 DEF Records!IInv

\* Those whose request is over give back what they hold, and the others keep it.
LEMMA RecordsReleaseKeeps ==
    ASSUME Records!IInv, NEW over \in SUBSET Caller, Records!Release(over),
           \A c \in over : ~Records!Waiting(c)',
           \A c \in Caller \ over :
              /\ Records!Waiting(c)' <=> Records!Waiting(c)
              /\ calls'[c].kind = calls[c].kind /\ calls'[c].request = calls[c].request
    PROVE  /\ Records!Locked'
           /\ keyLock' \in [Records!Keys -> Caller \cup {None}]
           /\ future' \in [Records!Keys -> 0..MaxLookups]
  <1> USE RecordsConstants
  <1>1. \A k \in Records!Keys :
           IF keyLock[k] \in over THEN keyLock'[k] = None /\ future'[k] = 0
           ELSE keyLock'[k] = keyLock[k] /\ future'[k] = future[k]
    BY DEF Records!Release
  <1>2. /\ keyLock' \in [Records!Keys -> Caller \cup {None}]
        /\ future' \in [Records!Keys -> 0..MaxLookups]
    BY DEF Records!Release, Records!IInv, Records!TypeOK
  <1>3. ASSUME NEW c \in Caller, Records!Waiting(c)'
        PROVE  keyLock'[Records!Key(calls'[c].kind)] = c
    <2>1. c \notin over /\ Records!Waiting(c) /\ calls'[c].kind = calls[c].kind
      BY <1>3
    <2>2. keyLock[Records!Key(calls[c].kind)] = c /\ calls[c].kind \in Records!Wanted
      BY <2>1 DEF Records!IInv, Records!TypeOK, Records!Locked, Records!Call
    <2> QED BY <1>1, <2>1, <2>2, RecordsKeys
  <1>4. ASSUME NEW k \in Records!Keys
        PROVE  IF keyLock'[k] = None THEN future'[k] = 0
               ELSE /\ calls'[keyLock'[k]].at \in {"asking", "grace"}
                    /\ Records!Key(calls'[keyLock'[k]].kind) = k
                    /\ future'[k] = calls'[keyLock'[k]].request
    <2>1. keyLock[k] \in Caller \cup {None}
      BY DEF Records!IInv, Records!TypeOK
    <2> QED BY <1>1, <2>1 DEF Records!IInv, Records!Locked, Records!Waiting
  <1> QED BY <1>2, <1>3, <1>4 DEF Records!Locked, Records!Waiting

\* Only where nothing came in front of what a call waits for is its line as it was.
LEMMA RecordsLineShrinks ==
    ASSUME Records!IInv,
           \A c \in Caller : /\ Records!Waiting(c)' => Records!Waiting(c)
                             /\ calls'[c].kind = calls[c].kind /\ calls'[c].spoilt = calls[c].spoilt
                             \/ ~Records!Waiting(c)',
           asked' = asked,
           (back # <<>> /\ back' = Tail(back)) \/ back' = back
    PROVE  Records!OnTheLine' /\ back' \in Seq([key : Records!Keys \cup {None},
                                                kind : Records!Wanted \cup {None}])
  <1>1. /\ back' \in Seq([key : Records!Keys \cup {None}, kind : Records!Wanted \cup {None}])
        /\ \A i \in DOMAIN back' : \E j \in DOMAIN back : back'[i] = back[j]
    <2>1. back \in Seq([key : Records!Keys \cup {None}, kind : Records!Wanted \cup {None}])
      BY DEF Records!IInv, Records!TypeOK
    <2>2. CASE back' = back
      BY <2>1, <2>2
    <2>3. CASE back # <<>> /\ back' = Tail(back)
      <3>1. /\ Tail(back) \in Seq([key : Records!Keys \cup {None}, kind : Records!Wanted \cup {None}])
            /\ \A i \in DOMAIN Tail(back) : i + 1 \in DOMAIN back /\ Tail(back)[i] = back[i + 1]
        BY <2>1, <2>3, InTail
      <3> QED BY <2>3, <3>1
    <2> QED BY <2>2, <2>3
  <1> SUFFICES ASSUME NEW c \in Caller, Records!Waiting(c)', ~calls'[c].spoilt
               PROVE  /\ \A i \in DOMAIN asked' :
                            Records!Key(asked'[i].kind) = Records!Key(calls'[c].kind) =>
                               asked'[i].kind = calls'[c].kind
                      /\ \A i \in DOMAIN back' : back'[i].key = Records!Key(calls'[c].kind) =>
                               back'[i].kind = calls'[c].kind
    BY <1>1 DEF Records!OnTheLine
  <1>2. /\ Records!Waiting(c) /\ calls'[c].kind = calls[c].kind
        /\ ~calls[c].spoilt
    OBVIOUS
  <1>3. /\ \A i \in DOMAIN asked : Records!Key(asked[i].kind) = Records!Key(calls[c].kind) =>
                                      asked[i].kind = calls[c].kind
        /\ \A i \in DOMAIN back : back[i].key = Records!Key(calls[c].kind) =>
                                      back[i].kind = calls[c].kind
    BY <1>2 DEF Records!IInv, Records!OnTheLine
  <1> QED BY <1>1, <1>2, <1>3

\* A call gives up, or is refused after its grace.
LEMMA RecordsGivesUpKeeps ==
    ASSUME Records!IInv, NEW c \in Caller, Records!TimesOut(c) \/ Records!GraceEnds(c)
    PROVE  Records!IInv'
  <1> USE RecordsConstants
  <1>1. /\ Records!Waiting(c) /\ Records!Release({c})
        /\ UNCHANGED <<readOnly, known, up, asked, back, strays, sends>>
        /\ \/ calls' = [calls EXCEPT ![c].at = "failed"]
           \/ calls' = [calls EXCEPT ![c].at = "refused", ![c].waited = TRUE]
    BY DEF Records!TimesOut, Records!GraceEnds, Records!Waiting, Records!line
  <1>2. /\ calls' \in [Caller -> Records!Call]
        /\ calls'[c].at \in {"failed", "refused"}
        /\ calls'[c].at = "refused" => calls'[c].waited
        /\ \A d \in Caller : /\ calls'[d].kind = calls[d].kind /\ calls'[d].want = calls[d].want
                             /\ calls'[d].request = calls[d].request
                             /\ calls'[d].spoilt = calls[d].spoilt
        /\ \A d \in Caller \ {c} : calls'[d] = calls[d]
    <2>1. CASE calls' = [calls EXCEPT ![c].at = "failed"]
      <3> DEFINE call == [calls[c] EXCEPT !.at = "failed"]
      <3>1. calls' = [calls EXCEPT ![c] = call]
        BY <2>1 DEF Records!IInv, Records!TypeOK
      <3>2. /\ call \in Records!Call /\ call.at = "failed"
            /\ call.kind = calls[c].kind /\ call.want = calls[c].want
            /\ call.request = calls[c].request /\ call.spoilt = calls[c].spoilt
        BY DEF Records!IInv, Records!TypeOK, Records!Call
      <3> HIDE DEF call
      <3> QED BY <3>1, <3>2 DEF Records!IInv, Records!TypeOK
    <2>2. CASE calls' = [calls EXCEPT ![c].at = "refused", ![c].waited = TRUE]
      <3> DEFINE call == [calls[c] EXCEPT !.at = "refused", !.waited = TRUE]
      <3>1. calls' = [calls EXCEPT ![c] = call]
        BY <2>2 DEF Records!IInv, Records!TypeOK
      <3>2. /\ call \in Records!Call /\ call.at = "refused" /\ call.waited
            /\ call.kind = calls[c].kind /\ call.want = calls[c].want
            /\ call.request = calls[c].request /\ call.spoilt = calls[c].spoilt
        BY DEF Records!IInv, Records!TypeOK, Records!Call
      <3> HIDE DEF call
      <3> QED BY <3>1, <3>2 DEF Records!IInv, Records!TypeOK
    <2> QED BY <1>1, <2>1, <2>2
  <1>3. /\ ~Records!Waiting(c)' /\ {c} \in SUBSET Caller
        /\ \A d \in Caller \ {c} : Records!Waiting(d)' <=> Records!Waiting(d)
    BY <1>2 DEF Records!Waiting
  <1>4. /\ Records!Locked'
        /\ keyLock' \in [Records!Keys -> Caller \cup {None}]
        /\ future' \in [Records!Keys -> 0..MaxLookups]
    BY <1>1, <1>2, <1>3, RecordsReleaseKeeps
  <1>5. Records!OnTheLine'
    BY <1>1, <1>2, <1>3, RecordsLineShrinks
  <1>6. Records!TypeOK'
    BY <1>1, <1>2, <1>4 DEF Records!IInv, Records!TypeOK
  <1>7. Records!KindFits' /\ Records!RowsAreComplete' /\ Records!OpenOrdersHadTheirTime'
    BY <1>2 DEF Records!IInv, Records!KindFits, Records!RowsAreComplete,
       Records!OpenOrdersHadTheirTime
  <1>11. (Records!TypeOK /\ Records!Locked => Records!NothingSwallowed)'
    BY RecordsNothingSwallowed, PTL
  <1> QED BY <1>4, <1>5, <1>6, <1>7, <1>11 DEF Records!IInv

\* Everyone who asks takes a refusal for his own: who asks for all orders has his grace,
\* who asked for his own asks for all of them, and the completed orders are refused.
LEMMA RecordsRefusedKeeps ==
    ASSUME Records!IInv, Records!Refused
    PROVE  Records!IInv'
  <1> USE RecordsConstants
  <1> DEFINE over == {c \in Caller : calls[c].at = "asking" /\ calls'[c].at # "grace"}
  <1>1. /\ back # <<>> /\ back' = Tail(back)
        /\ Records!Release(over)
        /\ UNCHANGED <<readOnly, up, asked, strays, sends>>
    BY DEF Records!Refused
  <1>2. known' \in BOOLEAN
    BY Zenon DEF Records!Refused
  <1>3. \A c \in Caller :
           calls'[c] = IF calls[c].at = "asking" THEN Records!AfterRefusal(calls[c]) ELSE calls[c]
    BY DEF Records!Refused
  <1>4. ASSUME NEW call \in Records!Call,
               call.kind = call.want \/ (call.want = "own" /\ call.kind = "all")
        PROVE  /\ Records!AfterRefusal(call) \in Records!Call
               /\ Records!AfterRefusal(call).at \in {"grace", "queued", "refused"}
               /\ Records!AfterRefusal(call).at = "refused" => call.want = "completed"
               /\ Records!AfterRefusal(call).at = "grace" =>
                     Records!AfterRefusal(call).kind = call.kind
               /\ Records!AfterRefusal(call).request = call.request
               /\ Records!AfterRefusal(call).want = call.want
               /\ Records!AfterRefusal(call).spoilt = call.spoilt
               /\ Records!AfterRefusal(call).kind = call.kind
                  \/ (call.want = "own" /\ Records!AfterRefusal(call).kind = "all")
    <2>1. CASE call.kind = "all"
      BY <2>1 DEF Records!AfterRefusal, Records!Grace, Records!Call, Records!Wanted
    <2>2. CASE call.kind = "own"
      BY <1>4, <2>2 DEF Records!AfterRefusal, Records!Grace, Records!Call, Records!Wanted
    <2>3. CASE call.kind = "completed"
      BY <1>4, <2>3 DEF Records!AfterRefusal, Records!Grace, Records!Call, Records!Wanted
    <2> QED BY <2>1, <2>2, <2>3 DEF Records!Call, Records!Wanted
  <1>5. \A c \in Caller :
           /\ calls[c] \in Records!Call
           /\ calls[c].kind = calls[c].want \/ (calls[c].want = "own" /\ calls[c].kind = "all")
    BY DEF Records!IInv, Records!TypeOK, Records!KindFits
  <1>6. calls' \in [Caller -> Records!Call]
    <2>1. \A c \in Caller : calls'[c] \in Records!Call
      BY <1>3, <1>4, <1>5
    <2> QED BY <2>1 DEF Records!Refused
  <1>7. \A c \in Caller :
           /\ c \in over => ~Records!Waiting(c)'
           /\ c \notin over => /\ Records!Waiting(c)' <=> Records!Waiting(c)
                               /\ calls'[c].kind = calls[c].kind
           /\ calls'[c].request = calls[c].request
           /\ calls'[c].spoilt = calls[c].spoilt /\ calls'[c].want = calls[c].want
           /\ calls'[c].at = "refused" /\ calls[c].at # "refused" => calls[c].want = "completed"
    BY <1>3, <1>4, <1>5 DEF Records!Waiting
  <1>8. /\ Records!Locked'
        /\ keyLock' \in [Records!Keys -> Caller \cup {None}]
        /\ future' \in [Records!Keys -> 0..MaxLookups]
    <2>1. over \in SUBSET Caller
      OBVIOUS
    <2> HIDE DEF over
    <2> QED BY <1>1, <1>7, <2>1, RecordsReleaseKeeps
  <1>9. Records!OnTheLine' /\ back' \in Seq([key : Records!Keys \cup {None},
                                             kind : Records!Wanted \cup {None}])
    <2>1. \A c \in Caller : /\ Records!Waiting(c)' => Records!Waiting(c)
                            /\ calls'[c].kind = calls[c].kind /\ calls'[c].spoilt = calls[c].spoilt
                            \/ ~Records!Waiting(c)'
      BY <1>7
    <2> HIDE DEF over
    <2> QED BY <1>1, <2>1, RecordsLineShrinks
  <1>10. Records!TypeOK'
    BY <1>1, <1>2, <1>6, <1>8, <1>9 DEF Records!IInv, Records!TypeOK
  <1>11. (Records!TypeOK /\ Records!Locked => Records!NothingSwallowed)'
    BY RecordsNothingSwallowed, PTL
  <1>12. Records!KindFits' /\ Records!RowsAreComplete' /\ Records!OpenOrdersHadTheirTime'
    <2>1. \A c \in Caller : /\ calls[c].at # "asking" => calls'[c] = calls[c]
                            /\ calls[c].at = "asking" => calls'[c].at # "rows"
      BY <1>3, <1>4, <1>5
    <2>2. Records!KindFits'
      BY <1>3, <1>4, <1>5 DEF Records!KindFits
    <2>3. Records!RowsAreComplete'
      BY <2>1 DEF Records!IInv, Records!RowsAreComplete
    <2>4. Records!OpenOrdersHadTheirTime'
      BY <1>7, <2>1 DEF Records!IInv, Records!OpenOrdersHadTheirTime
    <2> QED BY <2>2, <2>3, <2>4
  <1> QED BY <1>8, <1>9, <1>10, <1>11, <1>12 DEF Records!IInv

\* The end of a list ends the request filed under its name, whose kind it is unless an
\* answer to another was still to come.
LEMMA RecordsAnsweredKeeps ==
    ASSUME Records!IInv, Records!Answered
    PROVE  Records!IInv'
  <1> USE RecordsConstants
  <1> DEFINE item == Head(back)
             holders == {c \in Caller : Records!Waiting(c) /\ keyLock[item.key] = c}
  <1>1. /\ back # <<>> /\ item.key # None /\ back' = Tail(back)
        /\ Records!Release(holders)
        /\ UNCHANGED <<readOnly, known, up, asked, strays, sends>>
    BY DEF Records!Answered
  <1>2. /\ item \in [key : Records!Keys \cup {None}, kind : Records!Wanted \cup {None}]
        /\ 1 \in DOMAIN back /\ item = back[1]
    BY <1>1, InTail DEF Records!IInv, Records!TypeOK
  <1>3. item.key \in Records!Keys /\ item.kind \in Records!Wanted \cup {None}
    BY <1>1, <1>2
  <1>4. \A c \in Caller :
           calls'[c] = IF c \in holders THEN [calls[c] EXCEPT !.at = "rows", !.got = item.kind]
                       ELSE calls[c]
    BY DEF Records!Answered
  <1>5. \A c \in Caller :
           /\ calls'[c] \in Records!Call
           /\ calls'[c].want = calls[c].want /\ calls'[c].kind = calls[c].kind
           /\ calls'[c].spoilt = calls[c].spoilt /\ calls'[c].request = calls[c].request
           /\ c \in holders => calls'[c].at = "rows" /\ calls'[c].got = item.kind
           /\ c \notin holders => calls'[c] = calls[c]
    <2> SUFFICES ASSUME NEW c \in Caller
                 PROVE  /\ calls'[c] \in Records!Call
                        /\ calls'[c].want = calls[c].want /\ calls'[c].kind = calls[c].kind
                        /\ calls'[c].spoilt = calls[c].spoilt
                        /\ calls'[c].request = calls[c].request
                        /\ c \in holders => calls'[c].at = "rows" /\ calls'[c].got = item.kind
                        /\ c \notin holders => calls'[c] = calls[c]
      OBVIOUS
    <2>1. calls[c] \in Records!Call
      BY DEF Records!IInv, Records!TypeOK
    <2> DEFINE call == [calls[c] EXCEPT !.at = "rows", !.got = item.kind]
    <2> HIDE DEF holders, item
    <2>2. /\ call \in Records!Call /\ call.at = "rows" /\ call.got = item.kind
          /\ call.want = calls[c].want /\ call.kind = calls[c].kind
          /\ call.spoilt = calls[c].spoilt /\ call.request = calls[c].request
      BY <1>3, <2>1 DEF Records!Call
    <2>3. calls'[c] = IF c \in holders THEN call ELSE calls[c]
      BY <1>4
    <2> HIDE DEF call
    <2> QED BY <2>1, <2>2, <2>3
  <1>6. calls' \in [Caller -> Records!Call]
    <2> HIDE DEF holders, item
    <2> QED BY <1>5 DEF Records!Answered
  <1>7. /\ \A c \in holders : ~Records!Waiting(c)'
        /\ \A c \in Caller \ holders : Records!Waiting(c)' <=> Records!Waiting(c)
    <2> HIDE DEF holders, item
    <2>1. holders \subseteq Caller
      BY DEF holders
    <2> QED BY <1>5, <2>1 DEF Records!Waiting
  <1>8. /\ Records!Locked'
        /\ keyLock' \in [Records!Keys -> Caller \cup {None}]
        /\ future' \in [Records!Keys -> 0..MaxLookups]
    <2>1. holders \in SUBSET Caller
      OBVIOUS
    <2> HIDE DEF holders, item
    <2> QED BY <1>1, <1>5, <1>7, <2>1, RecordsReleaseKeeps
  <1>9. Records!OnTheLine' /\ back' \in Seq([key : Records!Keys \cup {None},
                                             kind : Records!Wanted \cup {None}])
    <2> HIDE DEF holders, item
    <2> QED BY <1>1, <1>5, <1>7, RecordsLineShrinks
  <1>10. Records!TypeOK'
    BY <1>1, <1>6, <1>8, <1>9 DEF Records!IInv, Records!TypeOK
  <1>11. (Records!TypeOK /\ Records!Locked => Records!NothingSwallowed)'
    BY RecordsNothingSwallowed, PTL
  <1>12. Records!RowsAreComplete'
    <2> SUFFICES ASSUME NEW c \in Caller, calls'[c].at = "rows", ~calls'[c].spoilt
                 PROVE  calls'[c].got \in {calls'[c].kind, calls'[c].want}
      BY DEF Records!RowsAreComplete
    <2>1. CASE c \in holders
      <3>1. Records!Waiting(c) /\ ~calls[c].spoilt /\ keyLock[item.key] = c
        BY <1>5, <2>1
      <3>2. Records!Key(calls[c].kind) = item.key
        BY <1>3, <3>1 DEF Records!IInv, Records!Locked
      <3>3. item.kind = calls[c].kind
        BY <1>2, <3>1, <3>2 DEF Records!IInv, Records!OnTheLine
      <3> QED BY <1>5, <2>1, <3>3
    <2>2. CASE c \notin holders
      BY <1>5, <2>2 DEF Records!IInv, Records!RowsAreComplete
    <2> QED BY <2>1, <2>2
  <1>13. Records!KindFits'
    BY <1>5 DEF Records!IInv, Records!KindFits
  <1>14. Records!OpenOrdersHadTheirTime'
    <2> HIDE DEF holders, item
    <2> QED BY <1>5 DEF Records!IInv, Records!OpenOrdersHadTheirTime
  <1> QED BY <1>8, <1>9, <1>10, <1>11, <1>12, <1>13, <1>14 DEF Records!IInv

\* An answer or a refusal comes behind what is on the line already.
LEMMA RecordsAnswerKeeps ==
    ASSUME Records!IInv, Records!Answer \/ Records!Stray
    PROVE  Records!IInv'
  <1> USE RecordsConstants
  <1> DEFINE Items == [key : Records!Keys \cup {None}, kind : Records!Wanted \cup {None}]
  <1>1. /\ UNCHANGED <<readOnly, known, up, calls, keyLock, future, sends>>
        /\ strays' \in 0..MaxStrays
        /\ \A i \in DOMAIN asked' : \E j \in DOMAIN asked : asked'[i] = asked[j]
        /\ asked' \in Seq([n : 1..MaxLookups, kind : Records!Wanted])
        /\ \E item \in Items :
              /\ back' = Append(back, item)
              /\ \/ item.key = None
                 \/ \E j \in DOMAIN asked : item.key = Records!Key(asked[j].kind)
                                            /\ item.kind = asked[j].kind
    <2>1. Records!Refusal \in Items /\ Records!Refusal.key = None
      BY DEF Records!Refusal
    <2>2. CASE Records!Stray
      BY <2>1, <2>2 DEF Records!Stray, Records!IInv, Records!TypeOK
    <2>3. CASE Records!Answer
      <3>1. /\ Head(asked) \in [n : 1..MaxLookups, kind : Records!Wanted]
            /\ Tail(asked) \in Seq([n : 1..MaxLookups, kind : Records!Wanted])
            /\ 1 \in DOMAIN asked /\ Head(asked) = asked[1]
            /\ \A i \in DOMAIN Tail(asked) : i + 1 \in DOMAIN asked /\ Tail(asked)[i] = asked[i + 1]
        BY <2>3, InTail DEF Records!Answer, Records!IInv, Records!TypeOK
      <3> DEFINE sentBack == [key |-> Records!Key(Head(asked).kind), kind |-> Head(asked).kind]
                 item == IF readOnly /\ Head(asked).kind # "all" THEN Records!Refusal ELSE sentBack
      <3>2. sentBack \in Items /\ sentBack.key = Records!Key(asked[1].kind) /\ sentBack.kind = asked[1].kind
        BY <3>1, RecordsKeys
      <3>3. asked' = Tail(asked) /\ back' = Append(back, item)
            /\ UNCHANGED <<readOnly, known, up, calls, keyLock, future, sends, strays>>
        BY <2>3 DEF Records!Answer
      <3> HIDE DEF sentBack
      <3>4. item \in {Records!Refusal, sentBack}
        OBVIOUS
      <3> HIDE DEF item
      <3>5. item \in Items /\ (item.key = None \/ (item.key = Records!Key(asked[1].kind)
                                                  /\ item.kind = asked[1].kind))
        BY <2>1, <3>2, <3>4
      <3>6. strays' \in 0..MaxStrays
        BY <3>3 DEF Records!IInv, Records!TypeOK
      <3> QED BY <3>1, <3>3, <3>5, <3>6
    <2> QED BY <2>2, <2>3
  <1>2. PICK item \in Items :
              /\ back' = Append(back, item)
              /\ \/ item.key = None
                 \/ \E j \in DOMAIN asked : item.key = Records!Key(asked[j].kind)
                                            /\ item.kind = asked[j].kind
    BY <1>1
  <1>3. /\ back' \in Seq(Items)
        /\ \A i \in DOMAIN back' : (i \in DOMAIN back /\ back'[i] = back[i]) \/ back'[i] = item
    <2>1. back \in Seq(Items)
      BY DEF Records!IInv, Records!TypeOK
    <2> HIDE DEF Items
    <2> QED BY <1>2, <2>1, InAppend
  <1>4. Records!TypeOK'
    BY <1>1, <1>3 DEF Records!IInv, Records!TypeOK
  <1>5. Records!Locked' /\ Records!KindFits' /\ Records!RowsAreComplete'
        /\ Records!OpenOrdersHadTheirTime' /\ Records!NothingSwallowed'
    BY <1>1 DEF Records!IInv, Records!Locked, Records!KindFits, Records!RowsAreComplete,
       Records!OpenOrdersHadTheirTime, Records!NothingSwallowed, Records!Waiting
  <1>6. Records!OnTheLine'
    <2> SUFFICES ASSUME NEW c \in Caller, Records!Waiting(c), ~calls[c].spoilt
                 PROVE  /\ \A i \in DOMAIN asked' :
                              Records!Key(asked'[i].kind) = Records!Key(calls[c].kind) =>
                                 asked'[i].kind = calls[c].kind
                        /\ \A i \in DOMAIN back' : back'[i].key = Records!Key(calls[c].kind) =>
                                 back'[i].kind = calls[c].kind
      BY <1>1 DEF Records!OnTheLine, Records!Waiting
    <2>1. /\ \A i \in DOMAIN asked : Records!Key(asked[i].kind) = Records!Key(calls[c].kind) =>
                                        asked[i].kind = calls[c].kind
          /\ \A i \in DOMAIN back : back[i].key = Records!Key(calls[c].kind) =>
                                        back[i].kind = calls[c].kind
      BY DEF Records!IInv, Records!OnTheLine
    <2>2. Records!Key(calls[c].kind) # None
      BY RecordsKeys DEF Records!IInv, Records!TypeOK, Records!Call
    <2> HIDE DEF Items
    <2>3. \A i \in DOMAIN asked' : Records!Key(asked'[i].kind) = Records!Key(calls[c].kind) =>
                                     asked'[i].kind = calls[c].kind
      BY <1>1, <2>1
    <2>4. item.key = Records!Key(calls[c].kind) => item.kind = calls[c].kind
      BY <1>2, <2>1, <2>2
    <2> QED BY <1>3, <2>1, <2>3, <2>4
  <1> QED BY <1>4, <1>5, <1>6 DEF Records!IInv

\* The session goes, with everything that waits, or comes.
LEMMA RecordsSessionKeeps ==
    ASSUME Records!IInv, Records!Drop \/ Records!Connect
    PROVE  Records!IInv'
  <1> USE RecordsConstants
  <1>1. CASE Records!Connect
    <2>1. {readOnly', known', up'} \subseteq BOOLEAN
      BY <1>1, Zenon DEF Records!Connect, Records!IInv, Records!TypeOK
    <2>2. UNCHANGED <<calls, keyLock, future, asked, back, strays, sends>>
      BY <1>1 DEF Records!Connect, Records!line
    <2>3. Records!TypeOK'
      BY <2>1, <2>2 DEF Records!IInv, Records!TypeOK
    <2> QED BY <2>2, <2>3 DEF Records!IInv, Records!Locked, Records!KindFits, Records!OnTheLine,
           Records!RowsAreComplete, Records!OpenOrdersHadTheirTime, Records!NothingSwallowed,
           Records!Waiting
  <1>2. CASE Records!Drop
    <2> DEFINE over == {c \in Caller : Records!Waiting(c)}
    <2>1. /\ Records!Release(over) /\ asked' = <<>> /\ back' = <<>>
          /\ UNCHANGED <<readOnly, known, sends, strays>>
      BY <1>2 DEF Records!Drop
    <2>2. {readOnly', known', up'} \subseteq BOOLEAN
      BY <1>2, Zenon DEF Records!Drop, Records!IInv, Records!TypeOK
    <2>3. \A c \in Caller : /\ calls[c] \in Records!Call
                            /\ calls'[c] = IF c \in over THEN [calls[c] EXCEPT !.at = "failed"]
                                           ELSE calls[c]
      BY <1>2 DEF Records!Drop, Records!IInv, Records!TypeOK
    <2>4. \A c \in Caller :
             /\ calls'[c] \in Records!Call
             /\ calls'[c].want = calls[c].want /\ calls'[c].kind = calls[c].kind
             /\ calls'[c].spoilt = calls[c].spoilt /\ calls'[c].request = calls[c].request
             /\ c \in over => calls'[c].at = "failed"
             /\ c \notin over => calls'[c] = calls[c]
      <3> SUFFICES ASSUME NEW c \in Caller
                   PROVE  /\ calls'[c] \in Records!Call
                          /\ calls'[c].want = calls[c].want /\ calls'[c].kind = calls[c].kind
                          /\ calls'[c].spoilt = calls[c].spoilt
                          /\ calls'[c].request = calls[c].request
                          /\ c \in over => calls'[c].at = "failed"
                          /\ c \notin over => calls'[c] = calls[c]
        OBVIOUS
      <3> DEFINE call == [calls[c] EXCEPT !.at = "failed"]
      <3> HIDE DEF over
      <3>1. /\ call \in Records!Call /\ call.at = "failed"
            /\ call.want = calls[c].want /\ call.kind = calls[c].kind
            /\ call.spoilt = calls[c].spoilt /\ call.request = calls[c].request
        BY <2>3 DEF Records!Call
      <3> HIDE DEF call
      <3>2. calls[c] \in Records!Call /\ calls'[c] = IF c \in over THEN call ELSE calls[c]
        BY <2>3 DEF call
      <3> QED BY <3>1, <3>2
    <2>5. calls' \in [Caller -> Records!Call]
      <3> HIDE DEF over
      <3> QED BY <1>2, <2>4 DEF Records!Drop
    <2>6. /\ \A c \in over : ~Records!Waiting(c)'
          /\ \A c \in Caller \ over : ~Records!Waiting(c)' /\ ~Records!Waiting(c)
      BY <2>4 DEF Records!Waiting
    <2>7. /\ Records!Locked'
          /\ keyLock' \in [Records!Keys -> Caller \cup {None}]
          /\ future' \in [Records!Keys -> 0..MaxLookups]
      <3>1. over \in SUBSET Caller
        OBVIOUS
      <3> HIDE DEF over
      <3> QED BY <2>1, <2>4, <2>6, <3>1, RecordsReleaseKeeps
    <2>8. Records!TypeOK'
      BY <2>1, <2>2, <2>5, <2>7 DEF Records!IInv, Records!TypeOK
    <2>9. Records!OnTheLine'
      BY <2>6 DEF Records!OnTheLine
    <2>10. Records!KindFits' /\ Records!RowsAreComplete' /\ Records!OpenOrdersHadTheirTime'
      <3> HIDE DEF over
      <3> QED BY <2>4 DEF Records!IInv, Records!KindFits, Records!RowsAreComplete,
             Records!OpenOrdersHadTheirTime
    <2>11. (Records!TypeOK /\ Records!Locked => Records!NothingSwallowed)'
      BY RecordsNothingSwallowed, PTL
    <2> QED BY <2>7, <2>8, <2>9, <2>10, <2>11 DEF Records!IInv
  <1> QED BY <1>1, <1>2

\* Every step keeps what the argument needs.
LEMMA RecordsKeeps == ASSUME Records!IInv, [Records!Next]_(Records!ovars) PROVE Records!IInv'
  <1> USE RecordsConstants
  <1>1. ASSUME NEW c \in Caller, NEW want \in Records!Wanted, Records!Calls(c, want)
        PROVE  Records!IInv'
    <2> DEFINE at == IF want = "completed" /\ known THEN "refused" ELSE "queued"
               kindOf == IF want = "own" /\ known THEN "all" ELSE want
               call == [Records!Call0 EXCEPT !.at = at, !.want = want, !.kind = kindOf]
    <2>1. /\ at \in {"queued", "refused"} /\ (at = "refused" => want = "completed")
          /\ kindOf \in Records!Wanted /\ (kindOf = want \/ (want = "own" /\ kindOf = "all"))
      BY DEF Records!Wanted
    <2>2. /\ calls' = [calls EXCEPT ![c] = call]
          /\ ~Records!Waiting(c)
          /\ UNCHANGED <<readOnly, known, up, keyLock, future, asked, back, strays, sends>>
      BY <1>1 DEF Records!Calls, Records!Waiting, Records!line
    <2> HIDE DEF at, kindOf
    <2>3. call \in Records!Call /\ call.at = at /\ call.want = want /\ call.kind = kindOf
      BY <2>1, RecordsCall0 DEF Records!Call
    <2> HIDE DEF call
    <2> QED BY <2>1, <2>2, <2>3, RecordsOneMoves
  <1>2. ASSUME NEW c \in Caller, Records!NotConnected(c)
        PROVE  Records!IInv'
    <2> DEFINE call == [calls[c] EXCEPT !.at = "failed"]
    <2>1. /\ calls' = [calls EXCEPT ![c] = call] /\ ~Records!Waiting(c)
          /\ UNCHANGED <<readOnly, known, up, keyLock, future, asked, back, strays, sends>>
      BY <1>2 DEF Records!NotConnected, Records!Waiting, Records!line, Records!IInv, Records!TypeOK
    <2>2. /\ call \in Records!Call /\ call.at = "failed"
          /\ call.kind = calls[c].kind /\ call.want = calls[c].want
      BY DEF Records!IInv, Records!TypeOK, Records!Call
    <2>3. calls[c].kind = calls[c].want \/ (calls[c].want = "own" /\ calls[c].kind = "all")
      BY DEF Records!IInv, Records!KindFits
    <2> HIDE DEF call
    <2> QED BY <2>1, <2>2, <2>3, RecordsOneMoves
  <1>3. CASE UNCHANGED Records!ovars
    BY <1>3 DEF Records!ovars, Records!line, Records!IInv, Records!TypeOK, Records!Locked,
       Records!KindFits, Records!OnTheLine, Records!RowsAreComplete, Records!OpenOrdersHadTheirTime,
       Records!NothingSwallowed, Records!Waiting
  <1>4. CASE Records!Next
    BY <1>4, <1>1, <1>2, RecordsAsksKeeps, RecordsGivesUpKeeps, RecordsRefusedKeeps,
       RecordsAnsweredKeeps, RecordsAnswerKeeps, RecordsSessionKeeps DEF Records!Next
  <1> QED BY <1>3, <1>4

\* Of the lists of orders (open_orders, completed_orders): a list of all orders is not
\* this client's alone, although only the lock of its name tells the answers apart; the
\* open orders are refused only after an answer had its time, since the refusal may be
\* another request's; and no list stays filed to swallow the updates that follow.
THEOREM ListsAreComplete == Records!Spec => []Records!IInv
  <1>1. Records!Init => Records!IInv
    BY RecordsStarts
  <1>2. Records!IInv /\ [Records!Next]_(Records!ovars) => Records!IInv'
    BY RecordsKeeps
  <1> QED BY <1>1, <1>2, PTL DEF Records!Spec

-----------------------------------------------------------------------------
(* Historical requests (HistoricalRequests) *)

\* The instance's sizes of sets are the usual ones.
LEMMA HistorySizes ==
    \A S : /\ History!IsFiniteSet(S) = IsFiniteSet(S)
           /\ History!Cardinality(S) = Cardinality(S)
  <1>1. \A S : History!IsFiniteSet(S) = IsFiniteSet(S)
    BY DEF History!IsFiniteSet, IsFiniteSet
  <1>2. \A S : History!Cardinality(S) = Cardinality(S)
    BY DEF History!Cardinality, Cardinality
  <1> QED BY <1>1, <1>2

\* What the assumption says of numbers, names and the callers.
LEMMA HistoryConstants ==
    /\ TTL \in Nat \ {0} /\ Slots \in Nat \ {0} /\ Timeout \in Nat \ {0} /\ MaxTime \in Nat \ {0}
    /\ None \notin Series
    /\ \A S \in SUBSET Caller : IsFiniteSet(S) /\ Cardinality(S) \in Nat
  <1>1. /\ TTL \in Nat \ {0} /\ Slots \in Nat \ {0} /\ Timeout \in Nat \ {0}
        /\ MaxTime \in Nat \ {0} /\ None \notin Series /\ IsFiniteSet(Caller)
    BY AnswerPartsAssumption, HistorySizes DEF History!HistoryAssumption
  <1> QED BY <1>1, FS_Subset, FS_CardinalityType

\* The fields of a call and of a request that was sent.
LEMMA HistoryFields ==
    ASSUME History!TypeOK
    PROVE  /\ now \in Nat
           /\ \A c \in Caller : /\ calls[c] \in History!Call /\ calls[c].began \in Nat
                                /\ calls[c].sentAt \in Nat /\ calls[c].ended \in Nat
           /\ \A i \in DOMAIN sent : sent[i] \in History!Sent /\ sent[i].at \in Nat
           /\ \A r \in Series : cached[r] \in Int
  <1>1. /\ now \in 0..MaxTime /\ cached \in [Series -> Int]
        /\ calls \in [Caller -> History!Call] /\ sent \in Seq(History!Sent)
    BY DEF History!TypeOK
  <1>2. \A call \in History!Call : /\ call.began \in 0..MaxTime
                                   /\ call.sentAt \in 0..MaxTime /\ call.ended \in 0..MaxTime
    BY DEF History!Call
  <1>3. \A s \in History!Sent : s.at \in 0..MaxTime
    BY DEF History!Sent
  <1>4. \A i \in DOMAIN sent : sent[i] \in History!Sent
    BY <1>1
  <1>5. \A t \in 0..MaxTime : t \in Nat
    BY HistoryConstants
  <1> QED BY <1>1, <1>2, <1>3, <1>4, <1>5

\* The call that has not begun.
LEMMA HistoryCall0 ==
    /\ History!Call0 \in History!Call /\ History!Call0.answer = "none"
  BY HistoryConstants DEF History!Call0, History!Call

\* At the start nothing was asked.
LEMMA HistoryStarts == History!Init => History!Spaced
  <1> SUFFICES ASSUME History!Init PROVE History!Spaced
    OBVIOUS
  <1> USE HistoryConstants
  <1>1. History!Call0 \in History!Call
    BY HistoryCall0
  <1>2. \A c \in Caller : calls[c].at = "idle" /\ calls[c].answer = "none"
    BY DEF History!Init, History!Call0
  <1>3. sent = <<>> /\ DOMAIN sent = {}
    BY DEF History!Init
  <1>4. History!TypeOK
    BY <1>1, <1>3 DEF History!Init, History!TypeOK
  <1>5. History!SlotsSuffice
    <2>1. History!Open = {}
      BY <1>2 DEF History!Open
    <2> QED BY <2>1, FS_EmptySet, HistorySizes DEF History!SlotsSuffice
  <1>6. /\ History!CacheHolds /\ History!LookedInVain /\ History!LastIsOpen
        /\ History!Unanswered /\ History!NotIdentical /\ History!KnownWereSent
        /\ History!TimedOutIsTrue
    BY <1>2, <1>3 DEF History!CacheHolds, History!LookedInVain, History!LastIsOpen,
       History!Unanswered, History!NotIdentical, History!KnownWereSent,
       History!TimedOutIsTrue
  <1> QED BY <1>4, <1>5, <1>6 DEF History!Spaced

\* One call moves on, and nothing is sent and nothing comes: what it knew was too old,
\* and a timeout that it answers was one.
LEMMA HistoryCallMoves ==
    ASSUME History!Spaced, NEW c \in Caller, NEW call \in History!Call,
           calls' = [calls EXCEPT ![c] = call], UNCHANGED <<now, cached, sent>>,
           call.at # "open",
           call.at \in {"qualifying", "waiting"} =>
              /\ call.request \in Series /\ call.known \subseteq DOMAIN sent
              /\ call.answer = "none"
              /\ \A i \in call.known : sent[i].request = call.request => now - sent[i].at >= TTL,
           call.answer = "timed_out" => \/ History!LooksTimedOut(call.ended - call.sentAt)
                                        \/ call.ended - call.began > Timeout
    PROVE  History!Spaced'
  <1>1. /\ calls' \in [Caller -> History!Call] /\ calls'[c] = call
        /\ \A d \in Caller \ {c} : calls'[d] = calls[d]
    BY DEF History!Spaced, History!TypeOK
  <1>2. History!TypeOK'
    BY <1>1 DEF History!Spaced, History!TypeOK
  <1>3. History!CacheHolds' /\ History!NotIdentical' /\ History!KnownWereSent'
    BY DEF History!Spaced, History!CacheHolds, History!NotIdentical, History!KnownWereSent
  <1>4. History!LookedInVain'
    BY <1>1 DEF History!Spaced, History!LookedInVain
  <1>5. History!LastIsOpen'
    BY <1>1 DEF History!Spaced, History!LastIsOpen
  <1>6. History!Unanswered' /\ History!TimedOutIsTrue'
    BY <1>1 DEF History!Spaced, History!Unanswered, History!TimedOutIsTrue
  <1>7. History!SlotsSuffice'
    <2>1. History!Open' \subseteq History!Open
      BY <1>1 DEF History!Open
    <2>2. IsFiniteSet(History!Open) /\ Cardinality(History!Open) \in Nat
          /\ Cardinality(History!Open') \in Nat
      BY HistoryConstants DEF History!Open
    <2>3. Cardinality(History!Open') <= Cardinality(History!Open)
      BY <2>1, <2>2, FS_Subset
    <2> QED BY <2>2, <2>3, HistoryConstants, HistorySizes DEF History!Spaced, History!SlotsSuffice
  <1> QED BY <1>2, <1>3, <1>4, <1>5, <1>6, <1>7 DEF History!Spaced

\* A call that looks in the cache in vain was told by it that what it knows is too old.
LEMMA HistoryStartKeeps ==
    ASSUME History!Spaced, NEW c \in Caller, History!Start(c)
    PROVE  History!Spaced'
  <1>1. PICK r \in Series :
          calls' = [calls EXCEPT ![c] =
                      IF History!Cached(r)
                      THEN [History!Call0 EXCEPT !.at = "done", !.request = r, !.answer = "rows"]
                      ELSE [History!Call0 EXCEPT !.at = "qualifying", !.request = r,
                                                 !.known = History!Succeeded]]
    BY DEF History!Start
  <1>2. UNCHANGED <<now, cached, sent>>
    BY DEF History!Start
  <1>3. CASE History!Cached(r)
    <2> DEFINE call == [History!Call0 EXCEPT !.at = "done", !.request = r, !.answer = "rows"]
    <2>1. call \in History!Call /\ call.at = "done" /\ call.answer = "rows"
      BY HistoryCall0 DEF History!Call
    <2>2. calls' = [calls EXCEPT ![c] = call]
      BY <1>1, <1>3
    <2> HIDE DEF call
    <2> QED BY <1>2, <2>1, <2>2, HistoryCallMoves
  <1>4. CASE ~History!Cached(r)
    <2> DEFINE call == [History!Call0 EXCEPT !.at = "qualifying", !.request = r,
                                             !.known = History!Succeeded]
    <2>1. History!Succeeded \in SUBSET Nat /\ History!Succeeded \subseteq DOMAIN sent
      BY DEF History!Succeeded, History!Spaced, History!TypeOK
    <2>2. call \in History!Call /\ call.at = "qualifying" /\ call.answer = "none"
          /\ call.request = r /\ call.known = History!Succeeded
      BY <2>1, HistoryCall0 DEF History!Call
    <2>3. calls' = [calls EXCEPT ![c] = call]
      BY <1>1, <1>4
    <2>4. \A i \in History!Succeeded : sent[i].request = r => now - sent[i].at >= TTL
      <3>1. now - cached[r] >= TTL
        BY <1>4, HistoryFields, HistoryConstants DEF History!Cached, History!Spaced
      <3> SUFFICES ASSUME NEW i \in History!Succeeded, sent[i].request = r
                   PROVE  now - sent[i].at >= TTL
        OBVIOUS
      <3>2. i \in DOMAIN sent /\ cached[r] >= sent[i].at
        BY DEF History!Succeeded, History!Spaced, History!CacheHolds
      <3> QED BY <3>1, <3>2, HistoryFields, HistoryConstants DEF History!Spaced
    <2> HIDE DEF call
    <2> QED BY <1>2, <2>1, <2>2, <2>3, <2>4, HistoryCallMoves
  <1> QED BY <1>3, <1>4

\* Admission says only when its limit begins, and a refusal is an answer.
LEMMA HistoryQualifiedKeeps ==
    ASSUME History!Spaced, NEW c \in Caller, History!Qualified(c)
    PROVE  History!Spaced'
  <1>1. /\ calls[c].at = "qualifying" /\ calls[c] \in History!Call
        /\ calls[c].answer = "none" /\ now \in 0..MaxTime
        /\ calls[c].request \in Series /\ calls[c].known \subseteq DOMAIN sent
        /\ \A i \in calls[c].known :
             sent[i].request = calls[c].request => now - sent[i].at >= TTL
    BY DEF History!Qualified, History!Spaced, History!TypeOK, History!LookedInVain,
       History!Unanswered
  <1>2. /\ UNCHANGED <<now, cached, sent>>
        /\ \/ calls' = [calls EXCEPT ![c].at = "done", ![c].answer = "paced"]
           \/ calls' = [calls EXCEPT ![c].at = "waiting", ![c].began = now, ![c].admitted = now]
    BY DEF History!Qualified
  <1>3. CASE calls' = [calls EXCEPT ![c].at = "done", ![c].answer = "paced"]
    <2> DEFINE call == [calls[c] EXCEPT !.at = "done", !.answer = "paced"]
    <2>1. calls' = [calls EXCEPT ![c] = call]
      BY <1>3 DEF History!Spaced, History!TypeOK
    <2>2. call \in History!Call /\ call.at = "done" /\ call.answer = "paced"
      BY <1>1 DEF History!Call
    <2> HIDE DEF call
    <2> QED BY <1>2, <2>1, <2>2, HistoryCallMoves
  <1>4. CASE calls' = [calls EXCEPT ![c].at = "waiting", ![c].began = now, ![c].admitted = now]
    <2> DEFINE call == [calls[c] EXCEPT !.at = "waiting", !.began = now, !.admitted = now]
    <2>1. calls' = [calls EXCEPT ![c] = call]
      BY <1>4 DEF History!Spaced, History!TypeOK
    <2>2. call \in History!Call /\ call.at = "waiting" /\ call.answer = "none"
          /\ call.request = calls[c].request /\ call.known = calls[c].known
      BY <1>1 DEF History!Call
    <2> HIDE DEF call
    <2> QED BY <1>1, <1>2, <2>1, <2>2, HistoryCallMoves
  <1> QED BY <1>2, <1>3, <1>4

\* No rows came: a timeout is named only after the time of one.
LEMMA HistoryEndKeeps ==
    ASSUME History!Spaced, NEW c \in Caller, History!NoRows(c) \/ History!TimesOut(c)
    PROVE  History!Spaced'
  <1>1. calls[c] \in History!Call /\ now \in 0..MaxTime
    BY DEF History!Spaced, History!TypeOK
  <1>2. UNCHANGED <<now, cached, sent>>
    BY DEF History!NoRows, History!TimesOut
  <1>3. PICK answer \in {"no_data", "timed_out"} :
          /\ calls' = [calls EXCEPT ![c].at = "done", ![c].ended = now, ![c].answer = answer]
          /\ answer = "timed_out" => \/ History!LooksTimedOut(now - calls[c].sentAt)
                                     \/ now - calls[c].began > Timeout
    BY DEF History!NoRows, History!TimesOut, History!TookTooLong
  <1> DEFINE call == [calls[c] EXCEPT !.at = "done", !.ended = now, !.answer = answer]
  <1>4. calls' = [calls EXCEPT ![c] = call]
    BY <1>3 DEF History!Spaced, History!TypeOK
  <1>5. call \in History!Call /\ call.at = "done" /\ call.answer = answer /\ call.ended = now
        /\ call.sentAt = calls[c].sentAt /\ call.began = calls[c].began
    BY <1>1 DEF History!Call
  <1> HIDE DEF call
  <1> QED BY <1>2, <1>3, <1>4, <1>5, HistoryCallMoves

\* A request is sent with what its call knew: none of it is of the same and too young.
LEMMA HistorySendKeeps ==
    ASSUME History!Spaced, NEW c \in Caller, History!Send(c)
    PROVE  History!Spaced'
  <1> DEFINE call == [calls[c] EXCEPT !.at = "open", !.sentAt = now]
             new == [request |-> calls[c].request, at |-> now, by |-> c,
                     admitted |-> calls[c].admitted, known |-> calls[c].known, done |-> FALSE]
             n == Len(sent) + 1
  <1>1. /\ calls[c].at = "waiting" /\ calls[c] \in History!Call /\ calls[c].answer = "none"
        /\ calls[c].request \in Series /\ calls[c].known \subseteq DOMAIN sent
        /\ \A i \in calls[c].known :
             sent[i].request = calls[c].request => now - sent[i].at >= TTL
        /\ now \in 0..MaxTime /\ now' = now /\ cached' = cached
        /\ calls \in [Caller -> History!Call] /\ sent \in Seq(History!Sent)
        /\ sent' = Append(sent, new)
    BY DEF History!Send, History!Spaced, History!TypeOK, History!LookedInVain,
       History!Unanswered
  <1>2. calls' = [calls EXCEPT ![c] = call]
    BY <1>1 DEF History!Send
  <1>3. /\ call \in History!Call /\ call.at = "open" /\ call.answer = "none"
        /\ call.request = calls[c].request
    BY <1>1 DEF History!Call
  <1>4. /\ new \in History!Sent /\ new.request = calls[c].request /\ new.by = c
        /\ new.at = now /\ new.known = calls[c].known /\ new.done = FALSE
    BY <1>1 DEF History!Call, History!Sent
  <1> HIDE DEF call, new
  <1>5. /\ calls' \in [Caller -> History!Call] /\ calls'[c] = call
        /\ \A d \in Caller \ {c} : calls'[d] = calls[d]
    BY <1>1, <1>2, <1>3
  <1>6. /\ sent' \in Seq(History!Sent) /\ n \in Nat
        /\ DOMAIN sent' = DOMAIN sent \cup {n} /\ n \notin DOMAIN sent /\ sent'[n] = new
        /\ \A i \in DOMAIN sent : i < n /\ sent'[i] = sent[i]
    BY <1>1, <1>4, AppendProperties
  <1> HIDE DEF n
  <1>7. History!TypeOK'
    BY <1>1, <1>5, <1>6 DEF History!Spaced, History!TypeOK
  <1>8. History!CacheHolds'
    <2>1. now <= now
      BY HistoryFields DEF History!Spaced
    <2> QED BY <1>1, <1>4, <1>6, <2>1 DEF History!Spaced, History!CacheHolds
  <1>9. History!LookedInVain'
    BY <1>1, <1>3, <1>5, <1>6 DEF History!Spaced, History!LookedInVain
  <1>10. History!LastIsOpen'
    <2> SUFFICES ASSUME NEW d \in Caller, calls'[d].at = "open"
                 PROVE  \E i \in DOMAIN sent' :
                           /\ sent'[i].by = d /\ sent'[i].request = calls'[d].request
                           /\ \A j \in DOMAIN sent' : sent'[j].by = d => j <= i
      BY DEF History!LastIsOpen
    <2>1. CASE d = c
      <3>1. \A j \in DOMAIN sent' : j <= n
        BY <1>6, <1>1
      <3> QED BY <2>1, <3>1, <1>3, <1>4, <1>5, <1>6
    <2>2. CASE d # c
      BY <2>2, <1>4, <1>5, <1>6 DEF History!Spaced, History!LastIsOpen
    <2> QED BY <2>1, <2>2
  <1>11. History!Unanswered' /\ History!TimedOutIsTrue'
    BY <1>1, <1>3, <1>5 DEF History!Spaced, History!Unanswered, History!TimedOutIsTrue
  <1>12. History!NotIdentical'
    <2>1. \A i \in DOMAIN sent : sent[i].known \subseteq DOMAIN sent
      BY DEF History!Spaced, History!KnownWereSent
    <2> SUFFICES ASSUME NEW j \in DOMAIN sent', NEW i \in sent'[j].known,
                        sent'[i].request = sent'[j].request
                 PROVE  sent'[j].at - sent'[i].at >= TTL
      BY DEF History!NotIdentical
    <2>2. CASE j = n
      BY <2>2, <1>1, <1>4, <1>6
    <2>3. CASE j \in DOMAIN sent
      BY <2>1, <2>3, <1>6 DEF History!Spaced, History!NotIdentical
    <2> QED BY <2>2, <2>3, <1>6
  <1>13. History!KnownWereSent'
    BY <1>1, <1>4, <1>6 DEF History!Spaced, History!KnownWereSent
  <1>14. History!SlotsSuffice'
    <2>1. History!Open' = History!Open \cup {c} /\ c \notin History!Open
      BY <1>1, <1>3, <1>5 DEF History!Open
    <2>2. IsFiniteSet(History!Open) /\ Cardinality(History!Open) \in Nat
      BY HistoryConstants DEF History!Open
    <2>3. Cardinality(History!Open') = Cardinality(History!Open) + 1
      BY <2>1, <2>2, FS_AddElement
    <2>4. Cardinality(History!Open) < Slots
      BY HistorySizes DEF History!Send
    <2> QED BY <2>2, <2>3, <2>4, HistoryConstants, HistorySizes DEF History!SlotsSuffice
  <1> QED BY <1>7, <1>8, <1>9, <1>10, <1>11, <1>12, <1>13, <1>14 DEF History!Spaced

\* Rows come for the last request that the call sent, and are cached under its own.
LEMMA HistoryRowsKeeps ==
    ASSUME History!Spaced, NEW c \in Caller, History!Rows(c)
    PROVE  History!Spaced'
  <1> DEFINE call == [calls[c] EXCEPT !.at = "done", !.answer = "rows"]
             n == History!LastOf(c)
             r == calls[c].request
  <1>1. /\ calls[c].at = "open" /\ calls[c] \in History!Call
        /\ now \in 0..MaxTime /\ now' = now
        /\ calls \in [Caller -> History!Call] /\ sent \in Seq(History!Sent)
        /\ cached \in [Series -> Int]
        /\ cached' = [cached EXCEPT ![r] = now]
        /\ sent' = [sent EXCEPT ![n].done = TRUE]
    BY DEF History!Rows, History!Spaced, History!TypeOK
  <1>2. calls' = [calls EXCEPT ![c] = call]
    BY <1>1 DEF History!Rows
  <1>3. call \in History!Call /\ call.at = "done" /\ call.answer = "rows"
    BY <1>1 DEF History!Call
  <1>4. n \in DOMAIN sent /\ sent[n].request = r
    <2>1. PICK i \in DOMAIN sent :
            /\ sent[i].by = c /\ sent[i].request = r
            /\ \A j \in DOMAIN sent : sent[j].by = c => j <= i
      BY <1>1 DEF History!Spaced, History!LastIsOpen
    <2>2. n \in DOMAIN sent /\ sent[n].by = c /\ \A j \in DOMAIN sent : sent[j].by = c => j <= n
      BY <2>1 DEF History!LastOf
    <2>3. i \in Nat /\ n \in Nat
      BY <1>1, <2>2
    <2>4. n = i
      <3>1. i <= n /\ n <= i
        BY <2>1, <2>2
      <3> HIDE DEF n
      <3> QED BY <2>3, <3>1
    <2> QED BY <2>1, <2>2, <2>4
  <1> HIDE DEF call, n
  <1>5. /\ calls' \in [Caller -> History!Call] /\ calls'[c] = call
        /\ \A d \in Caller \ {c} : calls'[d] = calls[d]
    BY <1>1, <1>2, <1>3
  <1>6. /\ DOMAIN sent' = DOMAIN sent /\ sent' \in Seq(History!Sent)
        /\ \A i \in DOMAIN sent :
             /\ sent'[i].request = sent[i].request /\ sent'[i].at = sent[i].at
             /\ sent'[i].by = sent[i].by /\ sent'[i].known = sent[i].known
             /\ i # n => sent'[i].done = sent[i].done
    <2> DEFINE filled == [sent[n] EXCEPT !.done = TRUE]
    <2>1. sent[n] \in History!Sent
      BY <1>1, <1>4
    <2>2. /\ filled \in History!Sent /\ filled.request = sent[n].request
          /\ filled.at = sent[n].at /\ filled.by = sent[n].by
          /\ filled.known = sent[n].known
      BY <2>1 DEF History!Sent
    <2>3. sent' = [sent EXCEPT ![n] = filled]
      BY <1>1, <1>4
    <2> HIDE DEF filled
    <2>4. sent' \in Seq(History!Sent)
      <3>1. n \in 1..Len(sent)
        BY <1>1, <1>4
      <3>2. [sent EXCEPT ![n] = filled] \in Seq(History!Sent)
        BY <1>1, <2>2, <3>1, ExceptSeq
      <3> QED BY <2>3, <3>2
    <2> QED BY <1>1, <1>4, <2>2, <2>3, <2>4
  <1>7. cached' \in [Series -> Int] /\ \A q \in Series : cached'[q] = IF q = r THEN now ELSE cached[q]
    <2>1. now \in Int
      BY HistoryFields DEF History!Spaced
    <2> QED BY <1>1, <2>1
  <1>8. History!TypeOK'
    BY <1>1, <1>5, <1>6, <1>7 DEF History!Spaced, History!TypeOK
  <1>9. History!CacheHolds'
    <2> SUFFICES ASSUME NEW i \in DOMAIN sent
                 PROVE  /\ sent[i].at <= now
                        /\ sent'[i].done => cached'[sent[i].request] >= sent[i].at
      BY <1>1, <1>6 DEF History!CacheHolds
    <2>1. /\ sent[i].at <= now /\ sent[i].at \in Nat /\ now \in Nat
          /\ sent[i].done => cached[sent[i].request] >= sent[i].at
      BY HistoryFields DEF History!Spaced, History!CacheHolds
    <2>2. sent[i].request \in Series
      <3>1. sent[i] \in History!Sent
        BY <1>1
      <3> QED BY <3>1 DEF History!Sent
    <2>3. CASE sent[i].request = r
      BY <2>1, <2>2, <2>3, <1>7
    <2>4. CASE sent[i].request # r
      <3>1. i # n
        BY <2>4, <1>4
      <3> QED BY <2>1, <2>2, <2>4, <3>1, <1>6, <1>7
    <2> QED BY <2>3, <2>4
  <1>10. History!Unanswered' /\ History!TimedOutIsTrue'
    BY <1>3, <1>5 DEF History!Spaced, History!Unanswered, History!TimedOutIsTrue
  <1>11. History!LastIsOpen'
    BY <1>3, <1>5, <1>6 DEF History!Spaced, History!LastIsOpen
  <1>12. History!NotIdentical' /\ History!KnownWereSent'
    BY <1>6 DEF History!Spaced, History!NotIdentical, History!KnownWereSent
  <1>13. History!LookedInVain'
    <2> SUFFICES ASSUME NEW d \in Caller, calls'[d].at \in {"qualifying", "waiting"}
                 PROVE  /\ calls'[d].request \in Series /\ calls'[d].known \subseteq DOMAIN sent'
                        /\ \A i \in calls'[d].known :
                             sent'[i].request = calls'[d].request => now' - sent'[i].at >= TTL
      BY DEF History!LookedInVain
    <2>1. calls'[d] = calls[d]
      BY <1>3, <1>5
    <2>2. /\ calls[d].request \in Series /\ calls[d].known \subseteq DOMAIN sent
          /\ \A i \in calls[d].known :
               sent[i].request = calls[d].request => now - sent[i].at >= TTL
      BY <2>1 DEF History!Spaced, History!LookedInVain
    <2>3. \A i \in calls[d].known : i \in DOMAIN sent
      BY <2>2
    <2> QED BY <1>1, <1>6, <2>1, <2>2, <2>3
  <1>14. History!SlotsSuffice'
    <2>1. History!Open' \subseteq History!Open
      BY <1>3, <1>5 DEF History!Open
    <2>2. IsFiniteSet(History!Open) /\ Cardinality(History!Open) \in Nat
          /\ Cardinality(History!Open') \in Nat
      BY HistoryConstants DEF History!Open
    <2>3. Cardinality(History!Open') <= Cardinality(History!Open)
      BY <2>1, <2>2, FS_Subset
    <2> QED BY <2>2, <2>3, HistoryConstants, HistorySizes DEF History!Spaced, History!SlotsSuffice
  <1> QED BY <1>8, <1>9, <1>10, <1>11, <1>12, <1>13, <1>14 DEF History!Spaced

\* With time a request only gets older.
LEMMA HistoryTickKeeps == ASSUME History!Spaced, History!Tick PROVE History!Spaced'
  <1>1. /\ now \in Nat /\ now' = now + 1 /\ now' \in 0..MaxTime
        /\ UNCHANGED <<cached, calls, sent>>
    BY HistoryConstants DEF History!Tick, History!Spaced, History!TypeOK
  <1>2. /\ \A i \in DOMAIN sent : sent[i].at \in Nat
        /\ TTL \in Nat
    BY HistoryFields, HistoryConstants DEF History!Spaced
  <1>3. History!TypeOK'
    BY <1>1 DEF History!Spaced, History!TypeOK
  <1>4. History!CacheHolds'
    BY <1>1, <1>2 DEF History!Spaced, History!CacheHolds
  <1>5. History!LookedInVain'
    BY <1>1, <1>2 DEF History!Spaced, History!LookedInVain
  <1>6. History!LastIsOpen' /\ History!Unanswered' /\ History!TimedOutIsTrue'
    BY <1>1 DEF History!Spaced, History!LastIsOpen, History!Unanswered, History!TimedOutIsTrue
  <1>7. History!NotIdentical' /\ History!KnownWereSent' /\ History!SlotsSuffice'
    BY <1>1 DEF History!Spaced, History!NotIdentical, History!KnownWereSent,
       History!SlotsSuffice, History!Open
  <1> QED BY <1>3, <1>4, <1>5, <1>6, <1>7 DEF History!Spaced

\* Every step of a call, and the clock's.
LEMMA HistoryKeeps ==
    ASSUME History!Spaced, [History!Next]_(History!hvars)
    PROVE  History!Spaced'
  <1>1. CASE UNCHANGED History!hvars
    <2>1. UNCHANGED <<now, cached, calls, sent>>
      BY <1>1 DEF History!hvars
    <2>2. History!TypeOK' /\ History!SlotsSuffice'
      BY <2>1 DEF History!Spaced, History!TypeOK, History!SlotsSuffice, History!Open
    <2>3. /\ History!CacheHolds' /\ History!LookedInVain' /\ History!LastIsOpen'
          /\ History!Unanswered' /\ History!NotIdentical' /\ History!KnownWereSent'
          /\ History!TimedOutIsTrue'
      BY <2>1 DEF History!Spaced, History!CacheHolds, History!LookedInVain,
         History!LastIsOpen, History!Unanswered, History!NotIdentical,
         History!KnownWereSent, History!TimedOutIsTrue
    <2> QED BY <2>2, <2>3 DEF History!Spaced
  <1>2. CASE History!Next
    BY <1>2, HistoryStartKeeps, HistoryQualifiedKeeps, HistoryEndKeeps, HistorySendKeeps,
       HistoryRowsKeeps, HistoryTickKeeps DEF History!Next
  <1> QED BY <1>1, <1>2

\* Of the requests for historical data (historical_bars, historical_ticks), for any number
\* of calls: one that IBKR filled with rows is not sent again within IDENTICAL_REQUEST_TTL
\* by a call that looked after the answer; no more than MAX_OPEN_REQUESTS are open at
\* once; and a call that says IBKR timed out had its request open that long, or was over
\* its own limit.
THEOREM RequestsAreSpaced == History!Spec => []History!Spaced
  <1>1. History!Init => History!Spaced
    BY HistoryStarts
  <1>2. History!Spaced /\ [History!Next]_(History!hvars) => History!Spaced'
    BY HistoryKeeps
  <1> QED BY <1>1, <1>2, PTL DEF History!Spec

\* What the assumption says of the windows and the limits.
LEMMA HistoryLimits ==
    /\ PacingWindow \in Nat \ {0} /\ Burst \in Nat \ {0}
    /\ MaxPaced \in Nat /\ MaxPaced >= 2 /\ MaxBurst \in Nat /\ MaxBurst >= 2
    /\ MaxTime \in Nat /\ BidAsk \subseteq Series /\ None \notin Series
  <1>1. /\ PacingWindow \in Nat \ {0} /\ Burst \in Nat \ {0} /\ MaxTime \in Nat \ {0}
        /\ MaxPaced \in Nat \ {0, 1} /\ MaxBurst \in Nat \ {0, 1}
        /\ BidAsk \subseteq Series /\ None \notin Series
    BY AnswerPartsAssumption DEF History!HistoryAssumption
  <1> QED BY <1>1

\* The purge is well defined: some head of the deque is exactly what left the window.
LEMMA HistoryExpired ==
    ASSUME now \in Nat, NEW q \in Seq(Nat), NEW length \in Nat
    PROVE  /\ History!Expired(q, length) \in 0..Len(q)
           /\ \A i \in 1..History!Expired(q, length) : now - q[i] >= length
           /\ History!Expired(q, length) < Len(q) =>
                 now - q[History!Expired(q, length) + 1] < length
  <1> DEFINE fresh == {k \in 0..Len(q) : k = Len(q) \/ now - q[k + 1] < length}
  <1>1. fresh \subseteq Nat /\ Len(q) \in fresh
    OBVIOUS
  <1>2. PICK k \in fresh : \A m \in fresh : ~(m < k)
    <2>1. \E k \in fresh : \A m \in fresh : ~(<<m, k>> \in OpToRel(<, Nat))
      BY <1>1, NatLessThanWellFounded, WFMin, Zenon
    <2> QED BY <1>1, <2>1 DEF OpToRel
  <1>3. \A i \in 1..k : now - q[i] >= length
    <2> TAKE i \in 1..k
    <2>1. i - 1 \in 0..Len(q) /\ i - 1 < k /\ i - 1 # Len(q)
      OBVIOUS
    <2>2. i - 1 \notin fresh
      BY <1>2, <2>1
    <2>3. ~(now - q[(i - 1) + 1] < length)
      BY <2>1, <2>2
    <2>4. q[i] \in Nat /\ (i - 1) + 1 = i
      OBVIOUS
    <2> QED BY <2>3, <2>4
  <1>4. k \in 0..Len(q) /\ (k < Len(q) => now - q[k + 1] < length)
    BY <1>2
  <1> DEFINE Stale(m) == /\ \A i \in 1..m : now - q[i] >= length
                         /\ m < Len(q) => now - q[m + 1] < length
  <1>5. \E m \in 0..Len(q) : Stale(m)
    BY <1>3, <1>4
  <1>6. History!Expired(q, length) = CHOOSE m \in 0..Len(q) : Stale(m)
    BY DEF History!Expired
  <1> HIDE DEF Stale
  <1>7. History!Expired(q, length) \in 0..Len(q) /\ Stale(History!Expired(q, length))
    BY <1>5, <1>6, Zenon
  <1> QED BY <1>7 DEF Stale

\* What the purge leaves.
LEMMA HistoryRecent ==
    ASSUME now \in Nat, NEW q \in Seq(Nat), NEW length \in Nat
    PROVE  /\ History!Recent(q, length) \in Seq(Nat)
           /\ \E k \in 0..Len(q) :
                 /\ Len(History!Recent(q, length)) = Len(q) - k
                 /\ \A j \in 1..(Len(q) - k) : History!Recent(q, length)[j] = q[k + j]
                 /\ \A i \in 1..k : now - q[i] >= length
                 /\ k < Len(q) => now - q[k + 1] < length
  <1> DEFINE k == History!Expired(q, length)
  <1>1. /\ k \in 0..Len(q) /\ \A i \in 1..k : now - q[i] >= length
        /\ k < Len(q) => now - q[k + 1] < length
    BY HistoryExpired
  <1>2. History!Recent(q, length) = SubSeq(q, k + 1, Len(q))
    BY DEF History!Recent
  <1> HIDE DEF k
  <1>3. /\ SubSeq(q, k + 1, Len(q)) \in Seq(Nat) /\ Len(SubSeq(q, k + 1, Len(q))) = Len(q) - k
        /\ \A j \in 1..(Len(q) - k) : SubSeq(q, k + 1, Len(q))[j] = q[k + j]
    BY ONLY <1>1, q \in Seq(Nat)
  <1> QED BY <1>1, <1>2, <1>3

\* Who was admitted in a time: their requests were sent, or they wait for a slot.
HistorySent(requests, times) ==
    {i \in DOMAIN sent : sent[i].request \in requests /\ sent[i].admitted \in times}
HistoryWaits(requests, times) ==
    {c \in Caller : /\ calls[c].at = "waiting"
                    /\ calls[c].request \in requests /\ calls[c].admitted \in times}

LEMMA HistoryAdmitted ==
    \A requests, times : History!Admitted(requests, times) =
        Cardinality(HistorySent(requests, times)) + Cardinality(HistoryWaits(requests, times))
  BY HistorySizes DEF History!Admitted, HistorySent, HistoryWaits

LEMMA HistoryAdmittedNext ==
    \A requests, times : History!Admitted(requests, times)' =
        Cardinality(HistorySent(requests, times)') + Cardinality(HistoryWaits(requests, times)')
  BY HistorySizes DEF History!Admitted, HistorySent, HistoryWaits

LEMMA HistorySetsFinite ==
    ASSUME sent \in Seq(History!Sent)
    PROVE  \A S : /\ S \subseteq DOMAIN sent => IsFiniteSet(S) /\ Cardinality(S) \in Nat
                  /\ S \subseteq Caller => IsFiniteSet(S) /\ Cardinality(S) \in Nat
  <1>1. IsFiniteSet(DOMAIN sent)
    BY FS_Interval, LenProperties
  <1> QED BY <1>1, FS_Subset, FS_CardinalityType, HistoryConstants

LEMMA HistoryLoads ==
    ASSUME sent \in Seq(History!Sent)
    PROVE  \A requests, times :
              /\ History!Admitted(requests, times) \in Nat /\ History!Load(requests, times) \in Nat
              /\ \A more : times \subseteq more =>
                    /\ History!Admitted(requests, times) <= History!Admitted(requests, more)
                    /\ History!Load(requests, times) <= History!Load(requests, more)
  <1>1. \A requests, times :
           /\ IsFiniteSet(HistorySent(requests, times)) /\ IsFiniteSet(HistoryWaits(requests, times))
           /\ Cardinality(HistorySent(requests, times)) \in Nat
           /\ Cardinality(HistoryWaits(requests, times)) \in Nat
    BY HistorySetsFinite DEF HistorySent, HistoryWaits
  <1>2. \A requests, times : History!Admitted(requests, times) \in Nat
    BY <1>1, HistoryAdmitted
  <1>3. ASSUME NEW requests, NEW times, NEW more, times \subseteq more
        PROVE  History!Admitted(requests, times) <= History!Admitted(requests, more)
    <2>1. /\ HistorySent(requests, times) \subseteq HistorySent(requests, more)
          /\ HistoryWaits(requests, times) \subseteq HistoryWaits(requests, more)
      BY <1>3 DEF HistorySent, HistoryWaits
    <2>2. /\ Cardinality(HistorySent(requests, times)) <= Cardinality(HistorySent(requests, more))
          /\ Cardinality(HistoryWaits(requests, times)) <= Cardinality(HistoryWaits(requests, more))
      BY <1>1, <2>1, FS_Subset
    <2> QED BY <1>1, <2>2, HistoryAdmitted
  <1>4. \A requests, times : History!Load(requests, times) \in Nat
    BY <1>2 DEF History!Load
  <1>5. ASSUME NEW requests, NEW times, NEW more, times \subseteq more
        PROVE  History!Load(requests, times) <= History!Load(requests, more)
    <2>1. /\ History!Admitted(requests, times) <= History!Admitted(requests, more)
          /\ History!Admitted(requests \cap BidAsk, times) <= History!Admitted(requests \cap BidAsk, more)
      BY <1>3, <1>5
    <2> QED BY <1>2, <2>1 DEF History!Load
  <1> QED BY <1>2, <1>3, <1>4, <1>5

\* A step that admits nothing.
HistoryLoadsFall == \A requests, times :
                       /\ History!Load(requests, times)' \in Int
                       /\ History!Load(requests, times)' <= History!Load(requests, times)

\* ... and one that admits request r now.
HistoryLoadsGrow(r) ==
    \A requests, times : LET more == IF r \in requests /\ now \in times THEN History!Weight(r) ELSE 0
                         IN  /\ History!Load(requests, times)' \in Int
                             /\ History!Load(requests, times)' <= History!Load(requests, times) + more

LEMMA HistoryFalls ==
    ASSUME sent \in Seq(History!Sent), sent' \in Seq(History!Sent),
           \A requests, times : History!Admitted(requests, times)' <= History!Admitted(requests, times)
    PROVE  HistoryLoadsFall
  <1>1. \A requests, times : /\ History!Admitted(requests, times) \in Nat
                             /\ History!Admitted(requests, times)' \in Nat
    <2>1. \A S : /\ S \subseteq DOMAIN sent' => Cardinality(S) \in Nat
                 /\ S \subseteq Caller => Cardinality(S) \in Nat
      <3>1. IsFiniteSet(DOMAIN sent')
        BY FS_Interval, LenProperties
      <3> QED BY <3>1, FS_Subset, FS_CardinalityType, HistoryConstants
    <2>2. \A requests, times : /\ HistorySent(requests, times)' \subseteq DOMAIN sent'
                               /\ HistoryWaits(requests, times)' \subseteq Caller
      BY DEF HistorySent, HistoryWaits
    <2> QED BY <2>1, <2>2, HistoryAdmittedNext, HistoryLoads
  <1> QED BY <1>1 DEF HistoryLoadsFall, History!Load

\* Calls move on; nobody is admitted and nothing is sent.
LEMMA HistoryIdleLoads ==
    ASSUME sent \in Seq(History!Sent), sent' \in Seq(History!Sent), DOMAIN sent' = DOMAIN sent,
           \A i \in DOMAIN sent : /\ sent'[i].request = sent[i].request
                                  /\ sent'[i].admitted = sent[i].admitted,
           \A c \in Caller : calls'[c].at = "waiting" => calls'[c] = calls[c]
    PROVE  HistoryLoadsFall
  <1> SUFFICES ASSUME NEW requests, NEW times
               PROVE  History!Admitted(requests, times)' <= History!Admitted(requests, times)
    BY HistoryFalls
  <1>1. HistorySent(requests, times)' = HistorySent(requests, times)
    BY DEF HistorySent
  <1>2. HistoryWaits(requests, times)' \subseteq HistoryWaits(requests, times)
    BY DEF HistoryWaits
  <1>3. /\ IsFiniteSet(HistorySent(requests, times)) /\ IsFiniteSet(HistoryWaits(requests, times))
        /\ Cardinality(HistorySent(requests, times)) \in Nat
        /\ Cardinality(HistoryWaits(requests, times)) \in Nat
    BY HistorySetsFinite DEF HistorySent, HistoryWaits
  <1>4. /\ Cardinality(HistoryWaits(requests, times)') \in Nat
        /\ Cardinality(HistoryWaits(requests, times)') <= Cardinality(HistoryWaits(requests, times))
    BY <1>2, <1>3, FS_Subset, FS_CardinalityType
  <1> QED BY <1>1, <1>3, <1>4, HistoryAdmitted, HistoryAdmittedNext

\* A call is admitted.
LEMMA HistoryAdmitsOne ==
    ASSUME sent \in Seq(History!Sent), sent' = sent, NEW c \in Caller, calls[c].at # "waiting",
           calls'[c].admitted = now, NEW r, calls'[c].request = r,
           \A d \in Caller \ {c} : calls'[d] = calls[d]
    PROVE  HistoryLoadsGrow(r)
  <1>1. ASSUME NEW requests, NEW times
        PROVE  /\ History!Admitted(requests, times)' \in Nat
               /\ History!Admitted(requests, times) \in Nat
               /\ History!Admitted(requests, times)' <= History!Admitted(requests, times)
                     + (IF r \in requests /\ now \in times THEN 1 ELSE 0)
    <2>1. HistorySent(requests, times)' = HistorySent(requests, times)
      BY DEF HistorySent
    <2>2. HistoryWaits(requests, times)' \subseteq HistoryWaits(requests, times)
             \cup (IF r \in requests /\ now \in times THEN {c} ELSE {})
      BY DEF HistoryWaits
    <2>3. /\ IsFiniteSet(HistorySent(requests, times)) /\ IsFiniteSet(HistoryWaits(requests, times))
          /\ Cardinality(HistorySent(requests, times)) \in Nat
          /\ Cardinality(HistoryWaits(requests, times)) \in Nat
      BY HistorySetsFinite DEF HistorySent, HistoryWaits
    <2>4. c \notin HistoryWaits(requests, times)
      BY DEF HistoryWaits
    <2>5. /\ IsFiniteSet(HistoryWaits(requests, times) \cup {c})
          /\ Cardinality(HistoryWaits(requests, times) \cup {c})
                = Cardinality(HistoryWaits(requests, times)) + 1
      BY <2>3, <2>4, FS_AddElement
    <2>6. /\ Cardinality(HistoryWaits(requests, times)') \in Nat
          /\ Cardinality(HistoryWaits(requests, times)') <= Cardinality(HistoryWaits(requests, times))
                + (IF r \in requests /\ now \in times THEN 1 ELSE 0)
      <3>1. CASE r \in requests /\ now \in times
        <4>1. HistoryWaits(requests, times)' \subseteq HistoryWaits(requests, times) \cup {c}
          BY <2>2
        <4>2. /\ Cardinality(HistoryWaits(requests, times)') \in Nat
              /\ Cardinality(HistoryWaits(requests, times)')
                    <= Cardinality(HistoryWaits(requests, times) \cup {c})
          BY <2>5, <4>1, FS_Subset, FS_CardinalityType
        <4> QED BY <2>5, <3>1, <4>2
      <3>2. CASE ~(r \in requests /\ now \in times)
        <4>1. HistoryWaits(requests, times)' \subseteq HistoryWaits(requests, times)
          BY <2>2, <3>2
        <4>2. /\ Cardinality(HistoryWaits(requests, times)') \in Nat
              /\ Cardinality(HistoryWaits(requests, times)')
                    <= Cardinality(HistoryWaits(requests, times))
          BY <2>3, <4>1, FS_Subset, FS_CardinalityType
        <4> QED BY <2>3, <3>2, <4>2
      <3> QED BY <3>1, <3>2
    <2> QED BY <2>1, <2>3, <2>6, HistoryAdmitted, HistoryAdmittedNext
  <1>2. \A requests : r \in requests \cap BidAsk <=> r \in requests /\ r \in BidAsk
    OBVIOUS
  <1>3. ASSUME NEW requests, NEW times
        PROVE  /\ History!Load(requests, times)' \in Int
               /\ History!Load(requests, times)' <= History!Load(requests, times)
                     + (IF r \in requests /\ now \in times THEN History!Weight(r) ELSE 0)
    <2>1. /\ History!Admitted(requests, times)' \in Nat /\ History!Admitted(requests, times) \in Nat
          /\ History!Admitted(requests, times)' <= History!Admitted(requests, times)
                + (IF r \in requests /\ now \in times THEN 1 ELSE 0)
      BY <1>1
    <2>2. /\ History!Admitted(requests \cap BidAsk, times)' \in Nat
          /\ History!Admitted(requests \cap BidAsk, times) \in Nat
          /\ History!Admitted(requests \cap BidAsk, times)' <= History!Admitted(requests \cap BidAsk, times)
                + (IF r \in requests /\ r \in BidAsk /\ now \in times THEN 1 ELSE 0)
      BY <1>1, <1>2
    <2>3. History!Weight(r) = IF r \in BidAsk THEN 2 ELSE 1
      BY DEF History!Weight
    <2> QED BY <2>1, <2>2, <2>3 DEF History!Load
  <1> QED BY <1>3 DEF HistoryLoadsGrow

\* A call that waited sends its request.
LEMMA HistorySendLoads ==
    ASSUME sent \in Seq(History!Sent), NEW c \in Caller, calls[c].at = "waiting",
           NEW new \in History!Sent, sent' = Append(sent, new), new.request = calls[c].request,
           new.admitted = calls[c].admitted, calls'[c].at # "waiting",
           \A d \in Caller \ {c} : calls'[d] = calls[d]
    PROVE  HistoryLoadsFall
  <1> DEFINE n == Len(sent) + 1
  <1>1. /\ sent' \in Seq(History!Sent) /\ DOMAIN sent' = DOMAIN sent \cup {n} /\ n \notin DOMAIN sent
        /\ sent'[n] = new /\ \A i \in DOMAIN sent : sent'[i] = sent[i]
    BY AppendProperties, LenProperties
  <1> HIDE DEF n
  <1> SUFFICES ASSUME NEW requests, NEW times
               PROVE  History!Admitted(requests, times)' <= History!Admitted(requests, times)
    BY <1>1, HistoryFalls
  <1>2. /\ IsFiniteSet(HistorySent(requests, times)) /\ IsFiniteSet(HistoryWaits(requests, times))
        /\ Cardinality(HistorySent(requests, times)) \in Nat
        /\ Cardinality(HistoryWaits(requests, times)) \in Nat
    BY HistorySetsFinite DEF HistorySent, HistoryWaits
  <1>3. CASE new.request \in requests /\ new.admitted \in times
    <2>1. HistorySent(requests, times)' = HistorySent(requests, times) \cup {n}
      BY <1>1, <1>3 DEF HistorySent
    <2>2. /\ HistoryWaits(requests, times)' = HistoryWaits(requests, times) \ {c}
          /\ c \in HistoryWaits(requests, times)
      BY <1>3 DEF HistoryWaits
    <2>3. n \notin HistorySent(requests, times)
      BY <1>1 DEF HistorySent
    <2>4. Cardinality(HistorySent(requests, times)') = Cardinality(HistorySent(requests, times)) + 1
      BY <1>2, <2>1, <2>3, FS_AddElement
    <2>5. Cardinality(HistoryWaits(requests, times)') = Cardinality(HistoryWaits(requests, times)) - 1
      BY <1>2, <2>2, FS_RemoveElement
    <2> QED BY <1>2, <2>4, <2>5, HistoryAdmitted, HistoryAdmittedNext
  <1>4. CASE ~(new.request \in requests /\ new.admitted \in times)
    <2>1. HistorySent(requests, times)' = HistorySent(requests, times)
      BY <1>1, <1>4 DEF HistorySent
    <2>2. HistoryWaits(requests, times)' = HistoryWaits(requests, times)
      BY <1>4 DEF HistoryWaits
    <2> QED BY <1>2, <2>1, <2>2, HistoryAdmitted, HistoryAdmittedNext
  <1> QED BY <1>3, <1>4

\* Times after the model's end do not count.
LEMMA HistoryLoadsWithin ==
    ASSUME History!TypeOK, NEW requests, NEW from \in Nat, NEW length
    PROVE  History!Load(requests, from..(from + length - 1)) <= History!Load(requests, from..MaxTime)
  <1> DEFINE times == from..(from + length - 1)
             upTo == times \cap (from..MaxTime)
  <1>1. sent \in Seq(History!Sent) /\ calls \in [Caller -> History!Call]
    BY DEF History!TypeOK
  <1>2. /\ \A i \in DOMAIN sent : sent[i].admitted \in 0..MaxTime
        /\ \A c \in Caller : calls[c].admitted \in 0..MaxTime
    <2>1. \A call \in History!Call : call.admitted \in 0..MaxTime
      BY DEF History!Call
    <2>2. \A s \in History!Sent : s.admitted \in 0..MaxTime
      BY DEF History!Sent
    <2>3. \A i \in DOMAIN sent : sent[i] \in History!Sent
      BY <1>1
    <2> QED BY <1>1, <2>1, <2>2, <2>3
  <1>3. \A n \in times : n \in 0..MaxTime => n \in from..MaxTime
    BY HistoryLimits
  <1> HIDE DEF times
  <1>4. ASSUME NEW some
        PROVE  History!Admitted(some, times) = History!Admitted(some, upTo)
    <2>1. /\ HistorySent(some, times) = HistorySent(some, upTo)
          /\ HistoryWaits(some, times) = HistoryWaits(some, upTo)
      BY <1>2, <1>3 DEF HistorySent, HistoryWaits
    <2> QED BY <2>1, HistoryAdmitted
  <1>5. History!Load(requests, times) = History!Load(requests, upTo)
    <2>1. /\ History!Admitted(requests, times) = History!Admitted(requests, upTo)
          /\ History!Admitted(requests \cap BidAsk, times) = History!Admitted(requests \cap BidAsk, upTo)
      BY <1>4
    <2> QED BY <2>1 DEF History!Load
  <1>6. upTo \subseteq from..MaxTime
    OBVIOUS
  <1>7. History!Load(requests, upTo) <= History!Load(requests, from..MaxTime)
    BY <1>1, <1>6, HistoryLoads
  <1> QED BY <1>5, <1>7 DEF times

\* What Counts says after a step, of any stamps.
HistoryCountsNext(stamps, requests, length, max) ==
    /\ stamps \in Seq(Nat) /\ Len(stamps) <= max
    /\ \A j \in DOMAIN stamps : stamps[j] <= now' /\ \A i \in 1..j : stamps[i] <= stamps[j]
    /\ \A from \in 0..MaxTime, j \in 0..Len(stamps) :
          now' - from < length /\ (j > 0 => stamps[j] < from)
             => History!Load(requests, from..MaxTime)' <= Len(stamps) - j
    /\ \A from \in 0..MaxTime : History!Load(requests, from..(from + length - 1))' <= max

LEMMA HistoryLimitsNext ==
    ASSUME HistoryCountsNext(window', Series, PacingWindow, MaxPaced),
           bursts' = [k \in History!Keys |-> bursts'[k]],
           \A k \in History!Keys :
              HistoryCountsNext(bursts'[k], {r \in Series : History!Key(r) = k}, Burst, MaxBurst)
    PROVE  History!WithinLimits'
  <1>1. History!Counts(window, Series, PacingWindow, MaxPaced)'
    BY DEF History!Counts, HistoryCountsNext
  <1>2. ASSUME NEW k \in History!Keys
        PROVE  History!Counts(bursts[k], {r \in Series : History!Key(r) = k}, Burst, MaxBurst)'
    <2>1. HistoryCountsNext(bursts'[k], {r \in Series : History!Key(r) = k}, Burst, MaxBurst)
      BY <1>2
    <2> QED BY <2>1 DEF History!Counts, HistoryCountsNext
  <1> QED BY <1>1, <1>2 DEF History!WithinLimits, History!Keys

\* A limit that no request of the step counts for.
LEMMA HistoryFallKeeps ==
    ASSUME sent \in Seq(History!Sent), now \in Nat, now' \in Nat, now' >= now,
           NEW q, NEW requests, NEW length \in Nat, NEW max \in Nat,
           History!Counts(q, requests, length, max),
           \A times : /\ History!Load(requests, times)' \in Int
                      /\ History!Load(requests, times)' <= History!Load(requests, times)
    PROVE  HistoryCountsNext(q, requests, length, max)
  <1> USE HistoryLimits
  <1>1. /\ q \in Seq(Nat) /\ Len(q) <= max
        /\ \A j \in DOMAIN q : q[j] <= now' /\ \A i \in 1..j : q[i] <= q[j]
    BY DEF History!Counts
  <1>2. ASSUME NEW from \in 0..MaxTime, NEW j \in 0..Len(q), now' - from < length,
               j > 0 => q[j] < from
        PROVE  History!Load(requests, from..MaxTime)' <= Len(q) - j
    <2>1. now - from < length
      <3>1. from \in Int /\ now \in Int /\ now' \in Int /\ length \in Int
        OBVIOUS
      <3>2. now' - from < length /\ now' >= now
        BY <1>2
      <3>3. \A a, b, d, m \in Int : b - d < m /\ b >= a => a - d < m
        OBVIOUS
      <3> QED BY ONLY <3>1, <3>2, <3>3
    <2>2. History!Load(requests, from..MaxTime) <= Len(q) - j
      BY <1>2, <2>1 DEF History!Counts
    <2>3. Len(q) \in Nat /\ History!Load(requests, from..MaxTime) \in Nat
      BY <1>1, HistoryLoads
    <2> QED BY <2>2, <2>3
  <1>3. ASSUME NEW from \in 0..MaxTime
        PROVE  History!Load(requests, from..(from + length - 1))' <= max
    <2>1. History!Load(requests, from..(from + length - 1)) <= max
      BY <1>3 DEF History!Counts
    <2>2. History!Load(requests, from..(from + length - 1)) \in Nat
      BY HistoryLoads
    <2> QED BY <2>1, <2>2
  <1> QED BY <1>1, <1>2, <1>3 DEF HistoryCountsNext

\* The purge takes away only what no longer counts.
LEMMA HistoryPurgeCounts ==
    ASSUME now \in Nat, NEW q, NEW requests, NEW length \in Nat, NEW max \in Nat,
           History!Counts(q, requests, length, max)
    PROVE  History!Counts(History!Recent(q, length), requests, length, max)
  <1> DEFINE left == History!Recent(q, length)
  <1> USE HistoryLimits
  <1>1. /\ q \in Seq(Nat) /\ Len(q) <= max
        /\ \A j \in DOMAIN q : q[j] <= now /\ \A i \in 1..j : q[i] <= q[j]
    BY DEF History!Counts
  <1>2. PICK k \in 0..Len(q) :
           /\ Len(left) = Len(q) - k
           /\ \A j \in 1..(Len(q) - k) : left[j] = q[k + j]
           /\ \A i \in 1..k : now - q[i] >= length
           /\ k < Len(q) => now - q[k + 1] < length
    BY <1>1, HistoryRecent
  <1>3. left \in Seq(Nat)
    BY <1>1, HistoryRecent
  <1> HIDE DEF left
  <1>4. Len(q) \in Nat /\ DOMAIN q = 1..Len(q) /\ DOMAIN left = 1..(Len(q) - k)
        /\ \A i \in 1..Len(q) : q[i] \in Nat
    <2>1. DOMAIN q = 1..Len(q) /\ Len(q) \in Nat /\ \A i \in 1..Len(q) : q[i] \in Nat
      BY ONLY <1>1
    <2>2. DOMAIN left = 1..Len(left)
      BY ONLY <1>3
    <2> QED BY <1>2, <2>1, <2>2
  <1>5. \A j \in DOMAIN left : left[j] <= now /\ \A i \in 1..j : left[i] <= left[j]
    <2> TAKE j \in DOMAIN left
    <2>1. k + j \in DOMAIN q /\ left[j] = q[k + j]
      BY <1>2, <1>4
    <2>2. \A i \in 1..j : k + i \in 1..(k + j) /\ left[i] = q[k + i]
      BY <1>2, <1>4
    <2> QED BY <1>1, <2>1, <2>2
  <1>6. ASSUME NEW from \in 0..MaxTime, NEW j \in 0..Len(left), now - from < length,
               j > 0 => left[j] < from
        PROVE  History!Load(requests, from..MaxTime) <= Len(left) - j
    <2>1. j + k \in 0..Len(q) /\ Len(left) - j = Len(q) - (j + k)
      BY <1>2, <1>4
    <2>2. j + k > 0 => q[j + k] < from
      <3>1. CASE j > 0
        BY <1>2, <1>4, <1>6, <3>1
      <3>2. CASE j = 0
        <4>1. k > 0 => now - q[k] >= length /\ q[k] \in Nat
          BY <1>2, <1>4
        <4> QED BY <1>6, <3>2, <4>1
      <3> QED BY <1>2, <3>1, <3>2
    <2>3. History!Load(requests, from..MaxTime) <= Len(q) - (j + k)
      BY <1>6, <2>1, <2>2 DEF History!Counts
    <2> QED BY <2>1, <2>3
  <1>7. \A from \in 0..MaxTime : History!Load(requests, from..(from + length - 1)) <= max
    BY DEF History!Counts
  <1>8. Len(left) <= max
    BY <1>1, <1>2, <1>4
  <1>9. History!Counts(left, requests, length, max)
    BY <1>3, <1>5, <1>6, <1>7, <1>8 DEF History!Counts
  <1> QED BY <1>9 DEF left

\* A request is admitted where there is room for it: its stamps are put after what the purge left.
LEMMA HistoryGrowCounts ==
    ASSUME History!TypeOK, now' = now, NEW q, NEW r, NEW requests, r \in requests,
           NEW length \in Nat \ {0}, NEW max \in Nat, NEW weight \in Nat, weight = History!Weight(r),
           History!Counts(q, requests, length, max), Len(q) + weight <= max, HistoryLoadsGrow(r)
    PROVE  HistoryCountsNext(q \o History!Times(weight), requests, length, max)
  <1> DEFINE s == q \o History!Times(weight)
  <1> USE HistoryLimits
  <1>1. /\ q \in Seq(Nat) /\ \A j \in DOMAIN q : q[j] <= now /\ \A i \in 1..j : q[i] <= q[j]
    BY DEF History!Counts
  <1>2. now \in Nat /\ sent \in Seq(History!Sent)
    BY DEF History!TypeOK
  <1>3. /\ History!Times(weight) \in Seq(Nat) /\ Len(History!Times(weight)) = weight
        /\ \A i \in 1..weight : History!Times(weight)[i] = now
    BY <1>2 DEF History!Times
  <1>4. /\ s \in Seq(Nat) /\ Len(s) = Len(q) + weight /\ Len(q) \in Nat
        /\ \A j \in 1..Len(q) : s[j] = q[j]
        /\ \A j \in 1..(Len(q) + weight) : j > Len(q) => s[j] = now
    <2>1. \A a, b \in Seq(Nat) : /\ a \o b \in Seq(Nat) /\ Len(a \o b) = Len(a) + Len(b) /\ Len(a) \in Nat
                                 /\ \A j \in 1..Len(a) : (a \o b)[j] = a[j]
                                 /\ \A j \in 1..(Len(a) + Len(b)) :
                                       j > Len(a) => (a \o b)[j] = b[j - Len(a)]
      OBVIOUS
    <2>2. \A j \in 1..(Len(q) + weight) : j > Len(q) => j - Len(q) \in 1..weight
      BY <1>1
    <2> QED BY <1>1, <1>3, <2>1, <2>2
  <1>5. \A times : /\ History!Load(requests, times) \in Nat
                   /\ History!Load(requests, times)' \in Int
                   /\ now \in times => History!Load(requests, times)'
                                          <= History!Load(requests, times) + weight
                   /\ now \notin times => History!Load(requests, times)'
                                             <= History!Load(requests, times)
    <2> SUFFICES ASSUME NEW times
                 PROVE  /\ History!Load(requests, times) \in Nat
                        /\ History!Load(requests, times)' \in Int
                        /\ now \in times => History!Load(requests, times)'
                                               <= History!Load(requests, times) + weight
                        /\ now \notin times => History!Load(requests, times)'
                                                  <= History!Load(requests, times)
      OBVIOUS
    <2>1. History!Load(requests, times) \in Nat
      BY <1>2, HistoryLoads
    <2>2. /\ History!Load(requests, times)' \in Int
          /\ History!Load(requests, times)' <= History!Load(requests, times)
                 + (IF r \in requests /\ now \in times THEN History!Weight(r) ELSE 0)
      BY DEF HistoryLoadsGrow
    <2> QED BY <2>1, <2>2
  <1> HIDE DEF s
  <1>6. \A j \in DOMAIN s : s[j] <= now' /\ \A i \in 1..j : s[i] <= s[j]
    <2> TAKE j \in DOMAIN s
    <2>1. j \in 1..(Len(q) + weight) /\ DOMAIN q = 1..Len(q)
      BY <1>1, <1>4
    <2>2. CASE j <= Len(q)
      <3>1. j \in DOMAIN q /\ s[j] = q[j] /\ \A i \in 1..j : i \in 1..Len(q) /\ s[i] = q[i]
        BY <1>4, <2>1, <2>2
      <3> QED BY <1>1, <3>1
    <2>3. CASE j > Len(q)
      <3>1. s[j] = now
        BY <1>4, <2>1, <2>3
      <3>2. \A i \in 1..j : i \in 1..(Len(q) + weight)
        BY <1>4, <2>1
      <3>3. \A i \in 1..(Len(q) + weight) : i \in 1..Len(q) \/ i > Len(q)
        BY <1>4
      <3>4. \A i \in 1..j : s[i] <= now
        <4> TAKE i \in 1..j
        <4>1. CASE i \in 1..Len(q)
          <5>1. s[i] = q[i] /\ q[i] <= now
            BY <1>1, <1>4, <2>1, <4>1
          <5> QED BY <5>1
        <4>2. CASE i > Len(q)
          <5>1. s[i] = now
            BY <1>4, <3>2, <4>2
          <5> QED BY <1>2, <5>1
        <4> QED BY <3>2, <3>3, <4>1, <4>2
      <3> QED BY <1>2, <3>1, <3>4
    <2> QED BY <1>4, <2>1, <2>2, <2>3
  <1>7. ASSUME NEW from \in 0..MaxTime, NEW j \in 0..Len(s), now' - from < length,
               j > 0 => s[j] < from
        PROVE  History!Load(requests, from..MaxTime)' <= Len(s) - j
    <2> DEFINE load == History!Load(requests, from..MaxTime)
    <2>1. from \in Nat /\ j \in Nat /\ j <= Len(q) + weight /\ now - from < length
      BY <1>4, <1>7
    <2>2. CASE from <= now
      <3>1. j <= Len(q)
        <4>1. j > Len(q) => s[j] = now /\ j > 0
          BY <1>4, <2>1
        <4> QED BY <1>2, <1>4, <1>7, <2>1, <2>2, <4>1
      <3>2. j > 0 => q[j] < from
        BY <1>4, <1>7, <2>1, <3>1
      <3>3. load <= Len(q) - j
        <4>1. j \in 0..Len(q)
          BY <1>4, <2>1, <3>1
        <4> QED BY <2>1, <3>2, <4>1 DEF History!Counts
      <3>4. load \in Nat /\ load' \in Int /\ load' <= load + weight
        <4>1. now \in from..MaxTime
          BY <1>2, <2>1, <2>2 DEF History!TypeOK
        <4> QED BY <1>5, <4>1
      <3> HIDE DEF load
      <3>5. load' <= (Len(q) + weight) - j
        BY <1>4, <2>1, <3>3, <3>4
      <3> QED BY <1>4, <3>5 DEF load
    <2>3. CASE from > now
      <3>1. Len(q) > 0 => q[Len(q)] < from
        <4>1. Len(q) > 0 => Len(q) \in DOMAIN q /\ q[Len(q)] \in Nat
          BY <1>1, <1>4
        <4> QED BY <1>1, <1>2, <2>1, <2>3, <4>1
      <3>2. load <= Len(q) - Len(q)
        <4>1. Len(q) \in 0..Len(q)
          BY <1>4
        <4> QED BY <2>1, <3>1, <4>1 DEF History!Counts
      <3>3. load \in Nat /\ load' \in Int /\ load' <= load
        <4>1. now \notin from..MaxTime
          BY <1>2, <2>1, <2>3
        <4> QED BY <1>5, <4>1
      <3> HIDE DEF load
      <3>4. load' <= (Len(q) + weight) - j
        BY <1>4, <2>1, <3>2, <3>3
      <3> QED BY <1>4, <3>4 DEF load
    <2> QED BY <1>2, <2>1, <2>2, <2>3
  <1>8. ASSUME NEW from \in 0..MaxTime
        PROVE  History!Load(requests, from..(from + length - 1))' <= max
    <2> DEFINE load == History!Load(requests, from..(from + length - 1))
               since == History!Load(requests, from..MaxTime)
    <2>1. from \in Nat /\ load \in Nat /\ since \in Nat /\ load' \in Int /\ load <= max
      BY <1>5, <1>8 DEF History!Counts
    <2>2. CASE now \in from..(from + length - 1)
      <3>1. now - from < length
        BY <1>2, <2>1, <2>2
      <3>2. since <= Len(q) - 0
        <4>1. 0 \in 0..Len(q) /\ ~(0 > 0)
          BY <1>4
        <4> QED BY <3>1, <4>1 DEF History!Counts
      <3>3. load <= since
        BY <2>1, HistoryLoadsWithin
      <3>4. load' <= load + weight
        BY <1>5, <2>2
      <3> HIDE DEF load, since
      <3>5. load' <= max
        BY <1>4, <2>1, <3>2, <3>3, <3>4
      <3> QED BY <3>5 DEF load
    <2>3. CASE now \notin from..(from + length - 1)
      <3>1. load' <= load
        BY <1>5, <2>3
      <3> HIDE DEF load
      <3>2. load' <= max
        BY <2>1, <3>1
      <3> QED BY <3>2 DEF load
    <2> QED BY <2>2, <2>3
  <1>9. HistoryCountsNext(s, requests, length, max)
    BY <1>4, <1>6, <1>7, <1>8 DEF HistoryCountsNext
  <1> QED BY <1>9 DEF s

\* A set of requests that were sent weighs no more than what was admitted.
LEMMA HistoryWeighs ==
    ASSUME History!TypeOK, NEW batch, batch \subseteq DOMAIN sent, NEW requests, NEW times,
           \A i \in batch : sent[i].request \in requests /\ sent[i].admitted \in times
    PROVE  History!WeightOf(batch) <= History!Load(requests, times)
  <1>1. sent \in Seq(History!Sent)
    BY DEF History!TypeOK
  <1>2. ASSUME NEW S, NEW some, S \subseteq HistorySent(some, times)
        PROVE  Cardinality(S) \in Nat /\ Cardinality(S) <= History!Admitted(some, times)
    <2>1. /\ IsFiniteSet(HistorySent(some, times)) /\ Cardinality(HistorySent(some, times)) \in Nat
          /\ Cardinality(HistoryWaits(some, times)) \in Nat
      BY <1>1, HistorySetsFinite DEF HistorySent, HistoryWaits
    <2>2. Cardinality(S) \in Nat /\ Cardinality(S) <= Cardinality(HistorySent(some, times))
      BY <1>2, <2>1, FS_Subset, FS_CardinalityType
    <2> QED BY <2>1, <2>2, HistoryAdmitted
  <1> DEFINE twice == {i \in batch : sent[i].request \in BidAsk}
  <1>3. Cardinality(batch) \in Nat /\ Cardinality(batch) <= History!Admitted(requests, times)
    <2>1. batch \subseteq HistorySent(requests, times)
      BY DEF HistorySent
    <2> QED BY <1>2, <2>1
  <1>4. /\ Cardinality(twice) \in Nat
        /\ Cardinality(twice) <= History!Admitted(requests \cap BidAsk, times)
    <2>1. twice \subseteq HistorySent(requests \cap BidAsk, times)
      BY DEF HistorySent
    <2> QED BY <1>2, <2>1
  <1>5. /\ History!Admitted(requests, times) \in Nat
        /\ History!Admitted(requests \cap BidAsk, times) \in Nat
    BY <1>1, HistoryLoads
  <1>6. History!WeightOf(batch) = Cardinality(batch) + Cardinality(twice)
    BY HistorySizes DEF History!WeightOf
  <1> HIDE DEF twice
  <1> QED BY <1>3, <1>4, <1>5, <1>6 DEF History!Load

\* What the limits count bounds what was sent.
LEMMA HistoryKeepsPace == History!TypeOK /\ History!WithinLimits => History!PacingKept
  <1> SUFFICES ASSUME History!TypeOK, History!WithinLimits, NEW t \in 0..now
               PROVE  LET long == {i \in DOMAIN sent : sent[i].at \in t..(t + PacingWindow - 1)}
                          short(k) == {i \in DOMAIN sent : /\ sent[i].at \in t..(t + Burst - 1)
                                                           /\ History!Key(sent[i].request) = k}
                      IN /\ (\A i \in long : History!AtOnce(i)) => History!WeightOf(long) <= MaxPaced
                         /\ \A k \in History!Keys : (\A i \in short(k) : History!AtOnce(i))
                               => History!WeightOf(short(k)) <= MaxBurst
    BY DEF History!PacingKept
  <1> DEFINE long == {i \in DOMAIN sent : sent[i].at \in t..(t + PacingWindow - 1)}
             short(k) == {i \in DOMAIN sent : /\ sent[i].at \in t..(t + Burst - 1)
                                              /\ History!Key(sent[i].request) = k}
             some(k) == {r \in Series : History!Key(r) = k}
  <1> USE HistoryLimits
  <1>1. now \in 0..MaxTime /\ sent \in Seq(History!Sent) /\ t \in 0..MaxTime
    BY DEF History!TypeOK
  <1>2. \A i \in DOMAIN sent : sent[i].request \in Series
    <2>1. \A s \in History!Sent : s.request \in Series
      BY DEF History!Sent
    <2> QED BY <1>1, <2>1
  <1>3. ASSUME NEW batch, NEW requests, NEW length \in Nat, NEW max \in Nat, NEW stamps,
               batch \subseteq DOMAIN sent, History!Counts(stamps, requests, length, max),
               \A i \in batch : /\ sent[i].request \in requests /\ History!AtOnce(i)
                                /\ sent[i].at \in t..(t + length - 1)
        PROVE  History!WeightOf(batch) <= max
    <2>1. \A i \in batch : /\ sent[i].request \in requests
                           /\ sent[i].admitted \in t..(t + length - 1)
      BY <1>3 DEF History!AtOnce
    <2>2. History!WeightOf(batch) <= History!Load(requests, t..(t + length - 1))
      BY <1>3, <2>1, HistoryWeighs
    <2>3. /\ History!Load(requests, t..(t + length - 1)) <= max
          /\ History!Load(requests, t..(t + length - 1)) \in Nat
      BY <1>1, <1>3, HistoryLoads DEF History!Counts
    <2>4. History!WeightOf(batch) \in Int
      <3>1. \A S : S \subseteq DOMAIN sent => Cardinality(S) \in Nat
        BY <1>1, HistorySetsFinite
      <3>2. {i \in batch : sent[i].request \in BidAsk} \subseteq DOMAIN sent
        BY <1>3
      <3> QED BY <1>3, <3>1, <3>2, HistorySizes DEF History!WeightOf
    <2> QED BY <2>2, <2>3, <2>4
  <1>4. ASSUME \A i \in long : History!AtOnce(i)
        PROVE  History!WeightOf(long) <= MaxPaced
    <2>1. /\ long \subseteq DOMAIN sent /\ \A i \in long : /\ sent[i].request \in Series
                                                           /\ sent[i].at \in t..(t + PacingWindow - 1)
      BY <1>2
    <2>2. History!Counts(window, Series, PacingWindow, MaxPaced)
      BY DEF History!WithinLimits
    <2> HIDE DEF long
    <2> QED BY <1>3, <1>4, <2>1, <2>2
  <1>5. ASSUME NEW k \in History!Keys, \A i \in short(k) : History!AtOnce(i)
        PROVE  History!WeightOf(short(k)) <= MaxBurst
    <2>1. /\ short(k) \subseteq DOMAIN sent /\ \A i \in short(k) : /\ sent[i].request \in some(k)
                                                             /\ sent[i].at \in t..(t + Burst - 1)
      BY <1>2
    <2>2. History!Counts(bursts[k], some(k), Burst, MaxBurst)
      BY <1>5 DEF History!WithinLimits
    <2> HIDE DEF short, some
    <2> QED BY <1>3, <1>5, <2>1, <2>2
  <1> QED BY <1>4, <1>5

\* The purge leaves at most what a refusal waited for.
LEMMA HistoryWaitEnds ==
    ASSUME now \in Nat, NEW q \in Seq(Nat), NEW length \in Nat, NEW max \in Nat, NEW weight \in Nat,
           NEW retry \in Int, History!LeavesInTime(q, weight, max, length, retry), now >= retry
    PROVE  History!Overflow(History!Recent(q, length), weight, max) <= 0
  <1>1. PICK k \in 0..Len(q) :
           /\ Len(History!Recent(q, length)) = Len(q) - k
           /\ k < Len(q) => now - q[k + 1] < length
    BY HistoryRecent
  <1>2. ~(k + 1 <= (Len(q) + weight) - max)
    <2> SUFFICES ASSUME k + 1 <= (Len(q) + weight) - max PROVE FALSE
      OBVIOUS
    <2>1. k + 1 \in 1..((Len(q) + weight) - max)
      OBVIOUS
    <2>2. k + 1 \in DOMAIN q /\ q[k + 1] + length <= retry
      BY <2>1 DEF History!LeavesInTime, History!Overflow
    <2>3. k + 1 \in 1..Len(q) /\ q[k + 1] \in Nat
      BY <2>2
    <2>4. now - q[k + 1] < length
      BY ONLY <1>1, <2>3, k \in 0..Len(q), Len(q) \in Nat
    <2> QED BY ONLY <2>2, <2>3, <2>4, now \in Nat, now >= retry, retry \in Int, length \in Nat
  <1> QED BY <1>1, <1>2 DEF History!Overflow

LEMMA HistoryWaitsEnough ==
    History!TypeOK /\ History!WithinLimits /\ History!RefusalsAreBrief => History!RetryIsLongEnough
  <1> SUFFICES ASSUME History!TypeOK, History!WithinLimits, History!RefusalsAreBrief,
                      NEW t \in told, now >= t.retry
               PROVE  IF t.long THEN History!LongOverflow(t.request) <= 0
                      ELSE History!BurstOverflow(t.request) <= 0
    BY DEF History!RetryIsLongEnough
  <1> USE HistoryLimits
  <1>1. now \in Nat /\ t.request \in Series /\ t.retry \in Int /\ History!Weight(t.request) \in Nat
    BY DEF History!TypeOK, History!RefusalsAreBrief, History!Weight
  <1>2. CASE t.long
    <2>1. History!LeavesInTime(window, History!Weight(t.request), MaxPaced, PacingWindow, t.retry)
      BY <1>2 DEF History!RefusalsAreBrief
    <2>2. window \in Seq(Nat)
      BY DEF History!WithinLimits, History!Counts
    <2>3. History!LongOverflow(t.request) <= 0
      BY <1>1, <2>1, <2>2, HistoryWaitEnds DEF History!LongOverflow
    <2> QED BY <1>2, <2>3
  <1>3. CASE ~t.long
    <2>1. History!LeavesInTime(bursts[History!Key(t.request)], History!Weight(t.request), MaxBurst,
                               Burst, t.retry)
      BY <1>3 DEF History!RefusalsAreBrief
    <2>2. History!Key(t.request) \in History!Keys
      BY DEF History!Key, History!Keys
    <2>3. bursts[History!Key(t.request)] \in Seq(Nat)
      BY <2>2 DEF History!WithinLimits, History!Counts
    <2>4. History!BurstOverflow(t.request) <= 0
      BY <1>1, <2>1, <2>3, HistoryWaitEnds DEF History!BurstOverflow
    <2> QED BY <1>3, <2>4
  <1> QED BY <1>2, <1>3

\* A purge takes as much from the wait of a refusal as from the stamps.
LEMMA HistoryPurgeWaits ==
    ASSUME now \in Nat, NEW q \in Seq(Nat), NEW length \in Nat, NEW max \in Nat, NEW weight \in Nat,
           NEW retry, History!LeavesInTime(q, weight, max, length, retry)
    PROVE  History!LeavesInTime(History!Recent(q, length), weight, max, length, retry)
  <1> DEFINE left == History!Recent(q, length)
  <1>1. PICK k \in 0..Len(q) : /\ Len(left) = Len(q) - k
                               /\ \A j \in 1..(Len(q) - k) : left[j] = q[k + j]
    BY HistoryRecent
  <1>2. left \in Seq(Nat) /\ Len(q) \in Nat
    BY HistoryRecent
  <1> HIDE DEF left
  <1>3. ASSUME NEW j \in 1..((Len(left) + weight) - max)
        PROVE  j \in DOMAIN left /\ left[j] + length <= retry
    <2>1. k + j \in 1..((Len(q) + weight) - max) /\ j \in Nat /\ j >= 1
      BY <1>1, <1>2
    <2>2. k + j \in DOMAIN q /\ q[k + j] + length <= retry
      BY <2>1 DEF History!LeavesInTime, History!Overflow
    <2>3. j \in 1..(Len(q) - k)
      BY <1>1, <1>2, <2>1, <2>2
    <2>4. DOMAIN left = 1..(Len(q) - k)
      BY <1>1, <1>2
    <2>5. left[j] = q[k + j]
      BY <1>1, <2>3
    <2> QED BY <2>2, <2>3, <2>4, <2>5
  <1>4. History!LeavesInTime(left, weight, max, length, retry)
    BY <1>3 DEF History!LeavesInTime, History!Overflow
  <1> QED BY <1>4 DEF left

\* A refusal names the time when its last stamp too many has left.
LEMMA HistoryRefusalWaits ==
    ASSUME now \in Nat, NEW q, NEW requests, NEW length \in Nat, NEW max \in Nat, max >= 2,
           History!Counts(q, requests, length, max), NEW r,
           NEW over, over = History!Overflow(q, History!Weight(r), max), over > 0,
           NEW retry, retry = now + History!RetryAfter(q, over, length)
    PROVE  retry \in Int /\ History!LeavesInTime(q, History!Weight(r), max, length, retry)
  <1>1. /\ q \in Seq(Nat) /\ Len(q) <= max /\ Len(q) \in Nat
        /\ \A j \in DOMAIN q : \A i \in 1..j : q[i] <= q[j]
    BY DEF History!Counts
  <1>2. over \in 1..Len(q)
    <2>1. History!Weight(r) \in 1..2
      BY DEF History!Weight
    <2> QED BY <1>1, <2>1 DEF History!Overflow
  <1>3. q[over] \in Nat
    BY <1>1, <1>2
  <1>4. retry = q[over] + length
    BY <1>3 DEF History!RetryAfter
  <1>5. \A j \in 1..over : j \in DOMAIN q /\ q[j] + length <= retry
    <2> TAKE j \in 1..over
    <2>1. j \in DOMAIN q /\ q[j] \in Nat /\ q[j] <= q[over]
      BY <1>1, <1>2
    <2> QED BY <1>3, <1>4, <2>1
  <1> QED BY <1>3, <1>4, <1>5 DEF History!LeavesInTime

\* Purged, the stamps are within the limits still.
LEMMA HistoryPurged ==
    ASSUME History!TypeOK, History!WithinLimits
    PROVE  /\ History!Counts(History!Recent(window, PacingWindow), Series, PacingWindow, MaxPaced)
           /\ \A k \in History!Keys :
                 History!Counts(History!Recent(bursts[k], Burst), {r \in Series : History!Key(r) = k},
                                Burst, MaxBurst)
  <1> USE HistoryLimits
  <1>1. now \in Nat
    BY DEF History!TypeOK
  <1>2. History!Counts(History!Recent(window, PacingWindow), Series, PacingWindow, MaxPaced)
    BY <1>1, HistoryPurgeCounts DEF History!WithinLimits
  <1>3. ASSUME NEW k \in History!Keys
        PROVE  History!Counts(History!Recent(bursts[k], Burst), {r \in Series : History!Key(r) = k},
                              Burst, MaxBurst)
    BY <1>1, <1>3, HistoryPurgeCounts DEF History!WithinLimits
  <1> QED BY <1>2, <1>3

\* A step that admits nothing, and may purge.
LEMMA HistoryFallLimits ==
    ASSUME History!TypeOK, History!WithinLimits, now' \in Nat, now' >= now, HistoryLoadsFall,
           \/ UNCHANGED <<window, bursts>>
           \/ /\ window' = History!Recent(window, PacingWindow)
              /\ bursts' = [k \in History!Keys |-> History!Recent(bursts[k], Burst)]
    PROVE  History!WithinLimits'
  <1> USE HistoryLimits
  <1>1. now \in Nat /\ sent \in Seq(History!Sent)
    BY DEF History!TypeOK
  <1>2. \A requests, times : /\ History!Load(requests, times)' \in Int
                             /\ History!Load(requests, times)' <= History!Load(requests, times)
    BY DEF HistoryLoadsFall
  <1>3. CASE UNCHANGED <<window, bursts>>
    <2>1. HistoryCountsNext(window, Series, PacingWindow, MaxPaced)
      BY <1>1, <1>2, HistoryFallKeeps DEF History!WithinLimits
    <2>2. ASSUME NEW k \in History!Keys
          PROVE  HistoryCountsNext(bursts[k], {r \in Series : History!Key(r) = k}, Burst, MaxBurst)
      BY <1>1, <1>2, <2>2, HistoryFallKeeps DEF History!WithinLimits
    <2>3. window' = window /\ bursts' = bursts
      BY <1>3
    <2>4. bursts' = [k \in History!Keys |-> bursts'[k]]
      BY <2>3 DEF History!WithinLimits
    <2> QED BY <2>1, <2>2, <2>3, <2>4, HistoryLimitsNext
  <1>4. CASE /\ window' = History!Recent(window, PacingWindow)
             /\ bursts' = [k \in History!Keys |-> History!Recent(bursts[k], Burst)]
    <2>1. HistoryCountsNext(History!Recent(window, PacingWindow), Series, PacingWindow, MaxPaced)
      BY <1>1, <1>2, HistoryPurged, HistoryFallKeeps
    <2>2. ASSUME NEW k \in History!Keys
          PROVE  HistoryCountsNext(History!Recent(bursts[k], Burst),
                                   {r \in Series : History!Key(r) = k}, Burst, MaxBurst)
      BY <1>1, <1>2, <2>2, HistoryPurged, HistoryFallKeeps
    <2>3. \A k \in History!Keys : bursts'[k] = History!Recent(bursts[k], Burst)
      BY <1>4
    <2>4. bursts' = [k \in History!Keys |-> bursts'[k]]
      BY <1>4
    <2> QED BY <1>4, <2>1, <2>2, <2>3, <2>4, HistoryLimitsNext
  <1> QED BY <1>3, <1>4

\* A call is admitted.
LEMMA HistoryAdmitLimits ==
    ASSUME History!TypeOK, History!WithinLimits, now' = now, NEW r \in Series, HistoryLoadsGrow(r),
           History!LongOverflow(r) <= 0, History!BurstOverflow(r) <= 0, History!Admit(r)
    PROVE  History!WithinLimits'
  <1> USE HistoryLimits
  <1>1. /\ now \in Nat /\ sent \in Seq(History!Sent) /\ History!Weight(r) \in Nat
        /\ History!Key(r) \in History!Keys
    BY DEF History!TypeOK, History!Weight, History!Key, History!Keys
  <1>2. /\ window' = History!Recent(window, PacingWindow) \o History!Times(History!Weight(r))
        /\ bursts' = [k \in History!Keys |-> History!Recent(bursts[k], Burst)
                         \o (IF k = History!Key(r) THEN History!Times(History!Weight(r)) ELSE <<>>)]
    BY DEF History!Admit
  <1>3. HistoryCountsNext(window', Series, PacingWindow, MaxPaced)
    <2> DEFINE left == History!Recent(window, PacingWindow)
    <2>1. History!Counts(left, Series, PacingWindow, MaxPaced)
      BY HistoryPurged
    <2>2. Len(left) + History!Weight(r) <= MaxPaced
      <3>1. Len(left) \in Nat
        BY <2>1 DEF History!Counts
      <3>2. (Len(left) + History!Weight(r)) - MaxPaced <= 0
        <4>1. History!Overflow(left, History!Weight(r), MaxPaced) <= 0
          BY DEF History!LongOverflow
        <4> HIDE DEF left
        <4> QED BY <1>1, <3>1, <4>1 DEF History!Overflow
      <3> HIDE DEF left
      <3> QED BY <1>1, <3>1, <3>2
    <2> HIDE DEF left
    <2>3. HistoryCountsNext(left \o History!Times(History!Weight(r)), Series, PacingWindow, MaxPaced)
      BY <1>1, <2>1, <2>2, HistoryGrowCounts
    <2> QED BY <1>2, <2>3 DEF left
  <1>4. ASSUME NEW k \in History!Keys
        PROVE  HistoryCountsNext(bursts'[k], {s \in Series : History!Key(s) = k}, Burst, MaxBurst)
    <2> DEFINE left == History!Recent(bursts[k], Burst)
               some == {s \in Series : History!Key(s) = k}
    <2>1. History!Counts(left, some, Burst, MaxBurst)
      BY <1>4, HistoryPurged
    <2>2. left \in Seq(Nat)
      BY <2>1 DEF History!Counts
    <2>3. CASE k = History!Key(r)
      <3>1. r \in some
        BY <2>3
      <3>2. Len(left) + History!Weight(r) <= MaxBurst
        <4>1. History!Overflow(left, History!Weight(r), MaxBurst) <= 0
          BY <2>3 DEF History!BurstOverflow
        <4>2. Len(left) \in Nat
          BY <2>2
        <4> HIDE DEF left
        <4> QED BY <1>1, <4>1, <4>2 DEF History!Overflow
      <3>3. bursts'[k] = left \o History!Times(History!Weight(r))
        BY <1>2, <1>4, <2>3
      <3> HIDE DEF left, some
      <3>4. HistoryCountsNext(left \o History!Times(History!Weight(r)), some, Burst, MaxBurst)
        BY <1>1, <2>1, <3>1, <3>2, HistoryGrowCounts
      <3> QED BY <3>3, <3>4 DEF some
    <2>4. CASE k # History!Key(r)
      <3>1. r \notin some
        BY <2>4
      <3>2. bursts'[k] = left
        <4>1. bursts'[k] = left \o <<>>
          BY <1>2, <1>4, <2>4
        <4> HIDE DEF left
        <4> QED BY <2>2, <4>1
      <3> HIDE DEF left, some
      <3>3. \A times : /\ History!Load(some, times)' \in Int
                       /\ History!Load(some, times)' <= History!Load(some, times)
        <4> TAKE times
        <4>1. /\ History!Load(some, times)' \in Int
              /\ History!Load(some, times)' <= History!Load(some, times)
                    + (IF r \in some /\ now \in times THEN History!Weight(r) ELSE 0)
          BY DEF HistoryLoadsGrow
        <4>2. History!Load(some, times) \in Nat
          BY <1>1, HistoryLoads
        <4> QED BY <3>1, <4>1, <4>2
      <3>4. HistoryCountsNext(left, some, Burst, MaxBurst)
        BY <1>1, <2>1, <3>3, HistoryFallKeeps
      <3> QED BY <3>2, <3>4 DEF some
    <2> QED BY <2>3, <2>4
  <1>5. bursts' = [k \in History!Keys |-> bursts'[k]]
    BY <1>2
  <1> QED BY <1>3, <1>4, <1>5, HistoryLimitsNext

\* A refusal: those that were told before have less to wait for, and the new one its last stamp.
LEMMA HistoryRefuses ==
    ASSUME History!TypeOK, History!WithinLimits, History!RefusalsAreBrief, NEW r \in Series,
           History!LongOverflow(r) > 0 \/ History!BurstOverflow(r) > 0, History!Refuse(r)
    PROVE  History!RefusalsAreBrief'
  <1> USE HistoryLimits
  <1> DEFINE left == History!Recent(window, PacingWindow)
             rest(k) == History!Recent(bursts[k], Burst)
  <1>1. /\ now \in Nat /\ \A s : History!Weight(s) \in Nat
        /\ \A s : History!Key(s) \in History!Keys
        /\ window \in Seq(Nat) /\ \A k \in History!Keys : bursts[k] \in Seq(Nat)
    <2>1. now \in Nat
      BY DEF History!TypeOK
    <2>2. /\ \A s : History!Weight(s) \in Nat
          /\ \A s : History!Key(s) \in History!Keys
      BY DEF History!Weight, History!Key, History!Keys
    <2>3. window \in Seq(Nat) /\ \A k \in History!Keys : bursts[k] \in Seq(Nat)
      BY DEF History!WithinLimits, History!Counts
    <2> QED BY <2>1, <2>2, <2>3
  <1>2. /\ window' = left /\ \A k \in History!Keys : bursts'[k] = rest(k)
        /\ told' = told \cup
             {IF History!LongOverflow(r) > 0
              THEN [request |-> r, long |-> TRUE,
                    retry |-> now + History!RetryAfter(left, History!LongOverflow(r), PacingWindow)]
              ELSE [request |-> r, long |-> FALSE,
                    retry |-> now + History!RetryAfter(rest(History!Key(r)), History!BurstOverflow(r),
                                                       Burst)]}
    BY DEF History!Refuse
  <1> DEFINE Brief(t) ==
        /\ t.request \in Series /\ t.retry \in Int
        /\ IF t.long
           THEN History!LeavesInTime(left, History!Weight(t.request), MaxPaced, PacingWindow, t.retry)
           ELSE History!LeavesInTime(rest(History!Key(t.request)), History!Weight(t.request), MaxBurst,
                                     Burst, t.retry)
  <1>3. ASSUME NEW t \in told
        PROVE  Brief(t)
    <2>1. /\ t.request \in Series /\ t.retry \in Int
          /\ t.long => History!LeavesInTime(window, History!Weight(t.request), MaxPaced, PacingWindow,
                                            t.retry)
          /\ ~t.long => History!LeavesInTime(bursts[History!Key(t.request)],
                                  History!Weight(t.request), MaxBurst, Burst, t.retry)
      BY <1>3 DEF History!RefusalsAreBrief
    <2>2. t.long => History!LeavesInTime(left, History!Weight(t.request), MaxPaced, PacingWindow,
                                         t.retry)
      BY <1>1, <2>1, HistoryPurgeWaits
    <2>3. ~t.long => History!LeavesInTime(rest(History!Key(t.request)), History!Weight(t.request),
                                          MaxBurst, Burst, t.retry)
      BY <1>1, <2>1, HistoryPurgeWaits
    <2> QED BY <2>1, <2>2, <2>3
  <1>4. ASSUME History!LongOverflow(r) > 0, NEW t,
               t = [request |-> r, long |-> TRUE,
                    retry |-> now + History!RetryAfter(left, History!LongOverflow(r), PacingWindow)]
        PROVE  Brief(t)
    <2>1. /\ t.request = r /\ t.long
          /\ t.retry = now + History!RetryAfter(left, History!LongOverflow(r), PacingWindow)
      BY <1>4
    <2>2. History!LongOverflow(r) = History!Overflow(left, History!Weight(r), MaxPaced)
      BY DEF History!LongOverflow
    <2>3. History!Counts(left, Series, PacingWindow, MaxPaced)
      BY HistoryPurged
    <2>4. t.retry \in Int /\ History!LeavesInTime(left, History!Weight(r), MaxPaced, PacingWindow, t.retry)
      BY <1>1, <1>4, <2>1, <2>2, <2>3, HistoryRefusalWaits
    <2> QED BY <2>1, <2>4
  <1>5. ASSUME ~(History!LongOverflow(r) > 0), NEW t,
               t = [request |-> r, long |-> FALSE,
                    retry |-> now + History!RetryAfter(rest(History!Key(r)), History!BurstOverflow(r),
                                                       Burst)]
        PROVE  Brief(t)
    <2>1. /\ t.request = r /\ ~t.long
          /\ t.retry = now + History!RetryAfter(rest(History!Key(r)), History!BurstOverflow(r), Burst)
      BY <1>5
    <2>2. History!BurstOverflow(r) = History!Overflow(rest(History!Key(r)), History!Weight(r), MaxBurst)
      BY DEF History!BurstOverflow
    <2>3. History!Counts(rest(History!Key(r)), {s \in Series : History!Key(s) = History!Key(r)},
                         Burst, MaxBurst)
      BY <1>1, HistoryPurged
    <2>4. /\ t.retry \in Int
          /\ History!LeavesInTime(rest(History!Key(r)), History!Weight(r), MaxBurst, Burst, t.retry)
      BY <1>1, <1>5, <2>1, <2>2, <2>3, HistoryRefusalWaits
    <2> QED BY <2>1, <2>4
  <1> HIDE DEF left, rest
  <1>6. \A t \in told' : Brief(t)
    BY <1>2, <1>3, <1>4, <1>5
  <1>7. \A t \in told' :
           /\ t.request \in Series /\ t.retry \in Int
           /\ IF t.long
              THEN History!LeavesInTime(window', History!Weight(t.request), MaxPaced, PacingWindow,
                                        t.retry)
              ELSE History!LeavesInTime(bursts'[History!Key(t.request)], History!Weight(t.request),
                                        MaxBurst, Burst, t.retry)
    BY <1>1, <1>2, <1>6
  <1> QED BY <1>7 DEF History!RefusalsAreBrief, History!Weight, History!Key, History!LeavesInTime,
                      History!Overflow

\* At the start nothing is counted.
LEMMA HistoryInitCounts ==
    ASSUME History!Init, NEW requests, NEW length \in Nat, NEW max \in Nat
    PROVE  History!Counts(<<>>, requests, length, max)
  <1>1. sent = <<>> /\ \A c \in Caller : calls[c].at = "idle"
    BY DEF History!Init, History!Call0
  <1>2. \A some, times : History!Load(some, times) = 0
    <2>1. ASSUME NEW some, NEW times
          PROVE  History!Admitted(some, times) = 0
      <3>1. HistorySent(some, times) = {} /\ HistoryWaits(some, times) = {}
        BY <1>1 DEF HistorySent, HistoryWaits
      <3>2. Cardinality({}) = 0
        BY FS_EmptySet
      <3> QED BY <3>1, <3>2, HistoryAdmitted
    <2> QED BY <2>1 DEF History!Load
  <1> QED BY <1>2 DEF History!Counts

LEMMA HistoryInits == History!Init => History!IInv
  <1> SUFFICES ASSUME History!Init PROVE History!IInv
    OBVIOUS
  <1> USE HistoryLimits
  <1>1. History!Spaced
    BY HistoryStarts
  <1>2. History!TypeOK
    BY <1>1 DEF History!Spaced
  <1>3. History!WithinLimits
    <2>1. /\ window = <<>> /\ bursts = [k \in History!Keys |-> <<>>]
      BY DEF History!Init, History!Keys
    <2> QED BY <2>1, HistoryInitCounts DEF History!WithinLimits
  <1>4. History!RefusalsAreBrief
    BY DEF History!Init, History!RefusalsAreBrief
  <1> QED BY <1>1, <1>2, <1>3, <1>4, HistoryKeepsPace, HistoryWaitsEnough DEF History!IInv

\* The same implications of the next state.
LEMMA HistoryFollowsNext ==
    History!TypeOK' /\ History!WithinLimits' /\ History!RefusalsAreBrief'
       => History!PacingKept' /\ History!RetryIsLongEnough'
  <1>1. History!TypeOK /\ History!WithinLimits /\ History!RefusalsAreBrief
           => History!PacingKept /\ History!RetryIsLongEnough
    BY HistoryKeepsPace, HistoryWaitsEnough
  <1> QED BY <1>1, PTL

\* A step that neither admits nor refuses a request.
LEMMA HistoryIdles ==
    ASSUME History!TypeOK, History!WithinLimits, History!RefusalsAreBrief,
           now' \in Nat, now' >= now, HistoryLoadsFall, UNCHANGED <<window, bursts, told>>
    PROVE  History!WithinLimits' /\ History!RefusalsAreBrief'
  <1>1. History!WithinLimits'
    BY HistoryFallLimits
  <1>2. History!RefusalsAreBrief'
    BY DEF History!RefusalsAreBrief, History!Weight, History!Key, History!LeavesInTime,
       History!Overflow
  <1> QED BY <1>1, <1>2

\* A call is looked up, refused or admitted.
LEMMA HistoryQualifiedLimits ==
    ASSUME History!Spaced, History!WithinLimits, History!RefusalsAreBrief,
           NEW c \in Caller, History!Qualified(c)
    PROVE  History!WithinLimits' /\ History!RefusalsAreBrief'
  <1> DEFINE r == calls[c].request
  <1>1. /\ History!TypeOK /\ r \in Series /\ now \in Nat /\ now' = now /\ sent' = sent
        /\ calls[c].at = "qualifying" /\ sent \in Seq(History!Sent)
        /\ calls \in [Caller -> History!Call]
    BY DEF History!Spaced, History!TypeOK, History!LookedInVain, History!Qualified
  <1>2. CASE History!LongOverflow(r) > 0 \/ History!BurstOverflow(r) > 0
    <2>1. /\ History!Refuse(r)
          /\ calls' = [calls EXCEPT ![c].at = "done", ![c].answer = "paced"]
      BY <1>2 DEF History!Qualified
    <2>2. \A d \in Caller : calls'[d].at = "waiting" => calls'[d] = calls[d]
      <3>1. calls[c] \in History!Call /\ calls'[c].at = "done"
        BY <1>1, <2>1 DEF History!Call
      <3>2. \A d \in Caller \ {c} : calls'[d] = calls[d]
        BY <1>1, <2>1
      <3> QED BY <3>1, <3>2
    <2>3. HistoryLoadsFall
      BY <1>1, <2>2, HistoryIdleLoads
    <2>4. History!WithinLimits'
      <3>1. /\ window' = History!Recent(window, PacingWindow)
            /\ bursts' = [k \in History!Keys |-> History!Recent(bursts[k], Burst)]
        BY <2>1 DEF History!Refuse
      <3>2. now' >= now
        BY <1>1
      <3> QED BY <1>1, <2>3, <3>1, <3>2, HistoryFallLimits
    <2>5. History!RefusalsAreBrief'
      BY <1>1, <1>2, <2>1, HistoryRefuses
    <2> QED BY <2>4, <2>5
  <1>3. CASE ~(History!LongOverflow(r) > 0 \/ History!BurstOverflow(r) > 0)
    <2>1. /\ History!Admit(r) /\ told' = {}
          /\ calls' = [calls EXCEPT ![c].at = "waiting", ![c].began = now, ![c].admitted = now]
      BY <1>3 DEF History!Qualified
    <2>2. /\ calls'[c].admitted = now /\ calls'[c].request = r
          /\ \A d \in Caller \ {c} : calls'[d] = calls[d]
      <3>1. calls[c] \in History!Call
        BY <1>1
      <3> QED BY <1>1, <2>1, <3>1 DEF History!Call
    <2>3. HistoryLoadsGrow(r)
      BY <1>1, <2>2, HistoryAdmitsOne
    <2>4. History!LongOverflow(r) <= 0 /\ History!BurstOverflow(r) <= 0
      <3>1. History!LongOverflow(r) \in Int /\ History!BurstOverflow(r) \in Int
        <4>1. /\ History!Recent(window, PacingWindow) \in Seq(Nat)
              /\ History!Recent(bursts[History!Key(r)], Burst) \in Seq(Nat)
          <5>1. History!Key(r) \in History!Keys
            BY DEF History!Key, History!Keys
          <5> QED BY <1>1, <5>1, HistoryPurged DEF History!Counts
        <4>2. /\ Len(History!Recent(window, PacingWindow)) \in Nat
              /\ Len(History!Recent(bursts[History!Key(r)], Burst)) \in Nat
          BY <4>1, LenProperties
        <4>3. History!Weight(r) \in Nat
          BY DEF History!Weight
        <4> QED BY <4>2, <4>3, HistoryLimits DEF History!LongOverflow, History!BurstOverflow,
               History!Overflow
      <3> QED BY <1>3, <3>1
    <2>5. History!WithinLimits'
      BY <1>1, <2>1, <2>3, <2>4, HistoryAdmitLimits
    <2>6. History!RefusalsAreBrief'
      BY <2>1 DEF History!RefusalsAreBrief
    <2> QED BY <2>5, <2>6
  <1> QED BY <1>2, <1>3

\* The other steps of a call, and the clock's: nothing is admitted.
LEMMA HistoryOthersFall ==
    ASSUME History!Spaced, History!TypeOK',
           \/ \E c \in Caller : \/ History!Start(c) \/ History!Send(c) \/ History!Rows(c)
                                \/ History!NoRows(c) \/ History!TimesOut(c)
           \/ History!Tick
    PROVE  HistoryLoadsFall
  <1>1. /\ sent \in Seq(History!Sent) /\ sent' \in Seq(History!Sent)
        /\ calls \in [Caller -> History!Call] /\ calls' \in [Caller -> History!Call]
    BY DEF History!Spaced, History!TypeOK
  <1>2. ASSUME NEW c \in Caller, sent' = sent, calls'[c].at # "waiting",
               \A d \in Caller \ {c} : calls'[d] = calls[d]
        PROVE  HistoryLoadsFall
    <2>1. \A d \in Caller : calls'[d].at = "waiting" => calls'[d] = calls[d]
      BY <1>2
    <2> QED BY <1>1, <1>2, <2>1, HistoryIdleLoads
  <1>3. ASSUME NEW c \in Caller, History!Start(c)
        PROVE  HistoryLoadsFall
    <2>1. PICK s \in Series :
            calls' = [calls EXCEPT ![c] =
                        IF History!Cached(s)
                        THEN [History!Call0 EXCEPT !.at = "done", !.request = s, !.answer = "rows"]
                        ELSE [History!Call0 EXCEPT !.at = "qualifying", !.request = s,
                                                   !.known = History!Succeeded]]
      BY <1>3 DEF History!Start
    <2>2. calls'[c].at # "waiting" /\ \A d \in Caller \ {c} : calls'[d] = calls[d]
      BY <1>1, <2>1 DEF History!Call0
    <2> QED BY <1>2, <1>3, <2>2 DEF History!Start
  <1>4. ASSUME NEW c \in Caller, History!NoRows(c) \/ History!TimesOut(c)
        PROVE  HistoryLoadsFall
    <2>1. ASSUME NEW answer,
                 calls' = [calls EXCEPT ![c].at = "done", ![c].ended = now, ![c].answer = answer]
          PROVE  calls'[c].at # "waiting" /\ \A d \in Caller \ {c} : calls'[d] = calls[d]
      <3>1. calls[c] \in History!Call
        BY <1>1
      <3> QED BY <1>1, <2>1, <3>1 DEF History!Call
    <2>2. CASE History!NoRows(c)
      BY <1>2, <2>1, <2>2 DEF History!NoRows
    <2>3. CASE History!TimesOut(c)
      BY <1>2, <2>1, <2>3 DEF History!TimesOut
    <2> QED BY <1>4, <2>2, <2>3
  <1>5. ASSUME NEW c \in Caller, History!Rows(c)
        PROVE  HistoryLoadsFall
    <2>1. /\ calls' = [calls EXCEPT ![c].at = "done", ![c].answer = "rows"]
          /\ sent' = [sent EXCEPT ![History!LastOf(c)].done = TRUE]
      BY <1>5 DEF History!Rows
    <2>2. /\ DOMAIN sent' = DOMAIN sent
          /\ \A i \in DOMAIN sent : /\ sent'[i].request = sent[i].request
                                    /\ sent'[i].admitted = sent[i].admitted
      <3>1. \A i \in DOMAIN sent : sent[i] \in History!Sent
        BY <1>1
      <3> QED BY <2>1, <3>1 DEF History!Sent
    <2>3. \A d \in Caller : calls'[d].at = "waiting" => calls'[d] = calls[d]
      <3>1. calls[c] \in History!Call
        BY <1>1
      <3>2. calls'[c].at = "done" /\ \A d \in Caller \ {c} : calls'[d] = calls[d]
        BY <1>1, <2>1, <3>1 DEF History!Call
      <3> QED BY <3>2
    <2> QED BY <1>1, <2>2, <2>3, HistoryIdleLoads
  <1>6. ASSUME NEW c \in Caller, History!Send(c)
        PROVE  HistoryLoadsFall
    <2> DEFINE new == [request |-> calls[c].request, at |-> now, by |-> c,
                       admitted |-> calls[c].admitted, known |-> calls[c].known, done |-> FALSE]
    <2>1. /\ calls[c].at = "waiting" /\ sent' = Append(sent, new)
          /\ calls' = [calls EXCEPT ![c].at = "open", ![c].sentAt = now]
      BY <1>6 DEF History!Send
    <2>2. calls[c] \in History!Call
      BY <1>1
    <2>3. calls'[c].at # "waiting" /\ \A d \in Caller \ {c} : calls'[d] = calls[d]
      BY <1>1, <2>1, <2>2 DEF History!Call
    <2>4. new \in History!Sent
      <3>1. calls[c].request \in Series /\ now \in 0..MaxTime
        BY <2>1 DEF History!Spaced, History!LookedInVain, History!TypeOK
      <3> QED BY <2>2, <3>1 DEF History!Call, History!Sent
    <2>5. new.request = calls[c].request /\ new.admitted = calls[c].admitted
      OBVIOUS
    <2> HIDE DEF new
    <2> QED BY <1>1, <2>1, <2>3, <2>4, <2>5, HistorySendLoads
  <1>7. CASE History!Tick
    BY <1>1, <1>7, HistoryIdleLoads DEF History!Tick
  <1> QED BY <1>3, <1>4, <1>5, <1>6, <1>7

\* Every step.
LEMMA HistoryPaces ==
    ASSUME History!IInv, [History!Next]_(History!hvars)
    PROVE  History!IInv'
  <1>1. History!Spaced'
    BY HistoryKeeps DEF History!IInv
  <1>2. /\ History!Spaced /\ History!TypeOK /\ History!TypeOK'
        /\ History!WithinLimits /\ History!RefusalsAreBrief /\ now \in Nat /\ sent \in Seq(History!Sent)
    BY <1>1 DEF History!IInv, History!Spaced, History!TypeOK
  <1>3. History!WithinLimits' /\ History!RefusalsAreBrief'
    <2>1. CASE UNCHANGED History!hvars
      <3>1. UNCHANGED <<now, window, bursts, calls, sent, told>>
        BY <2>1 DEF History!hvars, History!pacer
      <3>2. HistoryLoadsFall
        BY <1>2, <3>1, HistoryIdleLoads
      <3>3. now' \in Nat /\ now' >= now
        BY <1>2, <3>1
      <3> QED BY <1>2, <3>1, <3>2, <3>3, HistoryIdles
    <2>2. ASSUME NEW c \in Caller, History!Qualified(c)
          PROVE  History!WithinLimits' /\ History!RefusalsAreBrief'
      BY <1>2, <2>2, HistoryQualifiedLimits
    <2>3. CASE \/ \E c \in Caller : \/ History!Start(c) \/ History!Send(c) \/ History!Rows(c)
                                    \/ History!NoRows(c) \/ History!TimesOut(c)
               \/ History!Tick
      <3>1. HistoryLoadsFall
        BY <1>2, <2>3, HistoryOthersFall
      <3>2. now' = now \/ now' = now + 1
        BY <2>3 DEF History!Start, History!Send, History!Rows, History!NoRows, History!TimesOut,
           History!Tick
      <3>3. now' \in Nat /\ now' >= now
        BY <1>2, <3>2
      <3>4. UNCHANGED <<window, bursts, told>>
        BY <2>3 DEF History!Start, History!Send, History!Rows, History!NoRows, History!TimesOut,
           History!Tick, History!pacer
      <3> QED BY <1>2, <3>1, <3>3, <3>4, HistoryIdles
    <2> QED BY <2>1, <2>2, <2>3 DEF History!Next
  <1> QED BY <1>1, <1>2, <1>3, HistoryFollowsNext DEF History!IInv

\* And the pacing rules hold: in every window of IBKR's the requests that were sent when they
\* were admitted weigh no more than its limit, in all and of each contract; and whoever asks
\* again when a refusal said to (retry after) finds room under the rule that refused it, if
\* nobody was admitted meanwhile.
THEOREM RequestsArePaced == History!Spec => []History!IInv
  <1>1. History!Init => History!IInv
    BY HistoryInits
  <1>2. History!IInv /\ [History!Next]_(History!hvars) => History!IInv'
    BY HistoryPaces
  <1> QED BY <1>1, <1>2, PTL DEF History!Spec

-----------------------------------------------------------------------------
(* Previews on their way to a token (PreviewSteps) *)

\* The instance's sizes of sets are the usual ones.
LEMMA PreviewsSizes ==
    \A S : /\ Previews!IsFiniteSet(S) = IsFiniteSet(S)
           /\ Previews!Cardinality(S) = Cardinality(S)
  <1>1. \A S : Previews!IsFiniteSet(S) = IsFiniteSet(S)
    BY DEF Previews!IsFiniteSet, IsFiniteSet
  <1>2. \A S : Previews!Cardinality(S) = Cardinality(S)
    BY DEF Previews!Cardinality, Cardinality
  <1> QED BY <1>1, <1>2

\* What the invariant says of one preview, without its record and its slot.
PreviewRight(s) ==
    /\ s \in Previews!Step /\ Previews!OnItsWay(s)
    /\ s.at = "issued" =>
          /\ s.passed = Previews!WhatIfs(s.kind) /\ s.flaw # "limits"
          /\ s.market => s.price = "within"
          /\ Previews!TicksChecked(s)

\* What a step may make of a preview: one that goes on or is over, and that no what-if
\* refused.
PreviewNext(s) ==
    /\ PreviewRight(s) /\ s.why # "whatif" /\ s.at \in Previews!Waiting \cup Previews!Over

\* A preview between two waits: where it is from is open.
OnTheGo(s) ==
    /\ s \in Previews!Step /\ s.why = "" /\ s.passed = 0
    /\ s.market => s.kind \notin {"exercise", "cancel_all"}
    /\ s.ticks = "fit" => s.flaw # "ticks"

LEMMA IdleIsStep == Previews!Idle \in Previews!Step
  BY DEF Previews!Idle, Previews!Flaw, Previews!Step, Previews!Kind, Previews!Waiting, Previews!Over

LEMMA RejectedNext ==
    ASSUME NEW s \in Previews!Step,
           NEW why \in {"gate", "rate", "limit", "ticks", "not connected", "qualify"}
    PROVE  PreviewNext(Previews!Rejected(s, why)) /\ Previews!Rejected(s, why).at = "rejected"
  <1>1. Previews!Rejected(s, why) \in Previews!Step
    <2>1. Previews!Idle \in Previews!Step
      BY IdleIsStep
    <2>2. "rejected" \in Previews!Over /\ "qualify" \in Previews!Waiting
      BY DEF Previews!Waiting, Previews!Over
    <2> QED BY <2>1, <2>2 DEF Previews!Rejected, Previews!Step
  <1>2. LET t == Previews!Rejected(s, why)
        IN t.at = "rejected" /\ t.why = why /\ t.market = FALSE /\ t.ticks = "unchecked"
    BY DEF Previews!Rejected, Previews!Idle
  <1> QED BY <1>1, <1>2 DEF PreviewNext, PreviewRight, Previews!OnItsWay, Previews!Over

LEMMA PreviewsWhatIf ==
    ASSUME NEW what \in Previews!Kind
    PROVE  /\ Previews!WhatIfs(what) \in 0..2
           /\ what \notin {"exercise", "cancel_all"} => Previews!WhatIfs(what) > 0
           /\ what \in {"exercise", "cancel_all"} => Previews!WhatIfs(what) = 0
           /\ Previews!WhatIfs(what) = CASE what = "oca" -> 2
                                         [] what \in {"exercise", "cancel_all"} -> 0
                                         [] OTHER -> 1
  BY DEF Previews!WhatIfs, Previews!Kind

LEMMA ToWhatIfNext ==
    ASSUME NEW s \in Previews!Step, s.why = "", s.passed <= Previews!WhatIfs(s.kind),
           s.market => s.price = "within" /\ s.kind \notin {"exercise", "cancel_all"},
           s.flaw # "limits", Previews!TicksChecked(s)
    PROVE  PreviewNext(Previews!ToWhatIf(s))
  <1>1. s.kind \in Previews!Kind /\ s.passed \in 0..2 /\ s.passed <= Previews!WhatIfs(s.kind)
    BY DEF Previews!Step
  <1>2. Previews!WhatIfs(s.kind) \in 0..2
    BY <1>1, PreviewsWhatIf
  <1>3. CASE s.passed # Previews!WhatIfs(s.kind) /\ link = "down"
    <2>1. Previews!ToWhatIf(s) = Previews!Rejected(s, "not connected")
      BY <1>3 DEF Previews!ToWhatIf
    <2> QED BY <2>1, RejectedNext
  <1>4. ASSUME NEW at \in {"issued", "whatif"},
               at = "issued" => s.passed = Previews!WhatIfs(s.kind),
               at = "whatif" => s.passed < Previews!WhatIfs(s.kind)
        PROVE  PreviewNext([s EXCEPT !.at = at])
    <2> DEFINE t == [s EXCEPT !.at = at]
    <2>1. /\ t \in Previews!Step /\ t.at = at /\ t.why = "" /\ t.passed = s.passed
          /\ t.kind = s.kind /\ t.market = s.market /\ t.price = s.price
          /\ t.flaw = s.flaw /\ t.ticks = s.ticks /\ t.details = s.details
      BY DEF Previews!Step, Previews!Waiting, Previews!Over
    <2> HIDE DEF t
    <2>2. Previews!TicksChecked(t)
      BY <2>1 DEF Previews!TicksChecked
    <2>3. Previews!OnItsWay(t)
      BY <1>4, <2>1, <2>2 DEF Previews!OnItsWay, Previews!TicksChecked
    <2>4. PreviewNext(t)
      BY <1>4, <2>1, <2>2, <2>3 DEF PreviewNext, PreviewRight, Previews!Waiting, Previews!Over
    <2> QED BY <2>4 DEF t
  <1>5. CASE s.passed = Previews!WhatIfs(s.kind)
    BY <1>4, <1>5 DEF Previews!ToWhatIf
  <1>6. CASE s.passed # Previews!WhatIfs(s.kind) /\ link # "down"
    <2>1. s.passed < Previews!WhatIfs(s.kind)
      BY ONLY <1>1, <1>2, <1>6
    <2>2. PreviewNext([s EXCEPT !.at = "whatif"])
      BY <1>4, <2>1
    <2> QED BY <1>6, <2>2 DEF Previews!ToWhatIf
  <1> QED BY <1>3, <1>5, <1>6

LEMMA ToLimitsNext ==
    ASSUME NEW s, OnTheGo(s), Previews!TicksChecked(s)
    PROVE  PreviewNext(Previews!ToLimits(s))
  <1>1. CASE s.flaw = "limits" \/ (s.market /\ s.price # "within")
    BY <1>1, RejectedNext DEF Previews!ToLimits, OnTheGo
  <1>2. CASE ~(s.flaw = "limits" \/ (s.market /\ s.price # "within"))
    <2>1. s.kind \in Previews!Kind
      BY DEF OnTheGo, Previews!Step
    <2>2. s.passed <= Previews!WhatIfs(s.kind)
      <3>1. Previews!WhatIfs(s.kind) \in 0..2
        BY <2>1, PreviewsWhatIf
      <3>2. s.passed = 0
        BY DEF OnTheGo
      <3> QED BY ONLY <3>1, <3>2
    <2>3. PreviewNext(Previews!ToWhatIf(s))
      BY <1>2, <2>2, ToWhatIfNext DEF OnTheGo
    <2> QED BY <1>2, <2>3 DEF Previews!ToLimits
  <1> QED BY <1>1, <1>2

\* A field that is learned on the way changes nothing else.
LEMMA LearnedOnTheGo ==
    ASSUME NEW s, OnTheGo(s)
    PROVE  /\ \A price \in {"none", "within", "over"} : OnTheGo([s EXCEPT !.price = price])
           /\ OnTheGo([s EXCEPT !.details = TRUE])
           /\ [s EXCEPT !.details = TRUE].kind = s.kind
           /\ [s EXCEPT !.details = TRUE].details
  BY DEF OnTheGo, Previews!Step

\* A price that is learned leaves the check of the increments as it is.
LEMMA PriceKeepsTicks ==
    ASSUME NEW s \in Previews!Step, Previews!TicksChecked(s), NEW price
    PROVE  Previews!TicksChecked([s EXCEPT !.price = price])
  BY DEF Previews!TicksChecked, Previews!Step

LEMMA ToPricesNext ==
    ASSUME NEW s, OnTheGo(s), Previews!TicksChecked(s)
    PROVE  PreviewNext(Previews!ToPrices(s))
  <1>1. CASE ~s.market
    BY <1>1, ToLimitsNext DEF Previews!ToPrices
  <1>2. CASE s.market /\ link = "down"
    BY <1>2, RejectedNext DEF Previews!ToPrices, OnTheGo
  <1>3. CASE s.market /\ link # "down" /\ ticker \in {"within", "over"}
    <2>1. /\ OnTheGo([s EXCEPT !.price = ticker])
          /\ Previews!TicksChecked([s EXCEPT !.price = ticker])
      BY <1>3, LearnedOnTheGo, PriceKeepsTicks DEF OnTheGo
    <2>2. Previews!ToPrices(s) = Previews!ToLimits([s EXCEPT !.price = ticker])
      BY <1>3 DEF Previews!ToPrices
    <2> QED BY <2>1, <2>2, ToLimitsNext
  <1>4. CASE s.market /\ link # "down" /\ ticker \notin {"within", "over"}
    <2> DEFINE t == [s EXCEPT !.at = "prices"]
    <2>1. /\ t \in Previews!Step /\ t.at = "prices" /\ t.why = "" /\ t.passed = 0
          /\ t.kind = s.kind /\ t.market = s.market
          /\ t.flaw = s.flaw /\ t.ticks = s.ticks /\ t.details = s.details
      BY DEF OnTheGo, Previews!Step, Previews!Waiting
    <2>2. Previews!ToPrices(s) = t
      BY <1>4 DEF Previews!ToPrices
    <2> HIDE DEF t
    <2>3. Previews!TicksChecked(t)
      BY <2>1 DEF Previews!TicksChecked
    <2> QED BY <2>1, <2>2, <2>3 DEF OnTheGo, PreviewNext, PreviewRight, Previews!OnItsWay,
                                    Previews!Waiting
  <1> QED BY <1>1, <1>2, <1>3, <1>4

LEMMA CheckedNext ==
    ASSUME NEW s, OnTheGo(s), NEW heard \in BOOLEAN
    PROVE  PreviewNext(Previews!Checked(s, heard))
  <1>1. CASE heard /\ s.flaw = "ticks"
    BY <1>1, RejectedNext DEF Previews!Checked, OnTheGo
  <1>2. CASE ~(heard /\ s.flaw = "ticks")
    <2> DEFINE t == [s EXCEPT !.ticks = IF heard THEN "fit" ELSE "unknown"]
    <2>1. /\ t \in Previews!Step /\ t.why = s.why /\ t.passed = s.passed /\ t.kind = s.kind
          /\ t.market = s.market /\ t.flaw = s.flaw
          /\ t.ticks = IF heard THEN "fit" ELSE "unknown"
      BY DEF OnTheGo, Previews!Step
    <2>2. Previews!Checked(s, heard) = Previews!ToPrices(t)
      BY <1>2 DEF Previews!Checked
    <2> HIDE DEF t
    <2>3. OnTheGo(t) /\ Previews!TicksChecked(t)
      BY <1>2, <2>1 DEF OnTheGo, Previews!TicksChecked
    <2> QED BY <2>2, <2>3, ToPricesNext
  <1> QED BY <1>1, <1>2

LEMMA ToRuleNext ==
    ASSUME NEW s, OnTheGo(s), s.kind = "modify" \/ s.details
    PROVE  PreviewNext(Previews!ToRule(s))
  <1>1. CASE ~Previews!ChecksTicks(s.kind) \/ ~s.details
    <2>1. s.kind \in Previews!Kind
      BY DEF OnTheGo, Previews!Step
    <2>2. Previews!TicksChecked(s)
      BY <1>1, <2>1 DEF OnTheGo, Previews!TicksChecked, Previews!ChecksTicks, Previews!Kind
    <2> QED BY <1>1, <2>2, ToPricesNext DEF Previews!ToRule
  <1>2. CASE Previews!ChecksTicks(s.kind) /\ s.details /\ rule = "known"
    BY <1>2, CheckedNext DEF Previews!ToRule
  <1>3. CASE Previews!ChecksTicks(s.kind) /\ s.details /\ rule # "known" /\ link = "down"
    BY <1>3, RejectedNext DEF Previews!ToRule, OnTheGo
  <1>4. CASE Previews!ChecksTicks(s.kind) /\ s.details /\ rule # "known" /\ link # "down"
    <2> DEFINE t == [s EXCEPT !.at = "rule"]
    <2>1. /\ t \in Previews!Step /\ t.at = "rule" /\ t.why = "" /\ t.passed = 0
          /\ t.kind = s.kind /\ t.market = s.market /\ t.flaw = s.flaw /\ t.ticks = s.ticks
      BY DEF OnTheGo, Previews!Step, Previews!Waiting
    <2>2. Previews!ToRule(s) = t
      BY <1>4 DEF Previews!ToRule
    <2> HIDE DEF t
    <2> QED BY <2>1, <2>2 DEF OnTheGo, PreviewNext, PreviewRight, Previews!OnItsWay,
                              Previews!Waiting
  <1> QED BY <1>1, <1>2, <1>3, <1>4

LEMMA QualifiedNext ==
    ASSUME NEW s, OnTheGo(s)
    PROVE  PreviewNext(Previews!Qualified(s))
  <1>1. CASE s.kind \notin {"exercise", "cancel_all"}
    BY <1>1, ToRuleNext, LearnedOnTheGo DEF Previews!Qualified
  <1>2. CASE s.kind \in {"exercise", "cancel_all"} /\ s.flaw # "limits"
    <2>1. /\ s \in Previews!Step /\ s.kind \in Previews!Kind /\ s.passed = 0 /\ ~s.market
          /\ s.why = "" /\ Previews!TicksChecked(s)
      BY <1>2 DEF OnTheGo, Previews!Step, Previews!TicksChecked
    <2>2. PreviewNext(Previews!ToWhatIf(s))
      <3>1. Previews!WhatIfs(s.kind) = 0
        BY <1>2, <2>1, PreviewsWhatIf
      <3>2. s.passed = 0
        BY <2>1
      <3>3. s.passed <= Previews!WhatIfs(s.kind)
        BY ONLY <3>1, <3>2
      <3> QED BY <1>2, <2>1, <3>3, ToWhatIfNext
    <2> QED BY <1>2, <2>2 DEF Previews!Qualified
  <1>3. CASE s.kind \in {"exercise", "cancel_all"} /\ s.flaw = "limits"
    BY <1>3, RejectedNext DEF Previews!Qualified, OnTheGo
  <1> QED BY <1>1, <1>2, <1>3

\* A preview that waits for anything but a what-if is on the go.
LEMMA WaitsOnTheGo ==
    ASSUME NEW s, PreviewRight(s), s.at \in {"qualify", "rule", "prices"}
    PROVE  OnTheGo(s)
  BY DEF PreviewRight, OnTheGo, Previews!OnItsWay

\* What a failed wait makes of a preview; of a what-if, its refusal.
LEMMA FailedNext ==
    ASSUME NEW s, PreviewRight(s), s.at \in Previews!Waiting,
           NEW why \in {"not connected", "qualify"}
    PROVE  PreviewNext(Previews!Failed(s, why))
  <1>1. s.at \in {"qualify", "rule", "prices", "whatif"} /\ s \in Previews!Step
    BY DEF Previews!Waiting, PreviewRight
  <1>2. CASE s.at = "rule"
    BY <1>2, WaitsOnTheGo, CheckedNext DEF Previews!Failed
  <1>3. CASE s.at = "prices"
    <2>1. OnTheGo(s) /\ Previews!TicksChecked(s)
      BY <1>3, WaitsOnTheGo DEF PreviewRight, Previews!OnItsWay
    <2>2. /\ OnTheGo([s EXCEPT !.price = "none"])
          /\ Previews!TicksChecked([s EXCEPT !.price = "none"])
      BY <1>1, <2>1, LearnedOnTheGo, PriceKeepsTicks
    <2> QED BY <1>3, <2>2, ToLimitsNext DEF Previews!Failed
  <1>4. CASE s.at = "qualify" /\ s.kind = "modify"
    BY <1>4, WaitsOnTheGo, ToRuleNext DEF Previews!Failed
  <1>5. CASE s.at = "whatif" \/ (s.at = "qualify" /\ s.kind # "modify")
    <2>1. Previews!Failed(s, why) = Previews!Rejected(s, why)
      BY <1>5 DEF Previews!Failed
    <2> QED BY <1>1, <2>1, RejectedNext
  <1> QED BY <1>1, <1>2, <1>3, <1>4, <1>5

-----------------------------------------------------------------------------
\* The invariant is what it says of every preview, of its record and of the slots.
PreviewStores ==
    /\ previews \in [Caller -> Previews!Step] /\ records \in [Caller -> Nat]
    /\ taken \in 0..MaxPreviews /\ link \in {"down", "reading", "trading"}
    /\ ticker \in {"old", "within", "over"} /\ rule \in {"unknown", "known"}

PreviewsEach ==
    /\ \A c \in Caller : PreviewRight(previews[c])
    /\ refused \subseteq Caller
    /\ \A c \in refused : previews[c].at = "rejected"
    /\ \A c \in Caller : previews[c].why = "whatif" => c \in refused
    /\ \A c \in Caller : records[c] = IF previews[c].at \in Previews!Over THEN 1 ELSE 0

PreviewSlots == IsFiniteSet(Previews!Holding) /\ Cardinality(Previews!Holding) <= taken

LEMMA PreviewsHold == Previews!IInv <=> PreviewStores /\ PreviewsEach /\ PreviewSlots
  <1>1. Previews!SlotsCover <=> PreviewSlots
    BY PreviewsSizes DEF PreviewSlots, Previews!SlotsCover
  <1>2. ASSUME PreviewStores, PreviewsEach PROVE Previews!TokensAreChecked
    <2> SUFFICES ASSUME NEW c \in Caller, previews[c].at = "issued"
                 PROVE  /\ previews[c].passed = Previews!WhatIfs(previews[c].kind)
                        /\ c \notin refused /\ previews[c].flaw # "limits"
                        /\ previews[c].market => previews[c].price = "within"
                        /\ Previews!TicksChecked(previews[c])
      BY <1>2, PreviewsWhatIf DEF Previews!TokensAreChecked, PreviewStores, Previews!Step
    <2> QED BY <1>2 DEF PreviewsEach, PreviewRight
  <1>3. ASSUME Previews!IInv PROVE PreviewStores /\ PreviewsEach
    <2>1. PreviewStores /\ refused \subseteq Caller
      BY <1>3 DEF Previews!IInv, Previews!TypeOK, PreviewStores
    <2>2. ASSUME NEW c \in Caller PROVE PreviewRight(previews[c])
      <3>1. previews[c] \in Previews!Step /\ previews[c].kind \in Previews!Kind
        BY <2>1 DEF PreviewStores, Previews!Step
      <3>2. Previews!OnItsWay(previews[c])
        BY <1>3 DEF Previews!IInv, Previews!StepsInOrder
      <3>3. previews[c].at = "issued" =>
              /\ previews[c].passed = Previews!WhatIfs(previews[c].kind)
              /\ previews[c].flaw # "limits"
              /\ previews[c].market => previews[c].price = "within"
              /\ Previews!TicksChecked(previews[c])
        BY <1>3, <3>1, PreviewsWhatIf DEF Previews!IInv, Previews!TokensAreChecked
      <3> QED BY <3>1, <3>2, <3>3 DEF PreviewRight
    <2> QED BY <1>3, <2>1, <2>2 DEF PreviewsEach, Previews!IInv, Previews!StepsInOrder,
                                    Previews!RefusalsAreOwn, Previews!AuditedOnce
  <1>4. ASSUME PreviewStores, PreviewsEach, PreviewSlots PROVE Previews!IInv
    <2>1. Previews!TypeOK
      BY <1>4 DEF PreviewStores, PreviewsEach, Previews!TypeOK
    <2>2. Previews!StepsInOrder /\ Previews!RefusalsAreOwn /\ Previews!AuditedOnce
      BY <1>4 DEF PreviewsEach, PreviewRight, Previews!StepsInOrder, Previews!RefusalsAreOwn,
                  Previews!AuditedOnce
    <2> QED BY <1>1, <1>2, <1>4, <2>1, <2>2 DEF Previews!IInv
  <1>5. Previews!IInv => PreviewSlots
    BY <1>1 DEF Previews!IInv
  <1> QED BY <1>3, <1>4, <1>5

LEMMA PreviewsHoldNext == PreviewStores' /\ PreviewsEach' /\ PreviewSlots' => Previews!IInv'
  BY PreviewsHold, PTL

LEMMA PreviewsStart == Previews!Init => Previews!IInv
  <1> SUFFICES ASSUME Previews!Init PROVE Previews!IInv
    OBVIOUS
  <1>1. /\ Previews!Idle \in Previews!Step /\ Previews!Idle.at = "idle" /\ Previews!Idle.why = ""
        /\ Previews!Idle.market = FALSE /\ Previews!Idle.ticks = "unchecked"
    BY IdleIsStep DEF Previews!Idle
  <1>2. PreviewRight(Previews!Idle)
    BY <1>1 DEF PreviewRight, Previews!OnItsWay
  <1>3. MaxPreviews \in Nat
    BY AnswerPartsAssumption DEF Previews!PreviewAssumption
  <1>4. PreviewStores
    <2>1. 0 \in 0..MaxPreviews
      BY <1>3
    <2> QED BY <1>1, <2>1 DEF Previews!Init, PreviewStores
  <1>5. PreviewsEach
    BY <1>1, <1>2 DEF Previews!Init, PreviewsEach, Previews!Over
  <1>6. Previews!Holding = {}
    BY <1>1 DEF Previews!Init, Previews!Holding, Previews!Waiting
  <1>7. PreviewSlots
    BY <1>6, FS_EmptySet DEF PreviewSlots, Previews!Init
  <1> QED BY <1>4, <1>5, <1>7, PreviewsHold

\* A step keeps what holds of each preview if it takes those it moves, which are not over,
\* a step further, and audits those it ends.
LEMMA PreviewsMove ==
    ASSUME PreviewStores, PreviewsEach,
           NEW moved \in SUBSET Caller,
           previews' = [c \in Caller |-> previews'[c]],
           records' = Previews!Audit(previews, previews'),
           \A c \in Caller \ moved : previews'[c] = previews[c],
           \A c \in moved : /\ previews[c].at \notin Previews!Over
                            /\ PreviewRight(previews'[c])
                            /\ previews'[c].at \in Previews!Waiting \cup Previews!Over
                            /\ previews'[c].why = "whatif" => c \in refused',
           refused \subseteq refused', refused' \subseteq Caller,
           \A c \in refused' \ refused : previews'[c].at = "rejected"
    PROVE  /\ PreviewsEach'
           /\ previews' \in [Caller -> Previews!Step] /\ records' \in [Caller -> Nat]
  <1>1. \A c \in Caller : PreviewRight(previews'[c])
    BY DEF PreviewsEach
  <1>2. previews' \in [Caller -> Previews!Step]
    BY <1>1 DEF PreviewRight
  <1>3. \A c \in Caller : records'[c] = records[c] +
             (IF previews'[c].at \in Previews!Over /\ previews[c].at \notin Previews!Over
              THEN 1 ELSE 0)
    BY DEF Previews!Audit
  <1>4. \A c \in Caller : records'[c] = IF previews'[c].at \in Previews!Over THEN 1 ELSE 0
    <2> SUFFICES ASSUME NEW c \in Caller
                 PROVE  records'[c] = IF previews'[c].at \in Previews!Over THEN 1 ELSE 0
      OBVIOUS
    <2>1. records[c] = IF previews[c].at \in Previews!Over THEN 1 ELSE 0
      BY DEF PreviewsEach
    <2>2. previews[c].at \in Previews!Over => previews'[c].at \in Previews!Over
      OBVIOUS
    <2> QED BY <1>3, <2>1, <2>2
  <1>5. records' \in [Caller -> Nat]
    <2>1. records' = [c \in Caller |-> records'[c]]
      BY DEF Previews!Audit
    <2> QED BY <1>4, <2>1
  <1>6. \A c \in refused' : previews'[c].at = "rejected"
    BY DEF PreviewsEach, Previews!Over
  <1>7. \A c \in Caller : previews'[c].why = "whatif" => c \in refused'
    BY DEF PreviewsEach
  <1> QED BY <1>1, <1>2, <1>4, <1>5, <1>6, <1>7 DEF PreviewsEach

\* No step but a preview's first takes up a place that needs a slot.
LEMMA SlotsAreKeptOn ==
    ASSUME PreviewStores, PreviewSlots, taken' = taken,
           \A c \in Caller : previews[c].at \in {"idle", "rejected"} => previews'[c].at \in {"idle", "rejected"}
    PROVE  PreviewSlots'
  <1>1. Previews!Holding' \subseteq Previews!Holding
    <2> SUFFICES ASSUME NEW c \in Caller, previews'[c].at \in Previews!Waiting \cup {"issued"}
                 PROVE  previews[c].at \in Previews!Waiting \cup {"issued"}
      BY DEF Previews!Holding
    <2>1. previews[c].at \in {"idle", "rejected"} \cup Previews!Waiting \cup {"issued"}
      BY DEF PreviewStores, Previews!Step, Previews!Over
    <2> QED BY <2>1 DEF Previews!Waiting
  <1>2. IsFiniteSet(Previews!Holding')
    BY <1>1, FS_Subset DEF PreviewSlots
  <1>3. Cardinality(Previews!Holding') <= Cardinality(Previews!Holding)
    BY <1>1, FS_Subset DEF PreviewSlots
  <1> QED BY <1>2, <1>3, FS_Subset, FS_CardinalityType DEF PreviewSlots, PreviewStores

-----------------------------------------------------------------------------
\* A preview that is put a step further, and asks for no slot.
LEMMA PutKeeps ==
    ASSUME Previews!IInv, NEW c \in Caller, NEW s, Previews!Put(c, s),
           previews[c].at \in Previews!Waiting, PreviewNext(s),
           taken' = taken, link' = link, ticker' = ticker, rule' \in {rule, "known"},
           refused' = refused \/ (refused' = refused \cup {c} /\ s.at = "rejected")
    PROVE  Previews!IInv'
  <1>1. PreviewStores /\ PreviewsEach /\ PreviewSlots
    BY PreviewsHold
  <1>2. /\ previews' = [previews EXCEPT ![c] = s]
        /\ records' = Previews!Audit(previews, previews')
    BY DEF Previews!Put
  <1>3. /\ previews'[c] = s /\ \A d \in Caller \ {c} : previews'[d] = previews[d]
        /\ previews' = [d \in Caller |-> previews'[d]]
    BY <1>1, <1>2 DEF PreviewStores
  <1>4. /\ refused \subseteq Caller /\ refused' \subseteq Caller /\ refused \subseteq refused'
        /\ \A d \in refused' \ refused : previews'[d].at = "rejected"
    BY <1>1, <1>3 DEF PreviewsEach
  <1>5. /\ previews[c].at \notin Previews!Over /\ previews[c].at \notin {"idle", "rejected"}
    BY DEF Previews!Waiting, Previews!Over
  <1>6. /\ PreviewRight(s) /\ s.why # "whatif" /\ s.at \in Previews!Waiting \cup Previews!Over
    BY DEF PreviewNext
  <1>7. /\ PreviewsEach'
        /\ previews' \in [Caller -> Previews!Step] /\ records' \in [Caller -> Nat]
    <2>1. /\ {c} \in SUBSET Caller
          /\ \A d \in {c} : /\ previews[d].at \notin Previews!Over
                            /\ PreviewRight(previews'[d])
                            /\ previews'[d].at \in Previews!Waiting \cup Previews!Over
                            /\ previews'[d].why = "whatif" => d \in refused'
      BY <1>3, <1>5, <1>6
    <2>2. /\ refused \subseteq refused' /\ refused' \subseteq Caller
          /\ \A d \in refused' \ refused : previews'[d].at = "rejected"
      BY <1>4
    <2> QED BY ONLY <1>1, <1>2, <1>3, <1>4, <2>1, <2>2, PreviewsMove
  <1>8. PreviewSlots'
    BY <1>1, <1>3, <1>5, SlotsAreKeptOn
  <1>9. PreviewStores'
    BY <1>1, <1>7 DEF PreviewStores
  <1> QED BY <1>7, <1>8, <1>9, PreviewsHoldNext

\* A preview that begins: it waits with a slot, or is refused at once.
LEMMA PreviewsBegin ==
    ASSUME Previews!IInv, NEW c \in Caller, NEW s, Previews!Put(c, s),
           previews[c].at = "idle", PreviewNext(s),
           \/ s.at = "rejected" /\ taken' = taken
           \/ taken < MaxPreviews /\ taken' = taken + 1,
           UNCHANGED <<rule, ticker, link, refused>>
    PROVE  Previews!IInv'
  <1>1. PreviewStores /\ PreviewsEach /\ PreviewSlots
    BY PreviewsHold
  <1>2. /\ previews' = [previews EXCEPT ![c] = s]
        /\ records' = Previews!Audit(previews, previews')
    BY DEF Previews!Put
  <1>3. /\ previews'[c] = s /\ \A d \in Caller \ {c} : previews'[d] = previews[d]
        /\ previews' = [d \in Caller |-> previews'[d]]
    BY <1>1, <1>2 DEF PreviewStores
  <1>4. refused \subseteq Caller
    BY <1>1 DEF PreviewsEach
  <1>5. previews[c].at \notin Previews!Over
    BY DEF Previews!Over
  <1>6. /\ PreviewRight(s) /\ s.why # "whatif" /\ s.at \in Previews!Waiting \cup Previews!Over
    BY DEF PreviewNext
  <1>7. /\ PreviewsEach'
        /\ previews' \in [Caller -> Previews!Step] /\ records' \in [Caller -> Nat]
    <2>1. /\ {c} \in SUBSET Caller
          /\ \A d \in {c} : /\ previews[d].at \notin Previews!Over
                            /\ PreviewRight(previews'[d])
                            /\ previews'[d].at \in Previews!Waiting \cup Previews!Over
                            /\ previews'[d].why = "whatif" => d \in refused'
      BY <1>3, <1>5, <1>6
    <2>2. /\ refused \subseteq refused' /\ refused' \subseteq Caller
          /\ \A d \in refused' \ refused : previews'[d].at = "rejected"
      BY <1>4
    <2> QED BY ONLY <1>1, <1>2, <1>3, <1>4, <2>1, <2>2, PreviewsMove
  <1>8. MaxPreviews \in Nat /\ taken \in 0..MaxPreviews
    BY <1>1, AnswerPartsAssumption DEF Previews!PreviewAssumption, PreviewStores
  <1>9. PreviewStores'
    <2>1. taken' \in 0..MaxPreviews
      BY <1>8
    <2> QED BY <1>1, <1>7, <2>1 DEF PreviewStores
  <1>10. CASE s.at = "rejected" /\ taken' = taken
    <2>1. PreviewSlots'
      BY <1>1, <1>3, <1>10, SlotsAreKeptOn
    <2> QED BY <1>7, <1>9, <2>1, PreviewsHoldNext
  <1>11. CASE taken' = taken + 1
    <2>1. Previews!Holding' \subseteq Previews!Holding \cup {c}
      BY <1>3 DEF Previews!Holding
    <2>2. /\ IsFiniteSet(Previews!Holding \cup {c})
          /\ Cardinality(Previews!Holding \cup {c}) <= Cardinality(Previews!Holding) + 1
          /\ Cardinality(Previews!Holding) \in Nat
          /\ Cardinality(Previews!Holding \cup {c}) \in Nat
      <3>1. IsFiniteSet(Previews!Holding)
        BY <1>1 DEF PreviewSlots
      <3>2. /\ IsFiniteSet(Previews!Holding \cup {c})
            /\ Cardinality(Previews!Holding \cup {c}) =
                 IF c \in Previews!Holding THEN Cardinality(Previews!Holding)
                 ELSE Cardinality(Previews!Holding) + 1
        BY <3>1, FS_AddElement
      <3>3. Cardinality(Previews!Holding) \in Nat
        BY <3>1, FS_CardinalityType
      <3> QED BY ONLY <3>2, <3>3
    <2>3. /\ IsFiniteSet(Previews!Holding') /\ Cardinality(Previews!Holding') \in Nat
          /\ Cardinality(Previews!Holding') <= Cardinality(Previews!Holding \cup {c})
      BY <2>1, <2>2, FS_Subset, FS_CardinalityType
    <2>4. Cardinality(Previews!Holding) <= taken
      BY <1>1 DEF PreviewSlots
    <2>5. Cardinality(Previews!Holding') <= taken'
      BY <1>8, <1>11, <2>2, <2>3, <2>4
    <2>6. PreviewSlots'
      BY <2>3, <2>5 DEF PreviewSlots
    <2> QED BY <1>7, <1>9, <2>6, PreviewsHoldNext
  <1> QED BY <1>10, <1>11

\* The first wait of a preview that asks for the contract.
LEMMA BegunOnTheGo ==
    ASSUME NEW what \in Previews!Kind, NEW flaw \in Previews!Flaw, NEW market \in BOOLEAN,
           market => what \notin {"exercise", "cancel_all"}, NEW s,
           s = [Previews!Idle EXCEPT !.kind = what, !.flaw = flaw, !.market = market,
                                     !.at = "qualify"]
    PROVE  OnTheGo(s) /\ PreviewNext(s) /\ s.at = "qualify"
  <1>1. /\ s.at = "qualify" /\ s.why = "" /\ s.passed = 0 /\ s.kind = what /\ s.market = market
        /\ s.ticks = "unchecked" /\ s \in Previews!Step
    <2>1. /\ s.at = "qualify" /\ s.why = "" /\ s.passed = 0 /\ s.kind = what
          /\ s.market = market /\ s.ticks = "unchecked"
      BY DEF Previews!Idle
    <2>2. "qualify" \in Previews!Waiting
      BY DEF Previews!Waiting
    <2>3. s \in Previews!Step
      BY <2>2, IdleIsStep DEF Previews!Step
    <2> QED BY <2>1, <2>3
  <1>2. OnTheGo(s)
    BY <1>1 DEF OnTheGo
  <1>3. PreviewNext(s)
    BY <1>1 DEF PreviewNext, PreviewRight, Previews!OnItsWay, Previews!Waiting
  <1> QED BY <1>1, <1>2, <1>3

LEMMA PreviewsBeginKeeps ==
    ASSUME Previews!IInv, NEW c \in Caller, NEW what \in PreviewKinds, NEW flaw \in Previews!Flaw,
           NEW market \in BOOLEAN, Previews!Begin(c, what, flaw, market)
    PROVE  Previews!IInv'
  <1> DEFINE s == [Previews!Idle EXCEPT !.kind = what, !.flaw = flaw, !.market = market,
                                        !.at = "qualify"]
             then == IF link # "trading" THEN Previews!Rejected(s, "gate")
                     ELSE IF taken = MaxPreviews THEN Previews!Rejected(s, "rate") ELSE s
  <1>0. market => what \notin {"exercise", "cancel_all"}
    BY Zenon DEF Previews!Begin
  <1>1. /\ previews[c].at = "idle" /\ Previews!Put(c, then)
        /\ taken' = (IF previews'[c].at = "qualify" THEN taken + 1 ELSE taken)
        /\ UNCHANGED <<rule, ticker, link, refused>>
    BY DEF Previews!Begin
  <1>2. what \in Previews!Kind /\ MaxPreviews \in Nat
    BY AnswerPartsAssumption DEF Previews!PreviewAssumption
  <1>3. PreviewStores
    BY PreviewsHold
  <1>4. previews'[c] = then /\ taken \in 0..MaxPreviews
    BY <1>1, <1>3 DEF Previews!Put, PreviewStores
  <1>5. OnTheGo(s) /\ PreviewNext(s) /\ s.at = "qualify" /\ s \in Previews!Step
    <2>1. s = [Previews!Idle EXCEPT !.kind = what, !.flaw = flaw, !.market = market,
                                    !.at = "qualify"]
      OBVIOUS
    <2> HIDE DEF s
    <2>2. OnTheGo(s) /\ PreviewNext(s) /\ s.at = "qualify"
      BY <1>0, <1>2, <2>1, BegunOnTheGo, Zenon
    <2> QED BY <2>2 DEF OnTheGo
  <1> HIDE DEF s
  <1>6. CASE link # "trading" \/ taken = MaxPreviews
    <2>1. PICK why \in {"gate", "rate"} : then = Previews!Rejected(s, why)
      BY <1>6
    <2>2. PreviewNext(then) /\ then.at = "rejected"
      BY <1>5, <2>1, RejectedNext
    <2> HIDE DEF then
    <2>3. taken' = taken
      BY <1>1, <1>4, <2>2
    <2>4. /\ UNCHANGED <<rule, ticker, link, refused>> /\ Previews!Put(c, then)
          /\ previews[c].at = "idle" /\ c \in Caller /\ Previews!IInv
      BY <1>1
    <2> QED BY ONLY <2>2, <2>3, <2>4, PreviewsBegin
  <1>7. CASE ~(link # "trading" \/ taken = MaxPreviews)
    <2>1. then = s
      BY <1>7
    <2>2. taken < MaxPreviews
      BY <1>2, <1>4, <1>7
    <2> HIDE DEF then
    <2>3. taken' = taken + 1
      BY <1>1, <1>4, <1>5, <2>1
    <2>4. /\ UNCHANGED <<rule, ticker, link, refused>> /\ Previews!Put(c, s)
          /\ previews[c].at = "idle" /\ c \in Caller /\ Previews!IInv
      BY <1>1, <2>1
    <2> QED BY ONLY <1>5, <2>2, <2>3, <2>4, PreviewsBegin
  <1> QED BY <1>6, <1>7

LEMMA PreviewsBeginPlainKeeps ==
    ASSUME Previews!IInv, NEW c \in Caller, NEW flaw \in Previews!Flaw,
           NEW market \in BOOLEAN, Previews!BeginPlain(c, flaw, market)
    PROVE  Previews!IInv'
  <1> DEFINE s == [Previews!Idle EXCEPT !.kind = "modify", !.flaw = flaw, !.market = market,
                                        !.at = "qualify"]
  <1>1. /\ previews[c].at = "idle" /\ taken < MaxPreviews /\ Previews!Put(c, Previews!ToRule(s))
        /\ taken' = taken + 1 /\ UNCHANGED <<rule, ticker, link, refused>>
    BY DEF Previews!BeginPlain
  <1>2. OnTheGo(s) /\ s.kind = "modify"
    <2>1. s = [Previews!Idle EXCEPT !.kind = "modify", !.flaw = flaw, !.market = market,
                                    !.at = "qualify"]
      OBVIOUS
    <2>2. /\ s.kind = "modify"
          /\ "modify" \in Previews!Kind /\ "modify" \notin {"exercise", "cancel_all"}
      BY DEF Previews!Idle, Previews!Kind
    <2> HIDE DEF s
    <2> QED BY <2>1, <2>2, BegunOnTheGo
  <1> HIDE DEF s
  <1>3. PreviewNext(Previews!ToRule(s))
    BY <1>2, ToRuleNext
  <1> QED BY <1>1, <1>3, PreviewsBegin

LEMMA PreviewsAnswerKeeps ==
    ASSUME Previews!IInv, NEW c \in Caller, Previews!Answer(c)
    PROVE  Previews!IInv'
  <1>1. PreviewStores /\ PreviewRight(previews[c])
    BY PreviewsHold DEF PreviewsEach
  <1>2. /\ previews[c].at \in {"qualify", "rule", "prices", "whatif"}
        /\ previews[c].at \in Previews!Waiting
        /\ UNCHANGED <<taken, ticker, link, refused>>
    BY DEF Previews!Answer, Previews!Waiting
  <1>3. CASE previews[c].at = "qualify"
    <2>1. Previews!Put(c, Previews!Qualified(previews[c])) /\ rule' = rule
      BY <1>3 DEF Previews!Answer
    <2>2. PreviewNext(Previews!Qualified(previews[c]))
      BY <1>1, <1>3, WaitsOnTheGo, QualifiedNext
    <2> QED BY <1>2, <2>1, <2>2, PutKeeps
  <1>4. CASE previews[c].at = "rule"
    <2>1. Previews!Put(c, Previews!Checked(previews[c], TRUE)) /\ rule' = "known"
      BY <1>4 DEF Previews!Answer
    <2>2. PreviewNext(Previews!Checked(previews[c], TRUE))
      BY <1>1, <1>4, WaitsOnTheGo, CheckedNext
    <2> QED BY <1>2, <2>1, <2>2, PutKeeps
  <1>5. CASE previews[c].at = "prices"
    <2>1. PICK price \in {"within", "over"} :
             Previews!Put(c, Previews!ToLimits([previews[c] EXCEPT !.price = price]))
      BY <1>5 DEF Previews!Answer
    <2>2. rule' = rule
      BY <1>5 DEF Previews!Answer
    <2>3. previews[c] \in Previews!Step /\ Previews!TicksChecked(previews[c])
      BY <1>1, <1>5 DEF PreviewRight, Previews!OnItsWay
    <2>4. PreviewNext(Previews!ToLimits([previews[c] EXCEPT !.price = price]))
      BY <1>1, <1>5, <2>3, WaitsOnTheGo, LearnedOnTheGo, PriceKeepsTicks, ToLimitsNext
    <2> QED BY <1>2, <2>1, <2>2, <2>4, PutKeeps
  <1>6. CASE previews[c].at = "whatif"
    <2> DEFINE s == previews[c]
               t == [s EXCEPT !.passed = s.passed + 1]
    <2>1. Previews!Put(c, Previews!ToWhatIf(t)) /\ rule' = rule
      BY <1>6 DEF Previews!Answer
    <2>2. /\ s \in Previews!Step /\ s.why = "" /\ s.passed < Previews!WhatIfs(s.kind)
          /\ s.market => s.price = "within" /\ s.kind \notin {"exercise", "cancel_all"}
          /\ s.flaw # "limits" /\ Previews!TicksChecked(s)
      BY <1>1, <1>6 DEF PreviewRight, Previews!OnItsWay
    <2>3. /\ s.kind \in Previews!Kind /\ s.passed \in 0..2
          /\ s.passed < Previews!WhatIfs(s.kind)
      BY <2>2 DEF Previews!Step
    <2>4. Previews!WhatIfs(s.kind) \in 0..2
      BY <2>3, PreviewsWhatIf
    <2>5. s.passed + 1 \in 0..2 /\ s.passed + 1 <= Previews!WhatIfs(s.kind)
      BY ONLY <2>3, <2>4
    <2>6. /\ t \in Previews!Step /\ t.why = "" /\ t.passed = s.passed + 1 /\ t.kind = s.kind
          /\ t.market = s.market /\ t.price = s.price
          /\ t.flaw = s.flaw /\ t.ticks = s.ticks /\ t.details = s.details
      BY <2>2, <2>5 DEF Previews!Step
    <2> HIDE DEF t
    <2>7. Previews!TicksChecked(t)
      BY <2>2, <2>6 DEF Previews!TicksChecked
    <2>8. PreviewNext(Previews!ToWhatIf(t))
      BY <2>2, <2>5, <2>6, <2>7, ToWhatIfNext
    <2> QED BY <1>2, <2>1, <2>8, PutKeeps
  <1> QED BY <1>2, <1>3, <1>4, <1>5, <1>6

\* A preview whose what-if was refused.
LEMMA RefusedRight ==
    ASSUME NEW s \in Previews!Step
    PROVE  /\ Previews!Rejected(s, "whatif").at = "rejected"
           /\ PreviewRight(Previews!Rejected(s, "whatif"))
  <1> DEFINE t == Previews!Rejected(s, "whatif")
  <1>1. t.at = "rejected" /\ t.market = FALSE /\ t.ticks = "unchecked"
    BY DEF Previews!Rejected, Previews!Idle
  <1>2. t \in Previews!Step
    <2>1. Previews!Idle \in Previews!Step
      BY IdleIsStep
    <2>2. "rejected" \in Previews!Over /\ "whatif" \in Previews!Waiting
      BY DEF Previews!Waiting, Previews!Over
    <2> QED BY <2>1, <2>2 DEF Previews!Rejected, Previews!Step
  <1> HIDE DEF t
  <1>3. t.at = "rejected" /\ PreviewRight(t)
    BY <1>1, <1>2 DEF PreviewRight, Previews!OnItsWay
  <1> QED BY <1>3 DEF t

\* A refusal of the what-if of c ends its preview and no other.
LEMMA WhatIfsRefused ==
    ASSUME PreviewStores, PreviewsEach, PreviewSlots, NEW c \in Caller, NEW then,
           previews[c].at = "whatif", then.at = "rejected", PreviewRight(then),
           previews' = [d \in Caller |-> IF d = c THEN then ELSE previews[d]],
           records' = Previews!Audit(previews, previews'), refused' = refused \cup {c},
           UNCHANGED <<taken, rule, ticker, link>>
    PROVE  Previews!IInv'
  <1>1. /\ previews'[c] = then /\ \A d \in Caller \ {c} : previews'[d] = previews[d]
        /\ previews' = [d \in Caller |-> previews'[d]]
    OBVIOUS
  <1>2. /\ refused' \subseteq Caller /\ refused \subseteq refused' /\ c \in refused'
        /\ \A d \in refused' \ refused : previews'[d].at = "rejected"
    BY <1>1 DEF PreviewsEach
  <1>3. previews[c].at \notin Previews!Over /\ then.at \in Previews!Over
    BY DEF Previews!Over
  <1>4. /\ PreviewsEach'
        /\ previews' \in [Caller -> Previews!Step] /\ records' \in [Caller -> Nat]
    BY <1>1, <1>2, <1>3, PreviewsMove
  <1>5. PreviewSlots'
    BY <1>1, SlotsAreKeptOn
  <1>6. PreviewStores'
    BY <1>4 DEF PreviewStores
  <1> QED BY <1>4, <1>5, <1>6, PreviewsHoldNext

\* A failed wait; a what-if that fails is refused, and its own call knows it.
LEMMA PreviewsFailKeeps ==
    ASSUME Previews!IInv, NEW c \in Caller, Previews!Fail(c)
    PROVE  Previews!IInv'
  <1>1. PreviewStores /\ PreviewsEach /\ PreviewSlots /\ PreviewRight(previews[c])
    BY PreviewsHold DEF PreviewsEach
  <1> DEFINE s == previews[c]
             then == Previews!Failed(s, s.at)
  <1>2. /\ s.at \in Previews!Waiting /\ Previews!Put(c, then)
        /\ refused' = (IF s.at = "whatif" THEN refused \cup {c} ELSE refused)
        /\ UNCHANGED <<taken, rule, ticker, link>>
    BY DEF Previews!Fail
  <1>3. CASE s.at # "whatif"
    <2>1. then = Previews!Failed(s, "qualify")
      BY <1>2, <1>3 DEF Previews!Failed, Previews!Waiting
    <2>2. PreviewNext(then)
      BY <1>1, <1>2, <2>1, FailedNext
    <2> HIDE DEF then
    <2> QED BY <1>2, <1>3, <2>2, PutKeeps
  <1>4. CASE s.at = "whatif"
    <2>1. then = Previews!Rejected(s, "whatif")
      BY <1>4 DEF Previews!Failed
    <2>2. then.at = "rejected" /\ PreviewRight(then)
      BY <1>1, <2>1, RefusedRight DEF PreviewRight
    <2> HIDE DEF then
    <2>3. /\ previews' = [previews EXCEPT ![c] = then]
          /\ records' = Previews!Audit(previews, previews') /\ refused' = refused \cup {c}
      BY <1>2, <1>4 DEF Previews!Put
    <2>4. \A d \in Caller : previews'[d] = IF d = c THEN then ELSE previews[d]
      BY <1>1, <2>3 DEF PreviewStores
    <2>5. previews' = [d \in Caller |-> IF d = c THEN then ELSE previews[d]]
      BY <1>1, <2>3 DEF PreviewStores
    <2> QED BY <1>1, <1>2, <1>4, <2>2, <2>3, <2>5, WhatIfsRefused
  <1> QED BY <1>3, <1>4

\* The what-ifs of others go on, although they hear the error too.
LEMMA PreviewsReadOnlyKeeps ==
    ASSUME Previews!IInv, NEW c \in Caller, Previews!ReadOnly(c)
    PROVE  Previews!IInv'
  <1>1. PreviewStores /\ PreviewsEach /\ PreviewSlots /\ previews[c] \in Previews!Step
    BY PreviewsHold DEF PreviewStores
  <1> DEFINE then == Previews!Rejected(previews[c], "whatif")
  <1>2. /\ previews[c].at = "whatif"
        /\ previews' = [d \in Caller |-> IF d = c THEN then ELSE previews[d]]
        /\ records' = Previews!Audit(previews, previews') /\ refused' = refused \cup {c}
        /\ UNCHANGED <<taken, rule, ticker, link>>
    BY DEF Previews!ReadOnly, Previews!Ends
  <1>3. then.at = "rejected" /\ PreviewRight(then)
    BY <1>1, RefusedRight
  <1> HIDE DEF then
  <1> QED BY <1>1, <1>2, <1>3, WhatIfsRefused

\* A dropped session ends what waits, or leaves it to what needs no session.
LEMMA PreviewsDropKeeps ==
    ASSUME Previews!IInv, Previews!Drop
    PROVE  Previews!IInv'
  <1>1. PreviewStores /\ PreviewsEach /\ PreviewSlots
    BY PreviewsHold
  <1> DEFINE then(s) == IF s.at \in Previews!Waiting THEN Previews!Rejected(s, "not connected") ELSE s
             moved == {c \in Caller : previews[c].at \in Previews!Waiting}
  <1>2. /\ previews' = [c \in Caller |-> IF c \notin moved THEN previews[c]
                             ELSE then(Previews!Failed(previews[c], "not connected"))]
        /\ records' = Previews!Audit(previews, previews')
        /\ UNCHANGED <<taken, rule, ticker, refused>> /\ link' = "down"
    BY DEF Previews!Drop
  <1>3. ASSUME NEW s, PreviewNext(s) PROVE PreviewNext(then(s))
    BY <1>3, RejectedNext DEF PreviewNext, PreviewRight
  <1>4. \A c \in moved : PreviewNext(then(Previews!Failed(previews[c], "not connected")))
    BY <1>1, <1>3, FailedNext DEF PreviewsEach
  <1> HIDE DEF then
  <1>5. /\ previews' = [c \in Caller |-> previews'[c]]
        /\ \A c \in Caller \ moved : previews'[c] = previews[c]
        /\ \A c \in moved : PreviewNext(previews'[c])
    BY <1>2, <1>4
  <1>6. \A c \in moved : previews[c].at \notin Previews!Over /\ previews[c].at \notin {"idle", "rejected"}
    BY DEF Previews!Over, Previews!Waiting
  <1> HIDE DEF moved
  <1>7. moved \subseteq Caller /\ refused' = refused /\ refused \subseteq Caller
    BY <1>1, <1>2 DEF PreviewsEach, moved
  <1>8. /\ PreviewsEach'
        /\ previews' \in [Caller -> Previews!Step] /\ records' \in [Caller -> Nat]
    BY <1>1, <1>2, <1>5, <1>6, <1>7, PreviewsMove DEF PreviewNext
  <1>9. PreviewSlots'
    BY <1>1, <1>2, <1>5, <1>6, <1>7, SlotsAreKeptOn
  <1>10. PreviewStores'
    BY <1>1, <1>2, <1>8 DEF PreviewStores
  <1> QED BY <1>8, <1>9, <1>10, PreviewsHoldNext

\* What leaves the previews alone keeps the invariant.
LEMMA PreviewsStayKeep ==
    ASSUME Previews!IInv, UNCHANGED <<previews, taken, rule, records, refused>>,
           ticker' \in {"old", "within", "over"}, link' \in {"down", "reading", "trading"}
    PROVE  Previews!IInv'
  <1>1. PreviewStores /\ PreviewsEach /\ PreviewSlots
    BY PreviewsHold
  <1>2. PreviewStores'
    BY <1>1 DEF PreviewStores
  <1>3. PreviewsEach'
    BY <1>1 DEF PreviewsEach
  <1>4. PreviewSlots'
    BY <1>1 DEF PreviewSlots, Previews!Holding
  <1> QED BY <1>2, <1>3, <1>4, PreviewsHoldNext

LEMMA PreviewsKeep ==
    ASSUME Previews!IInv, [Previews!Next]_(Previews!vars)
    PROVE  Previews!IInv'
  <1>1. CASE \E c \in Caller, what \in PreviewKinds, flaw \in Previews!Flaw, market \in BOOLEAN :
                Previews!Begin(c, what, flaw, market)
    BY <1>1, PreviewsBeginKeeps
  <1>2. CASE \E c \in Caller, flaw \in Previews!Flaw, market \in BOOLEAN :
                Previews!BeginPlain(c, flaw, market)
    BY <1>2, PreviewsBeginPlainKeeps
  <1>3. CASE \E c \in Caller : Previews!Answer(c) \/ Previews!Fail(c) \/ Previews!ReadOnly(c)
    BY <1>3, PreviewsAnswerKeeps, PreviewsFailKeeps, PreviewsReadOnlyKeeps
  <1>4. PreviewStores
    BY PreviewsHold
  <1>5. CASE Previews!Ticks
    BY <1>4, <1>5, PreviewsStayKeep DEF Previews!Ticks, PreviewStores
  <1>6. CASE Previews!Drop
    BY <1>6, PreviewsDropKeeps
  <1>7. CASE \E how \in {"reading", "trading"} : Previews!Connect(how)
    BY <1>4, <1>7, PreviewsStayKeep DEF Previews!Connect, PreviewStores
  <1>8. CASE UNCHANGED Previews!vars
    BY <1>4, <1>8, PreviewsStayKeep DEF Previews!vars, PreviewStores
  <1> QED BY <1>1, <1>2, <1>3, <1>5, <1>6, <1>7, <1>8 DEF Previews!Next

-----------------------------------------------------------------------------
(* Modifications of one order (Modifications) *)

LEMMA ModifyConstants == None \notin Caller /\ MaxFills \in Nat
  BY AnswerPartsAssumption DEF Modify!ModifyAssumption

\* Where the elements of a sequence are after one is added.
LEMMA PlacesAppended ==
    ASSUME NEW S, NEW s \in Seq(S), NEW x \in S
    PROVE  /\ Append(s, x) \in Seq(S) /\ Len(s) \in Nat /\ Len(Append(s, x)) = Len(s) + 1
           /\ DOMAIN s = 1..Len(s) /\ DOMAIN Append(s, x) = 1..(Len(s) + 1)
           /\ \A i \in DOMAIN s : i \in DOMAIN Append(s, x) /\ Append(s, x)[i] = s[i]
           /\ Append(s, x)[Len(s) + 1] = x
           /\ \A i \in DOMAIN Append(s, x) :
                 \/ i \in DOMAIN s /\ Append(s, x)[i] = s[i]
                 \/ i = Len(s) + 1 /\ Append(s, x)[i] = x
  BY AppendProperties, LenProperties

\* ... and after the first is taken.
LEMMA PlacesInTail ==
    ASSUME NEW S, NEW s \in Seq(S), s # <<>>
    PROVE  /\ Tail(s) \in Seq(S) /\ 1 \in DOMAIN s /\ s[1] = Head(s)
           /\ \A i \in DOMAIN Tail(s) : /\ i \in Nat \ {0} /\ i + 1 \in DOMAIN s
                                        /\ Tail(s)[i] = s[i + 1] /\ i + 1 # 1
           /\ \A i, j \in DOMAIN Tail(s) : i + 1 = j + 1 => i = j
  BY HeadTailProperties, LenProperties

\* The messages on their way.
ModifyAsk == [what : {"modify", "open"}, by : Caller, terms : Modify!Terms]
ModifyWord == [what : {"echo", "error", "warning", "end", "status"}, by : Caller \cup {None},
               price : Caller \cup {None}, fills : 0..Modify!Full]

LEMMA ModifyMessages ==
    ASSUME Modify!TypeOK
    PROVE  /\ toIbkr \in Seq(ModifyAsk) /\ news \in Seq(ModifyWord)
           /\ \A i \in DOMAIN toIbkr : toIbkr[i] \in ModifyAsk /\ toIbkr[i].by \in Caller
           /\ \A i \in DOMAIN news : news[i] \in ModifyWord /\ news[i].by \in Caller \cup {None}
  <1>1. toIbkr \in Seq(ModifyAsk) /\ news \in Seq(ModifyWord)
    BY DEF Modify!TypeOK, ModifyAsk, ModifyWord
  <1>2. /\ \A i \in DOMAIN toIbkr : toIbkr[i] \in ModifyAsk
        /\ \A i \in DOMAIN news : news[i] \in ModifyWord
    BY <1>1
  <1>3. (\A m \in ModifyAsk : m.by \in Caller) /\ (\A m \in ModifyWord : m.by \in Caller \cup {None})
    BY DEF ModifyAsk, ModifyWord
  <1> QED BY <1>1, <1>2, <1>3

\* What the argument needs; the rest of the invariant follows.
ModifyHolds ==
    /\ Modify!TypeOK /\ Modify!SentOnce /\ Modify!HearsItsOwn /\ Modify!ReadInTurn
    /\ Modify!TermsToKeep /\ Modify!RejectionIsOwnAlone

\* Nobody who was to be told of a rejection was told something else.
ModifyNoticed ==
    \A c \in Caller : fate[c] = "rejected" => modifyOutcome[c] = "rejected" \/ pc[c] = "waiting"

\* Where the terms are that the cache is to have in the end.
ModifyTerms ==
    /\ \A i \in DOMAIN toIbkr : Modify!Asks(i) =>
          terms = toIbkr[i].terms /\ termsBefore[toIbkr[i].by] = ibkr.terms
    /\ \A c \in Caller : pc[c] = "waiting" /\ fate[c] = "rejected" => termsBefore[c] = ibkr.terms
    /\ (\A i \in DOMAIN toIbkr : ~Modify!Asks(i))
          /\ (\A c \in Caller : ~(pc[c] = "waiting" /\ fate[c] = "rejected")) => terms = ibkr.terms

LEMMA ModifyTermsKept ==
    Modify!TermsToKeep <=> (overlapped = {} /\ ModifyNoticed => ModifyTerms)
  BY DEF Modify!TermsToKeep, ModifyNoticed, ModifyTerms

LEMMA ModifyTermsKeptNext ==
    Modify!TermsToKeep' <=> (overlapped = {} /\ ModifyNoticed => ModifyTerms)'
  BY ModifyTermsKept, PTL

LEMMA ModifyShows == ModifyHolds => Modify!IInv
  <1> SUFFICES ASSUME ModifyHolds PROVE Modify!IInv
    OBVIOUS
  <1>1. ASSUME Modify!Quiet, overlapped = {}, Modify!Noticed PROVE terms = ibkr.terms
    <2>1. ModifyNoticed
      BY <1>1 DEF Modify!Noticed, ModifyNoticed
    <2>2. ModifyTerms
      BY <1>1, <2>1, ModifyTermsKept DEF ModifyHolds
    <2>3. DOMAIN toIbkr = {} /\ \A c \in Caller : pc[c] # "waiting"
      BY <1>1 DEF Modify!Quiet
    <2> QED BY <2>2, <2>3 DEF ModifyTerms
  <1> QED BY <1>1 DEF ModifyHolds, Modify!IInv, Modify!TermsAreIbkrs

LEMMA ModifyShowsNext == ModifyHolds' => Modify!IInv'
  BY ModifyShows, PTL

\* A step of a call that sends no modification and ends no wait for one.
LEMMA ModifyCallsKeep ==
    ASSUME ModifyHolds, Modify!TypeOK',
           UNCHANGED <<termsBefore, logStart, terms, log, news, ibkr, fate, overlapped>>,
           \A c \in Caller : /\ Modify!Unsent(c)' => Modify!Unsent(c)
                             /\ pc'[c] = "waiting" <=> pc[c] = "waiting"
                             /\ pc'[c] \in {"queued", "syncing", "answered"} => purpose'[c] # "none"
                             /\ \/ modifyOutcome'[c] = modifyOutcome[c]
                                \/ modifyOutcome'[c] # "rejected" /\ fate[c] = "none",
           \A i \in DOMAIN toIbkr' : Modify!Asks(i)' => i \in DOMAIN toIbkr /\ toIbkr'[i] = toIbkr[i],
           \A i \in DOMAIN toIbkr : Modify!Asks(i) => i \in DOMAIN toIbkr' /\ toIbkr'[i] = toIbkr[i]
    PROVE  ModifyHolds'
  <1>1. \A i \in DOMAIN toIbkr' : Modify!Asks(i)' =>
           i \in DOMAIN toIbkr /\ Modify!Asks(i) /\ toIbkr'[i] = toIbkr[i]
    BY DEF Modify!Asks
  <1>2. \A i : Modify!Rejects(i)' <=> Modify!Rejects(i)
    BY DEF Modify!Rejects
  <1>3. \A c \in Caller : Modify!Since(logStart[c])' = Modify!Since(logStart[c])
    BY DEF Modify!Since
  <1>5. Modify!SentOnce'
    <2>1. \A c \in Caller : /\ Modify!Unsent(c)' => fate'[c] = "none"
                            /\ pc'[c] = "waiting" => logStart'[c] <= Len(log')
      BY DEF ModifyHolds, Modify!SentOnce
    <2>2. \A c \in Caller : \A i \in DOMAIN toIbkr' : Modify!Asks(i)' /\ toIbkr'[i].by = c =>
             /\ fate'[c] = "none" /\ ~Modify!Unsent(c)'
             /\ \A j \in DOMAIN toIbkr' : Modify!Asks(j)' /\ toIbkr'[j].by = c => j = i
      BY <1>1 DEF ModifyHolds, Modify!SentOnce
    <2>3. \A i \in DOMAIN news' : /\ Modify!Rejects(i)' => fate'[news'[i].by] = "rejected"
                                  /\ news'[i].by = None <=> news'[i].what = "status"
      BY <1>2 DEF ModifyHolds, Modify!SentOnce
    <2>4. \A c \in Caller : pc'[c] \in {"queued", "syncing", "answered"} => purpose'[c] # "none"
      OBVIOUS
    <2>5. \A c \in Caller : /\ Modify!Unsent(c)' => fate'[c] = "none"
                            /\ pc'[c] \in {"queued", "syncing", "answered"} => purpose'[c] # "none"
                            /\ pc'[c] = "waiting" => logStart'[c] <= Len(log')
      BY <2>1, <2>4
    <2> QED BY <2>2, <2>3, <2>5 DEF Modify!SentOnce
  <1>6. Modify!HearsItsOwn'
    BY <1>1, <1>2, <1>3 DEF ModifyHolds, Modify!HearsItsOwn
  <1>7. Modify!ReadInTurn'
    BY <1>1 DEF ModifyHolds, Modify!ReadInTurn
  <1>8. Modify!RejectionIsOwnAlone'
    BY DEF ModifyHolds, Modify!RejectionIsOwnAlone
  <1>9. ASSUME overlapped' = {}, ModifyNoticed' PROVE ModifyTerms'
    <2>1. ModifyNoticed
      BY <1>9 DEF ModifyNoticed
    <2>2. ModifyTerms
      BY <1>9, <2>1, ModifyTermsKept DEF ModifyHolds
    <2>3. (\A i \in DOMAIN toIbkr' : ~Modify!Asks(i)') => \A i \in DOMAIN toIbkr : ~Modify!Asks(i)
      BY DEF Modify!Asks
    <2> QED BY <1>1, <2>2, <2>3 DEF ModifyTerms
  <1>10. Modify!TermsToKeep'
    BY <1>9, ModifyTermsKeptNext
  <1> QED BY <1>5, <1>6, <1>7, <1>8, <1>10 DEF ModifyHolds

LEMMA ModifyAskKeeps ==
    ASSUME ModifyHolds, NEW c \in Caller, Modify!Ask(c)
    PROVE  ModifyHolds'
  <1> DEFINE item == [what |-> "open", by |-> c, terms |-> Modify!Untouched]
  <1>1. /\ pc[c] = "queued" /\ lock' = c /\ pc' = [pc EXCEPT ![c] = "syncing"]
        /\ toIbkr' = Append(toIbkr, item)
        /\ UNCHANGED <<purpose, modified, original, fillsSeen, termsBefore, logStart, woken, echoed,
                       modifyOutcome, terms, status, fills, log, news, ibkr, fate, overlapped>>
    BY DEF Modify!Ask, Modify!token, Modify!waitVars, Modify!trade, Modify!history
  <1>2. Modify!TypeOK /\ toIbkr \in Seq(ModifyAsk)
    BY ModifyMessages DEF ModifyHolds
  <1>3. item \in ModifyAsk /\ item.what = "open"
    BY ModifyConstants DEF ModifyAsk, Modify!Untouched, Modify!Terms
  <1> HIDE DEF item
  <1>4. /\ toIbkr' \in Seq(ModifyAsk)
        /\ \A i \in DOMAIN toIbkr : i \in DOMAIN toIbkr' /\ toIbkr'[i] = toIbkr[i]
        /\ \A i \in DOMAIN toIbkr' : \/ i \in DOMAIN toIbkr /\ toIbkr'[i] = toIbkr[i]
                                     \/ toIbkr'[i] = item
    BY <1>1, <1>2, <1>3, PlacesAppended
  <1>5. Modify!TypeOK'
    <2>1. pc' \in [Caller -> {"idle", "queued", "syncing", "answered", "describing", "previewed",
                              "waiting", "done"}]
      BY <1>1, <1>2 DEF Modify!TypeOK
    <2> QED BY <1>1, <1>2, <1>4, <2>1 DEF Modify!TypeOK, ModifyAsk
  <1>6. \A i \in DOMAIN toIbkr' : Modify!Asks(i)' => i \in DOMAIN toIbkr /\ toIbkr'[i] = toIbkr[i]
    BY <1>3, <1>4 DEF Modify!Asks
  <1>7. \A d \in Caller : /\ Modify!Unsent(d)' => Modify!Unsent(d)
                          /\ pc'[d] = "waiting" <=> pc[d] = "waiting"
                          /\ pc'[d] \in {"queued", "syncing", "answered"} => purpose'[d] # "none"
    BY <1>1, <1>2 DEF ModifyHolds, Modify!TypeOK, Modify!SentOnce, Modify!Unsent
  <1> QED BY <1>1, <1>4, <1>5, <1>6, <1>7, ModifyCallsKeep

\* Nobody's answer is out: nothing is on its way to IBKR, and from it only what it says unasked.
LEMMA ModifyAnswered ==
    ASSUME ModifyHolds, Modify!Unanswered = {}
    PROVE  /\ toIbkr = <<>> /\ \A c \in Caller : pc[c] # "waiting"
           /\ \A i \in DOMAIN news : news[i].by = None /\ ~Modify!Rejects(i)
  <1>1. \A c \in Caller : /\ pc[c] # "waiting"
                          /\ \A m \in Modify!Range(toIbkr) \cup Modify!Range(news) : m.by # c
    BY DEF Modify!Unanswered
  <1>2. /\ \A i \in DOMAIN toIbkr : toIbkr[i].by \in Caller
        /\ \A i \in DOMAIN news : news[i].by \in Caller \cup {None}
        /\ toIbkr \in Seq(ModifyAsk)
    BY ModifyMessages DEF ModifyHolds
  <1>3. \A i \in DOMAIN toIbkr : toIbkr[i] \in Modify!Range(toIbkr)
    BY DEF Modify!Range
  <1>4. DOMAIN toIbkr = {}
    BY <1>1, <1>2, <1>3
  <1>5. toIbkr = <<>>
    <2>1. Len(toIbkr) \in Nat /\ DOMAIN toIbkr = 1..Len(toIbkr)
      BY <1>2, LenProperties
    <2>2. Len(toIbkr) = 0
      BY <1>4, <2>1
    <2> QED BY <1>2, <2>2
  <1>6. \A i \in DOMAIN news : news[i] \in Modify!Range(news)
    BY DEF Modify!Range
  <1>7. \A i \in DOMAIN news : news[i].by = None
    BY <1>1, <1>2, <1>6
  <1>8. \A i \in DOMAIN news : ~Modify!Rejects(i)
    BY <1>7 DEF ModifyHolds, Modify!SentOnce, Modify!Rejects
  <1> QED BY <1>1, <1>5, <1>7, <1>8

\* A modification is sent.
LEMMA ModifySendKeeps ==
    ASSUME ModifyHolds, NEW c \in Caller, Modify!Unsent(c), Modify!TypeOK',
           UNCHANGED <<purpose, modifyOutcome, news, ibkr, fate>>,
           pc' = [pc EXCEPT ![c] = "waiting"], termsBefore' = [termsBefore EXCEPT ![c] = terms],
           terms' = modified[c], logStart' = [logStart EXCEPT ![c] = Len(log)],
           log' = Append(log, "modify"),
           toIbkr' = Append(toIbkr, [what |-> "modify", by |-> c, terms |-> modified[c]]),
           overlapped' = overlapped \cup
               (IF Modify!Unanswered # {} THEN Modify!Unanswered \cup {c} ELSE {})
    PROVE  ModifyHolds'
  <1> DEFINE item == [what |-> "modify", by |-> c, terms |-> modified[c]]
  <1>1. Modify!TypeOK /\ toIbkr \in Seq(ModifyAsk) /\ \A i \in DOMAIN toIbkr : toIbkr[i].by \in Caller
    BY ModifyMessages DEF ModifyHolds
  <1>2. /\ pc'[c] = "waiting" /\ \A d \in Caller \ {c} : pc'[d] = pc[d]
        /\ termsBefore'[c] = terms /\ \A d \in Caller \ {c} : termsBefore'[d] = termsBefore[d]
        /\ logStart'[c] = Len(log) /\ \A d \in Caller \ {c} : logStart'[d] = logStart[d]
    BY <1>1 DEF Modify!TypeOK
  <1>3. item \in ModifyAsk /\ item.what = "modify" /\ item.by = c /\ item.terms = modified[c]
    BY <1>1 DEF ModifyAsk, Modify!TypeOK
  <1>4. toIbkr' = Append(toIbkr, item)
    OBVIOUS
  <1> HIDE DEF item
  <1>5. /\ Len(toIbkr) \in Nat /\ DOMAIN toIbkr = 1..Len(toIbkr)
        /\ \A i \in DOMAIN toIbkr' : \/ i \in DOMAIN toIbkr /\ toIbkr'[i] = toIbkr[i]
                                     \/ i = Len(toIbkr) + 1 /\ toIbkr'[i] = item
        /\ Len(toIbkr) + 1 \in DOMAIN toIbkr' /\ toIbkr'[Len(toIbkr) + 1] = item
    BY <1>1, <1>3, <1>4, PlacesAppended
  <1>6. \A i \in DOMAIN toIbkr' : Modify!Asks(i)' =>
           \/ i \in DOMAIN toIbkr /\ toIbkr'[i] = toIbkr[i] /\ Modify!Asks(i)
           \/ i = Len(toIbkr) + 1 /\ toIbkr'[i] = item
    BY <1>5 DEF Modify!Asks
  <1>7. \A i : Modify!Rejects(i)' <=> Modify!Rejects(i)
    BY DEF Modify!Rejects
  <1>8. log \in Seq({"modify", "status", "error", "warning"})
    BY <1>1 DEF Modify!TypeOK
  <1>9. /\ Len(log) \in Nat /\ Len(log') = Len(log) + 1 /\ log'[Len(log) + 1] = "modify"
    BY <1>8, PlacesAppended
  <1>10. fate[c] = "none" /\ \A i \in DOMAIN toIbkr : Modify!Asks(i) => toIbkr[i].by # c
    BY DEF ModifyHolds, Modify!SentOnce
  <1>11. Modify!SentOnce'
    <2>1. \A d \in Caller : Modify!Unsent(d)' => Modify!Unsent(d) /\ d # c
      BY <1>2 DEF Modify!Unsent
    <2>2. \A d \in Caller : /\ Modify!Unsent(d)' => fate'[d] = "none"
                            /\ pc'[d] \in {"queued", "syncing", "answered"} => purpose'[d] # "none"
                            /\ pc'[d] = "waiting" => logStart'[d] <= Len(log')
      <3> SUFFICES ASSUME NEW d \in Caller
                   PROVE  /\ Modify!Unsent(d)' => fate'[d] = "none"
                          /\ pc'[d] \in {"queued", "syncing", "answered"} => purpose'[d] # "none"
                          /\ pc'[d] = "waiting" => logStart'[d] <= Len(log')
        OBVIOUS
      <3>1. CASE d = c
        <4>1. logStart'[d] <= Len(log')
          BY <1>2, <1>9, <3>1
        <4> QED BY <1>2, <2>1, <3>1, <4>1
      <3>2. CASE d # c
        <4>1. pc'[d] = pc[d] /\ logStart'[d] = logStart[d] /\ logStart[d] \in Nat
          BY <1>1, <1>2, <3>2 DEF Modify!TypeOK
        <4>2. pc[d] = "waiting" => logStart[d] <= Len(log)
          BY DEF ModifyHolds, Modify!SentOnce
        <4>3. pc'[d] = "waiting" => logStart'[d] <= Len(log')
          BY <1>9, <4>1, <4>2
        <4> QED BY <2>1, <4>1, <4>3 DEF ModifyHolds, Modify!SentOnce
      <3> QED BY <3>1, <3>2
    <2>3. \A d \in Caller : \A i \in DOMAIN toIbkr' : Modify!Asks(i)' /\ toIbkr'[i].by = d =>
             /\ fate'[d] = "none" /\ ~Modify!Unsent(d)'
             /\ \A j \in DOMAIN toIbkr' : Modify!Asks(j)' /\ toIbkr'[j].by = d => j = i
      <3> SUFFICES ASSUME NEW d \in Caller, NEW i \in DOMAIN toIbkr', Modify!Asks(i)', toIbkr'[i].by = d
                   PROVE  /\ fate'[d] = "none" /\ ~Modify!Unsent(d)'
                          /\ \A j \in DOMAIN toIbkr' : Modify!Asks(j)' /\ toIbkr'[j].by = d => j = i
        OBVIOUS
      <3>1. CASE d = c
        <4>1. \A j \in DOMAIN toIbkr' : Modify!Asks(j)' /\ toIbkr'[j].by = d => j = Len(toIbkr) + 1
          BY <1>6, <1>10, <3>1
        <4> QED BY <1>10, <2>1, <3>1, <4>1
      <3>2. CASE d # c
        <4>1. \A j \in DOMAIN toIbkr' : Modify!Asks(j)' /\ toIbkr'[j].by = d =>
                 j \in DOMAIN toIbkr /\ toIbkr[j].by = d /\ Modify!Asks(j)
          BY <1>3, <1>6, <3>2
        <4>2. fate[d] = "none" /\ ~Modify!Unsent(d)
          BY <4>1 DEF ModifyHolds, Modify!SentOnce
        <4> QED BY <2>1, <4>1, <4>2 DEF ModifyHolds, Modify!SentOnce
      <3> QED BY <3>1, <3>2
    <2>4. \A i \in DOMAIN news' : /\ Modify!Rejects(i)' => fate'[news'[i].by] = "rejected"
                                  /\ news'[i].by = None <=> news'[i].what = "status"
      BY <1>7 DEF ModifyHolds, Modify!SentOnce
    <2> QED BY <2>2, <2>3, <2>4 DEF Modify!SentOnce
  <1>12. \A d \in Caller \ overlapped' : pc'[d] = "waiting" => d = c /\ Modify!Unanswered = {}
    <2> SUFFICES ASSUME NEW d \in Caller \ overlapped', pc'[d] = "waiting"
                 PROVE  d = c /\ Modify!Unanswered = {}
      OBVIOUS
    <2>1. d # c => d \in Modify!Unanswered
      BY <1>2 DEF Modify!Unanswered
    <2> QED BY <2>1
  <1>13. Modify!HearsItsOwn'
    <2> SUFFICES ASSUME NEW d \in Caller \ overlapped', pc'[d] = "waiting"
                 PROVE  /\ \A i \in DOMAIN toIbkr' : Modify!Asks(i)' => toIbkr'[i].by = d
                        /\ \A i \in DOMAIN news' : Modify!Rejects(i)' => news'[i].by = d
                        /\ {"error", "warning"} \cap Modify!Since(logStart[d])' # {} =>
                              fate'[d] = "rejected"
      BY DEF Modify!HearsItsOwn
    <2>1. d = c /\ Modify!Unanswered = {}
      BY <1>12
    <2>2. toIbkr = <<>> /\ \A i \in DOMAIN news : ~Modify!Rejects(i)
      BY <2>1, ModifyAnswered
    <2>3. Modify!Since(logStart[d])' \subseteq {"modify"}
      <3>1. \A i \in (Len(log) + 1)..Len(log') : i = Len(log) + 1
        BY <1>9
      <3> QED BY <1>2, <1>9, <2>1, <3>1 DEF Modify!Since
    <2> QED BY <1>3, <1>6, <1>7, <2>1, <2>2, <2>3
  <1>14. ASSUME overlapped' = {} PROVE Modify!Unanswered = {} /\ overlapped = {}
    BY <1>14
  <1>15. Modify!ReadInTurn'
    <2> SUFFICES ASSUME overlapped' = {}
                 PROVE  /\ \A i \in DOMAIN toIbkr' : Modify!Asks(i)' =>
                              i = 1 /\ \A j \in DOMAIN news' : news'[j].by = None
                        /\ \A i \in DOMAIN news' : news'[i].what = "echo" =>
                              news'[i].price = ibkr'.terms["price"]
      BY DEF Modify!ReadInTurn
    <2>1. /\ toIbkr = <<>> /\ Len(toIbkr) = 0
          /\ \A i \in DOMAIN news : news[i].by = None
      BY <1>14, ModifyAnswered
    <2> QED BY <1>6, <1>14, <2>1 DEF ModifyHolds, Modify!ReadInTurn
  <1>16. Modify!RejectionIsOwnAlone'
    BY DEF ModifyHolds, Modify!RejectionIsOwnAlone
  <1>17. ASSUME overlapped' = {}, ModifyNoticed' PROVE ModifyTerms'
    <2>1. ModifyNoticed
      BY <1>2, <1>10, <1>17 DEF ModifyNoticed
    <2>2. toIbkr = <<>> /\ Len(toIbkr) = 0 /\ \A d \in Caller : pc[d] # "waiting"
      BY <1>14, <1>17, ModifyAnswered
    <2>3. terms = ibkr.terms
      BY <1>14, <1>17, <2>1, <2>2, ModifyTermsKept DEF ModifyHolds, ModifyTerms
    <2>4. \A i \in DOMAIN toIbkr' : Modify!Asks(i)' =>
             terms' = toIbkr'[i].terms /\ termsBefore'[toIbkr'[i].by] = ibkr'.terms
      BY <1>2, <1>3, <1>6, <2>2, <2>3
    <2>5. \A d \in Caller : pc'[d] = "waiting" /\ fate'[d] = "rejected" =>
             termsBefore'[d] = ibkr'.terms
      BY <1>2, <1>10, <2>2
    <2>6. ~\A i \in DOMAIN toIbkr' : ~Modify!Asks(i)'
      BY <1>3, <1>5, <2>2 DEF Modify!Asks
    <2> QED BY <2>4, <2>5, <2>6 DEF ModifyTerms
  <1>18. Modify!TermsToKeep'
    BY <1>17, ModifyTermsKeptNext
  <1> QED BY <1>11, <1>13, <1>15, <1>16, <1>18 DEF ModifyHolds

\* A step of a call before its modification is sent, or one that refuses it.
LEMMA ModifyMoves ==
    ASSUME ModifyHolds, NEW c \in Caller, Modify!Unsent(c),
           NEW p \in {"queued", "describing", "previewed", "done"}, pc' = [pc EXCEPT ![c] = p],
           purpose' \in [Caller -> {"none", "preview", "submit", "restore"}],
           \A d \in Caller \ {c} : purpose'[d] = purpose[d],
           p = "queued" => purpose'[c] \in {"preview", "submit"},
           modifyOutcome' \in {modifyOutcome, [modifyOutcome EXCEPT ![c] = "refused"]},
           modified' \in [Caller -> Modify!Terms], original' \in [Caller -> Modify!Terms],
           fillsSeen' \in [Caller -> 0..Modify!Full], lock' \in Caller \cup {None},
           UNCHANGED <<termsBefore, logStart, woken, echoed, terms, status, fills, log, toIbkr, news,
                       ibkr, fate, overlapped>>
    PROVE  ModifyHolds'
  <1>1. Modify!TypeOK /\ fate[c] = "none"
    BY DEF ModifyHolds, Modify!SentOnce
  <1>2. /\ pc'[c] = p /\ \A d \in Caller \ {c} : pc'[d] = pc[d]
        /\ pc' \in [Caller -> {"idle", "queued", "syncing", "answered", "describing", "previewed",
                               "waiting", "done"}]
    BY <1>1 DEF Modify!TypeOK
  <1>3. /\ modifyOutcome' \in [Caller -> {"none", "refused", "accepted", "silent", "rejected"}]
        /\ \A d \in Caller : \/ modifyOutcome'[d] = modifyOutcome[d]
                             \/ d = c /\ modifyOutcome'[d] = "refused"
    BY <1>1 DEF Modify!TypeOK
  <1>4. Modify!TypeOK'
    BY <1>1, <1>2, <1>3 DEF Modify!TypeOK
  <1>5. \A d \in Caller : \/ modifyOutcome'[d] = modifyOutcome[d]
                          \/ modifyOutcome'[d] # "rejected" /\ fate[d] = "none"
    BY <1>1, <1>3
  <1>6. pc[c] # "waiting"
    BY DEF Modify!Unsent
  <1>7. \A d \in Caller : /\ Modify!Unsent(d)' => Modify!Unsent(d)
                          /\ pc'[d] = "waiting" <=> pc[d] = "waiting"
                          /\ pc'[d] \in {"queued", "syncing", "answered"} => purpose'[d] # "none"
    <2> SUFFICES ASSUME NEW d \in Caller
                 PROVE  /\ Modify!Unsent(d)' => Modify!Unsent(d)
                        /\ pc'[d] = "waiting" <=> pc[d] = "waiting"
                        /\ pc'[d] \in {"queued", "syncing", "answered"} => purpose'[d] # "none"
      OBVIOUS
    <2>1. CASE d = c
      BY <1>2, <1>6, <2>1
    <2>2. CASE d # c
      BY <1>2, <2>2 DEF ModifyHolds, Modify!SentOnce, Modify!Unsent
    <2> QED BY <2>1, <2>2
  <1> QED BY <1>4, <1>5, <1>7, ModifyCallsKeep DEF Modify!Asks

LEMMA ModifyCopyKeeps ==
    ASSUME ModifyHolds, NEW c \in Caller, Modify!Unsent(c), Modify!Copy(c),
           lock' \in Caller \cup {None},
           UNCHANGED <<purpose, termsBefore, logStart, woken, echoed, terms, status, fills, log,
                       toIbkr, news, ibkr, fate, overlapped>>
    PROVE  ModifyHolds'
  <1>1. Modify!TypeOK
    BY DEF ModifyHolds
  <1>2. UNCHANGED <<original, fillsSeen>>
    BY DEF Modify!Copy
  <1> DEFINE term == IF c \in Single THEN "price" ELSE "tif"
             copied == [terms EXCEPT ![term] = c]
  <1>3. copied \in Modify!Terms
    BY <1>1 DEF Modify!TypeOK, Modify!Terms
  <1>4. CASE Modify!IsOpen
    <2>1. /\ pc' = [pc EXCEPT ![c] = "describing"] /\ UNCHANGED modifyOutcome
          /\ modified' = [modified EXCEPT ![c] = copied]
      BY <1>4 DEF Modify!Copy
    <2> HIDE DEF copied
    <2>2. modified' \in [Caller -> Modify!Terms]
      BY <1>1, <1>3, <2>1 DEF Modify!TypeOK
    <2> QED BY <1>1, <1>2, <2>1, <2>2, ModifyMoves DEF Modify!TypeOK
  <1>5. CASE ~Modify!IsOpen
    <2>1. /\ pc' = [pc EXCEPT ![c] = "done"] /\ UNCHANGED modified
          /\ modifyOutcome' = [modifyOutcome EXCEPT ![c] = "refused"]
      BY <1>5 DEF Modify!Copy
    <2> QED BY <1>1, <1>2, <2>1, ModifyMoves DEF Modify!TypeOK
  <1> QED BY <1>4, <1>5

LEMMA ModifyLookKeeps ==
    ASSUME ModifyHolds, NEW c \in Caller, Modify!Unsent(c), NEW why \in {"preview", "submit"},
           Modify!Look(c, why),
           UNCHANGED <<modified, original, fillsSeen, termsBefore, logStart, woken, echoed,
                       modifyOutcome, lock, terms, status, fills, log, toIbkr, news, ibkr, fate,
                       overlapped>>
    PROVE  ModifyHolds'
  <1>1. Modify!TypeOK
    BY DEF ModifyHolds
  <1>2. pc' = [pc EXCEPT ![c] = "queued"] /\ purpose' = [purpose EXCEPT ![c] = why]
    BY DEF Modify!Look
  <1>3. /\ purpose' \in [Caller -> {"none", "preview", "submit", "restore"}]
        /\ purpose'[c] = why /\ \A d \in Caller \ {c} : purpose'[d] = purpose[d]
    BY <1>1, <1>2 DEF Modify!TypeOK
  <1> QED BY <1>1, <1>2, <1>3, ModifyMoves DEF Modify!TypeOK

LEMMA ModifyPreviewKeeps ==
    ASSUME ModifyHolds, NEW c \in Caller, Modify!Preview(c)
    PROVE  ModifyHolds'
  <1>1. /\ pc[c] = "idle"
        /\ UNCHANGED <<termsBefore, logStart, woken, echoed, lock, terms, status, fills, log, toIbkr,
                       news, ibkr, fate, overlapped>>
    BY DEF Modify!Preview, Modify!waitVars, Modify!trade, Modify!wires, Modify!history
  <1>2. Modify!Unsent(c) /\ lock' \in Caller \cup {None}
    BY <1>1 DEF Modify!Unsent, ModifyHolds, Modify!TypeOK
  <1>3. CASE Modify!Look(c, "preview") /\ UNCHANGED <<modified, original, fillsSeen, modifyOutcome>>
    BY <1>1, <1>2, <1>3, ModifyLookKeeps
  <1>4. CASE Modify!Copy(c) /\ UNCHANGED purpose
    BY <1>1, <1>2, <1>4, ModifyCopyKeeps
  <1> QED BY <1>3, <1>4 DEF Modify!Preview, Modify!token

LEMMA ModifyDescribeKeeps ==
    ASSUME ModifyHolds, NEW c \in Caller, Modify!Describe(c)
    PROVE  ModifyHolds'
  <1>1. /\ pc[c] = "describing" /\ pc' = [pc EXCEPT ![c] = "previewed"]
        /\ original' = [original EXCEPT ![c] = terms] /\ fillsSeen' = [fillsSeen EXCEPT ![c] = fills]
        /\ UNCHANGED <<purpose, modified, termsBefore, logStart, woken, echoed, modifyOutcome, lock,
                       terms, status, fills, log, toIbkr, news, ibkr, fate, overlapped>>
    BY DEF Modify!Describe, Modify!waitVars, Modify!trade, Modify!wires, Modify!history
  <1>2. Modify!Unsent(c) /\ Modify!TypeOK
    BY <1>1 DEF Modify!Unsent, ModifyHolds
  <1>3. original' \in [Caller -> Modify!Terms] /\ fillsSeen' \in [Caller -> 0..Modify!Full]
    BY <1>1, <1>2 DEF Modify!TypeOK
  <1> QED BY <1>1, <1>2, <1>3, ModifyMoves DEF Modify!TypeOK

LEMMA ModifyCheckKeeps ==
    ASSUME ModifyHolds, NEW c \in Caller, Modify!Unsent(c), Modify!CheckAndSend(c),
           lock' \in Caller \cup {None},
           UNCHANGED <<purpose, modified, original, fillsSeen, woken, echoed, news, ibkr, fate>>
    PROVE  ModifyHolds'
  <1>1. Modify!TypeOK /\ toIbkr \in Seq(ModifyAsk)
    BY ModifyMessages DEF ModifyHolds
  <1>2. CASE Modify!IsOpen /\ Modify!Unchanged(c)
    <2> DEFINE item == [what |-> "modify", by |-> c, terms |-> modified[c]]
    <2>1. /\ termsBefore' = [termsBefore EXCEPT ![c] = terms] /\ terms' = modified[c]
          /\ logStart' = [logStart EXCEPT ![c] = Len(log)] /\ log' = Append(log, "modify")
          /\ toIbkr' = Append(toIbkr, item) /\ pc' = [pc EXCEPT ![c] = "waiting"]
          /\ overlapped' = overlapped \cup
                (IF Modify!Unanswered # {} THEN Modify!Unanswered \cup {c} ELSE {})
          /\ UNCHANGED <<modifyOutcome, status, fills>>
      BY <1>2 DEF Modify!CheckAndSend
    <2>2. Modify!TypeOK'
      <3>1. item \in ModifyAsk
        BY <1>1 DEF ModifyAsk, Modify!TypeOK
      <3>2. toIbkr' \in Seq(ModifyAsk)
        BY <1>1, <2>1, <3>1, PlacesAppended
      <3>3. log' \in Seq({"modify", "status", "error", "warning"}) /\ Len(log) \in Nat
        BY <1>1, <2>1, PlacesAppended DEF Modify!TypeOK
      <3>4. pc' \in [Caller -> {"idle", "queued", "syncing", "answered", "describing", "previewed",
                                "waiting", "done"}]
        BY <1>1, <2>1 DEF Modify!TypeOK
      <3>5. /\ terms' \in Modify!Terms /\ termsBefore' \in [Caller -> Modify!Terms]
            /\ logStart' \in [Caller -> Nat]
        BY <1>1, <2>1, <3>3 DEF Modify!TypeOK
      <3>6. overlapped' \subseteq Caller
        BY <1>1, <2>1 DEF Modify!TypeOK, Modify!Unanswered
      <3> HIDE DEF item
      <3> QED BY <1>1, <2>1, <3>2, <3>3, <3>4, <3>5, <3>6 DEF Modify!TypeOK, ModifyAsk
    <2> QED BY <2>1, <2>2, ModifySendKeeps
  <1>3. CASE ~(Modify!IsOpen /\ Modify!Unchanged(c))
    <2>1. /\ pc' = [pc EXCEPT ![c] = "done"]
          /\ modifyOutcome' = [modifyOutcome EXCEPT ![c] = "refused"]
          /\ UNCHANGED <<termsBefore, logStart, terms, status, fills, log, toIbkr, overlapped>>
      BY <1>3 DEF Modify!CheckAndSend, Modify!trade
    <2> QED BY <1>1, <2>1, ModifyMoves DEF Modify!TypeOK
  <1> QED BY <1>2, <1>3

LEMMA ModifySubmitKeeps ==
    ASSUME ModifyHolds, NEW c \in Caller, Modify!Submit(c)
    PROVE  ModifyHolds'
  <1>1. /\ pc[c] = "previewed"
        /\ UNCHANGED <<modified, original, fillsSeen, woken, echoed, lock, news, ibkr, fate>>
    BY DEF Modify!Submit, Modify!token, Modify!waitVars
  <1>2. Modify!Unsent(c) /\ lock' \in Caller \cup {None}
    BY <1>1 DEF Modify!Unsent, ModifyHolds, Modify!TypeOK
  <1>3. CASE /\ Modify!Look(c, "submit")
             /\ UNCHANGED <<termsBefore, logStart, modifyOutcome, terms, status, fills, log, toIbkr,
                            overlapped>>
    BY <1>1, <1>2, <1>3, ModifyLookKeeps
  <1>4. CASE Modify!CheckAndSend(c) /\ UNCHANGED purpose
    BY <1>1, <1>2, <1>4, ModifyCheckKeeps
  <1> QED BY <1>3, <1>4 DEF Modify!Submit, Modify!trade

LEMMA ModifySyncedKeeps ==
    ASSUME ModifyHolds, NEW c \in Caller, Modify!Synced(c)
    PROVE  ModifyHolds'
  <1>1. /\ pc[c] \in {"answered", "syncing"} /\ lock' = None
        /\ UNCHANGED <<purpose, woken, echoed, news, ibkr, fate>>
    BY DEF Modify!Synced, Modify!waitVars
  <1>2. lock' \in Caller \cup {None} /\ Modify!TypeOK
    BY <1>1 DEF ModifyHolds
  <1>3. CASE /\ purpose[c] = "preview" /\ Modify!Copy(c)
             /\ UNCHANGED <<termsBefore, logStart, terms, status, fills, log, toIbkr, overlapped>>
    <2>1. Modify!Unsent(c)
      BY <1>1, <1>3 DEF Modify!Unsent
    <2> QED BY <1>1, <1>2, <1>3, <2>1, ModifyCopyKeeps
  <1>4. CASE /\ purpose[c] = "submit" /\ Modify!CheckAndSend(c)
             /\ UNCHANGED <<modified, original, fillsSeen>>
    <2>1. Modify!Unsent(c)
      BY <1>1, <1>4 DEF Modify!Unsent
    <2> QED BY <1>1, <1>2, <1>4, <2>1, ModifyCheckKeeps
  <1>5. CASE /\ purpose[c] = "restore" /\ pc' = [pc EXCEPT ![c] = "done"]
             /\ UNCHANGED <<modified, original, fillsSeen, termsBefore, logStart, modifyOutcome,
                            terms, status, fills, log, toIbkr, overlapped>>
    <2>1. pc' \in [Caller -> {"idle", "queued", "syncing", "answered", "describing", "previewed",
                              "waiting", "done"}]
      BY <1>2, <1>5 DEF Modify!TypeOK
    <2>2. Modify!TypeOK'
      BY <1>1, <1>2, <1>5, <2>1 DEF Modify!TypeOK
    <2>3. \A d \in Caller : /\ Modify!Unsent(d)' => Modify!Unsent(d)
                            /\ pc'[d] = "waiting" <=> pc[d] = "waiting"
                            /\ pc'[d] \in {"queued", "syncing", "answered"} => purpose'[d] # "none"
      BY <1>1, <1>2, <1>5 DEF ModifyHolds, Modify!TypeOK, Modify!SentOnce, Modify!Unsent
    <2> QED BY <1>1, <1>5, <2>2, <2>3, ModifyCallsKeep DEF Modify!Asks
  <1> QED BY <1>3, <1>4, <1>5 DEF Modify!Synced, Modify!token, Modify!trade

\* A wait for an answer ends.
LEMMA ModifyResumeKeeps ==
    ASSUME ModifyHolds, NEW c \in Caller, Modify!Resume(c)
    PROVE  ModifyHolds'
  <1>1. Modify!TypeOK /\ pc[c] = "waiting"
    BY DEF ModifyHolds, Modify!Resume
  <1>2. UNCHANGED <<modified, original, fillsSeen, termsBefore, logStart, woken, echoed, lock, status,
                    fills, log, toIbkr, news, ibkr, fate, overlapped>>
    BY DEF Modify!Resume, Modify!token, Modify!waitVars, Modify!wires, Modify!history
  <1>3. \/ /\ Modify!Refused(c) /\ terms' = termsBefore[c]
           /\ modifyOutcome' = [modifyOutcome EXCEPT ![c] = "rejected"]
           /\ pc' = [pc EXCEPT ![c] = "queued"] /\ purpose' = [purpose EXCEPT ![c] = "restore"]
        \/ /\ \E o \in {"accepted", "silent"} : modifyOutcome' = [modifyOutcome EXCEPT ![c] = o]
           /\ pc' = [pc EXCEPT ![c] = "done"] /\ UNCHANGED <<purpose, terms>>
    BY DEF Modify!Resume
  <1>4. \A d \in Caller \ {c} : /\ pc'[d] = pc[d] /\ purpose'[d] = purpose[d]
                                /\ modifyOutcome'[d] = modifyOutcome[d]
    BY <1>1, <1>3 DEF Modify!TypeOK
  <1>5. \/ /\ Modify!Refused(c) /\ terms' = termsBefore[c] /\ modifyOutcome'[c] = "rejected"
           /\ pc'[c] = "queued" /\ purpose'[c] = "restore"
        \/ modifyOutcome'[c] # "rejected" /\ pc'[c] = "done" /\ UNCHANGED terms
    BY <1>1, <1>3 DEF Modify!TypeOK
  <1>6. Modify!TypeOK'
    <2>1. pc' \in [Caller -> {"idle", "queued", "syncing", "answered", "describing", "previewed",
                              "waiting", "done"}]
      BY <1>1, <1>3 DEF Modify!TypeOK
    <2>2. purpose' \in [Caller -> {"none", "preview", "submit", "restore"}]
      BY <1>1, <1>3 DEF Modify!TypeOK
    <2>3. modifyOutcome' \in [Caller -> {"none", "refused", "accepted", "silent", "rejected"}]
      BY <1>1, <1>3 DEF Modify!TypeOK
    <2>4. terms' \in Modify!Terms
      BY <1>1, <1>5 DEF Modify!TypeOK
    <2> QED BY <1>1, <1>2, <2>1, <2>2, <2>3, <2>4 DEF Modify!TypeOK
  <1>7. \A d \in Caller : /\ Modify!Unsent(d)' => Modify!Unsent(d)
                          /\ pc'[d] = "waiting" <=> pc[d] = "waiting" /\ d # c
                          /\ pc'[d] \in {"queued", "syncing", "answered"} => purpose'[d] # "none"
    <2> SUFFICES ASSUME NEW d \in Caller
                 PROVE  /\ Modify!Unsent(d)' => Modify!Unsent(d)
                        /\ pc'[d] = "waiting" <=> pc[d] = "waiting" /\ d # c
                        /\ pc'[d] \in {"queued", "syncing", "answered"} => purpose'[d] # "none"
      OBVIOUS
    <2>1. CASE d = c
      BY <1>5, <2>1 DEF Modify!Unsent
    <2>2. CASE d # c
      BY <1>4, <2>2 DEF ModifyHolds, Modify!SentOnce, Modify!Unsent
    <2> QED BY <2>1, <2>2
  <1>8. \A i : (Modify!Asks(i)' <=> Modify!Asks(i)) /\ (Modify!Rejects(i)' <=> Modify!Rejects(i))
    BY <1>2 DEF Modify!Asks, Modify!Rejects
  <1>9. \A d \in Caller : Modify!Since(logStart[d])' = Modify!Since(logStart[d])
    BY <1>2 DEF Modify!Since
  <1>10. Modify!SentOnce'
    <2>1. \A d \in Caller : /\ Modify!Unsent(d)' => fate'[d] = "none"
                            /\ pc'[d] \in {"queued", "syncing", "answered"} => purpose'[d] # "none"
                            /\ pc'[d] = "waiting" => logStart'[d] <= Len(log')
      BY <1>2, <1>7 DEF ModifyHolds, Modify!SentOnce
    <2>2. \A d \in Caller : \A i \in DOMAIN toIbkr' : Modify!Asks(i)' /\ toIbkr'[i].by = d =>
             /\ fate'[d] = "none" /\ ~Modify!Unsent(d)'
             /\ \A j \in DOMAIN toIbkr' : Modify!Asks(j)' /\ toIbkr'[j].by = d => j = i
      BY <1>2, <1>7, <1>8 DEF ModifyHolds, Modify!SentOnce
    <2>3. \A i \in DOMAIN news' : /\ Modify!Rejects(i)' => fate'[news'[i].by] = "rejected"
                                  /\ news'[i].by = None <=> news'[i].what = "status"
      BY <1>2, <1>8 DEF ModifyHolds, Modify!SentOnce
    <2> QED BY <2>1, <2>2, <2>3 DEF Modify!SentOnce
  <1>11. Modify!HearsItsOwn'
    BY <1>2, <1>7, <1>8, <1>9 DEF ModifyHolds, Modify!HearsItsOwn
  <1>12. Modify!ReadInTurn'
    BY <1>2, <1>8 DEF ModifyHolds, Modify!ReadInTurn
  <1>13. ASSUME Modify!Refused(c), c \notin overlapped PROVE fate[c] = "rejected"
    BY <1>1, <1>13 DEF ModifyHolds, Modify!HearsItsOwn, Modify!Refused
  <1>14. Modify!RejectionIsOwnAlone'
    BY <1>2, <1>4, <1>5, <1>13 DEF ModifyHolds, Modify!RejectionIsOwnAlone
  <1>15. ASSUME overlapped' = {}, ModifyNoticed' PROVE ModifyTerms'
    <2>1. ModifyNoticed
      BY <1>1, <1>2, <1>4, <1>7, <1>15 DEF ModifyNoticed
    <2>2. overlapped = {} /\ ModifyTerms
      BY <1>2, <1>15, <2>1, ModifyTermsKept DEF ModifyHolds
    <2>3. CASE Modify!Refused(c) /\ terms' = termsBefore[c]
      <3>1. fate[c] = "rejected"
        BY <1>13, <2>2, <2>3
      <3>2. terms' = ibkr'.terms
        BY <1>1, <1>2, <2>2, <2>3, <3>1 DEF ModifyTerms
      <3>3. \A i \in DOMAIN toIbkr' : ~Modify!Asks(i)'
        BY <1>1, <1>2, <1>8, <2>2, <3>1 DEF ModifyHolds, Modify!HearsItsOwn, Modify!SentOnce
      <3> QED BY <1>2, <1>7, <2>2, <3>2, <3>3 DEF ModifyTerms
    <2>4. CASE modifyOutcome'[c] # "rejected" /\ pc'[c] = "done" /\ UNCHANGED terms
      <3>1. fate[c] # "rejected"
        BY <1>2, <1>15, <2>4 DEF ModifyNoticed
      <3> QED BY <1>2, <1>7, <1>8, <2>2, <2>4, <3>1 DEF ModifyTerms
    <2> QED BY <1>5, <2>3, <2>4
  <1>16. Modify!TermsToKeep'
    BY <1>15, ModifyTermsKeptNext
  <1> QED BY <1>6, <1>10, <1>11, <1>12, <1>14, <1>16 DEF ModifyHolds

\* IBKR reads what the head of toIbkr says, and what it then says is that request's answer.
LEMMA ModifyReadSays ==
    ASSUME ModifyHolds, Modify!IbkrReads
    PROVE  /\ toIbkr # <<>> /\ toIbkr' = Tail(toIbkr) /\ toIbkr[1].by \in Caller
           /\ Modify!TypeOK'
           /\ UNCHANGED <<pc, purpose, termsBefore, logStart, modifyOutcome, terms, log, overlapped>>
           /\ Modify!Asks(1) \/ (UNCHANGED <<ibkr, fate>>)
           /\ Modify!Asks(1) =>
                 \/ ibkr'.terms = toIbkr[1].terms /\ fate'[toIbkr[1].by] = "accepted"
                 \/ ibkr' = ibkr /\ fate'[toIbkr[1].by] = "rejected"
           /\ \A d \in Caller \ {toIbkr[1].by} : fate'[d] = fate[d]
           /\ \A i \in DOMAIN news' :
                 \/ i \in DOMAIN news /\ news'[i] = news[i]
                 \/ /\ news'[i].by = toIbkr[1].by
                    /\ \/ news'[i].what = "echo" /\ news'[i].price = ibkr'.terms["price"]
                       \/ news'[i].what = "end"
                       \/ /\ news'[i].what \in {"error", "warning"} /\ Modify!Asks(1)
                          /\ fate'[toIbkr[1].by] = "rejected"
  <1> DEFINE m == Head(toIbkr)
  <1>1. Modify!TypeOK /\ toIbkr \in Seq(ModifyAsk) /\ news \in Seq(ModifyWord)
    BY ModifyMessages DEF ModifyHolds
  <1>2. /\ toIbkr # <<>> /\ toIbkr' = Tail(toIbkr)
        /\ UNCHANGED <<pc, purpose, modified, original, fillsSeen, termsBefore, logStart, woken, echoed,
                       modifyOutcome, lock, terms, status, fills, log, overlapped>>
    BY DEF Modify!IbkrReads, Modify!token, Modify!waitVars, Modify!trade
  <1>3. /\ toIbkr' \in Seq(ModifyAsk) /\ m \in ModifyAsk /\ m = toIbkr[1]
    BY <1>1, <1>2, PlacesInTail, HeadTailProperties
  <1>4. m.by \in Caller /\ m.terms \in Modify!Terms /\ (m.what = "modify" <=> Modify!Asks(1))
    BY <1>3 DEF ModifyAsk, Modify!Asks
  <1> DEFINE says(w) == Modify!Says(w, m.by)
  <1>5. \/ /\ m.what = "modify" /\ ibkr' = [ibkr EXCEPT !.terms = m.terms]
           /\ news' = Append(news, says("echo")) /\ fate' = [fate EXCEPT ![m.by] = "accepted"]
        \/ /\ m.what = "modify" /\ ibkr' = ibkr
           /\ \E w \in {"error", "warning"} : news' = Append(news, says(w))
           /\ fate' = [fate EXCEPT ![m.by] = "rejected"]
        \/ /\ m.what = "open" /\ ibkr' = ibkr /\ fate' = fate
           /\ news' = news \o (IF ibkr.fills < Modify!Full THEN <<says("echo")>> ELSE <<>>)
                           \o <<says("end")>>
    BY DEF Modify!IbkrReads
  <1>6. ibkr' \in [terms : Modify!Terms, fills : 0..Modify!Full]
    BY <1>1, <1>4, <1>5 DEF Modify!TypeOK
  <1>7. \A w \in {"echo", "error", "warning", "end", "status"} :
           /\ says(w) \in ModifyWord /\ says(w).what = w /\ says(w).by = m.by
           /\ says(w).price = ibkr'.terms["price"]
    BY <1>4, <1>6 DEF ModifyWord, Modify!Says, Modify!Terms
  <1> HIDE DEF says
  <1>8. fate' \in [Caller -> {"none", "accepted", "rejected"}]
    BY <1>1, <1>4, <1>5 DEF Modify!TypeOK
  <1>9. /\ \A d \in Caller \ {m.by} : fate'[d] = fate[d]
        /\ Modify!Asks(1) \/ (UNCHANGED <<ibkr, fate>>)
        /\ Modify!Asks(1) => \/ ibkr'.terms = m.terms /\ fate'[m.by] = "accepted"
                             \/ ibkr' = ibkr /\ fate'[m.by] = "rejected"
    BY <1>1, <1>4, <1>5 DEF Modify!TypeOK
  <1> HIDE DEF m
  <1> DEFINE fits(w) == /\ w.by = m.by
                        /\ \/ w.what = "echo" /\ w.price = ibkr'.terms["price"]
                           \/ w.what = "end"
                           \/ /\ w.what \in {"error", "warning"} /\ Modify!Asks(1)
                              /\ fate'[m.by] = "rejected"
  <1>10. fits(says("echo")) /\ fits(says("end"))
    BY <1>7
  <1>11. /\ news' \in Seq(ModifyWord)
         /\ \A i \in DOMAIN news' : \/ i \in DOMAIN news /\ news'[i] = news[i]
                                    \/ fits(news'[i])
    <2>1. ASSUME NEW w \in ModifyWord, news' = Append(news, w), fits(w)
          PROVE  /\ news' \in Seq(ModifyWord)
                 /\ \A i \in DOMAIN news' : \/ i \in DOMAIN news /\ news'[i] = news[i]
                                            \/ fits(news'[i])
      <3> HIDE DEF fits
      <3> QED BY <1>1, <2>1, PlacesAppended
    <2>2. CASE m.what = "modify" /\ news' = Append(news, says("echo"))
      BY <1>7, <1>10, <2>1, <2>2
    <2>3. ASSUME NEW w \in {"error", "warning"}, m.what = "modify", fate'[m.by] = "rejected",
                 news' = Append(news, says(w))
          PROVE  /\ news' \in Seq(ModifyWord)
                 /\ \A i \in DOMAIN news' : \/ i \in DOMAIN news /\ news'[i] = news[i]
                                            \/ fits(news'[i])
      <3>1. fits(says(w)) /\ says(w) \in ModifyWord
        BY <1>4, <1>7, <2>3
      <3> QED BY <2>1, <2>3, <3>1
    <2>4. CASE ibkr.fills < Modify!Full /\ news' = news \o <<says("echo")>> \o <<says("end")>>
      <3> DEFINE once == Append(news, says("echo"))
      <3>1. /\ once \in Seq(ModifyWord)
            /\ \A i \in DOMAIN once : (i \in DOMAIN news /\ once[i] = news[i]) \/ fits(once[i])
        <4> HIDE DEF fits
        <4> QED BY <1>1, <1>7, <1>10, PlacesAppended
      <3>2. once = news \o <<says("echo")>>
        BY <1>1, <1>7, AppendIsConcat
      <3> HIDE DEF once
      <3>3. news' = Append(once, says("end"))
        BY <1>7, <2>4, <3>1, <3>2, AppendIsConcat
      <3> HIDE DEF fits
      <3> QED BY <1>7, <1>10, <3>1, <3>3, PlacesAppended
    <2>5. CASE news' = news \o <<>> \o <<says("end")>>
      <3>1. news' = Append(news, says("end"))
        BY <1>1, <1>7, <2>5, ConcatEmptySeq, AppendIsConcat
      <3> QED BY <1>7, <1>10, <2>1, <3>1
    <2> HIDE DEF fits
    <2>6. CASE m.what = "open"
      BY <1>5, <2>4, <2>5, <2>6
    <2>7. CASE m.what = "modify"
      <3>1. \/ news' = Append(news, says("echo"))
            \/ /\ \E w \in {"error", "warning"} : news' = Append(news, says(w))
               /\ fate' = [fate EXCEPT ![m.by] = "rejected"]
        BY <1>5, <2>7
      <3>2. fate' = [fate EXCEPT ![m.by] = "rejected"] => fate'[m.by] = "rejected"
        BY <1>1, <1>4 DEF Modify!TypeOK
      <3> QED BY <2>2, <2>3, <2>7, <3>1, <3>2
    <2> QED BY <1>5, <2>6, <2>7
  <1>12. Modify!TypeOK'
    BY <1>1, <1>2, <1>3, <1>6, <1>8, <1>11 DEF Modify!TypeOK, ModifyAsk, ModifyWord
  <1> QED BY <1>2, <1>3, <1>4, <1>9, <1>11, <1>12

LEMMA ModifyReadKeeps ==
    ASSUME ModifyHolds, Modify!IbkrReads
    PROVE  ModifyHolds'
  <1>1. Modify!TypeOK /\ toIbkr \in Seq(ModifyAsk)
    BY ModifyMessages DEF ModifyHolds
  <1> DEFINE who == toIbkr[1].by
  <1>2. /\ toIbkr # <<>> /\ toIbkr' = Tail(toIbkr) /\ who \in Caller
        /\ Modify!TypeOK'
        /\ UNCHANGED <<pc, purpose, termsBefore, logStart, modifyOutcome, terms, log, overlapped>>
        /\ Modify!Asks(1) \/ (UNCHANGED <<ibkr, fate>>)
        /\ Modify!Asks(1) => \/ ibkr'.terms = toIbkr[1].terms /\ fate'[who] = "accepted"
                             \/ ibkr' = ibkr /\ fate'[who] = "rejected"
        /\ \A d \in Caller \ {who} : fate'[d] = fate[d]
    BY ModifyReadSays
  <1>3. \A i \in DOMAIN news' :
           \/ i \in DOMAIN news /\ news'[i] = news[i]
           \/ /\ news'[i].by = who
              /\ \/ news'[i].what = "echo" /\ news'[i].price = ibkr'.terms["price"]
                 \/ news'[i].what = "end"
                 \/ news'[i].what \in {"error", "warning"} /\ Modify!Asks(1) /\ fate'[who] = "rejected"
    BY ModifyReadSays
  <1>4. /\ 1 \in DOMAIN toIbkr
        /\ \A i \in DOMAIN toIbkr' : /\ i + 1 \in DOMAIN toIbkr /\ i + 1 # 1
                                     /\ toIbkr'[i] = toIbkr[i + 1]
        /\ \A i, j \in DOMAIN toIbkr' : i + 1 = j + 1 => i = j
    BY <1>1, <1>2, PlacesInTail
  <1>5. \A i \in DOMAIN toIbkr' : Modify!Asks(i)' => Modify!Asks(i + 1)
    BY <1>4 DEF Modify!Asks
  <1>6. \A i \in DOMAIN news' : Modify!Rejects(i)' <=> news'[i].what \in {"error", "warning"}
    BY DEF Modify!Rejects
  <1>7. \A i \in DOMAIN news : Modify!Rejects(i) <=> news[i].what \in {"error", "warning"}
    BY DEF Modify!Rejects
  <1>8. \A d \in Caller : /\ Modify!Unsent(d)' = Modify!Unsent(d)
                          /\ Modify!Since(logStart[d])' = Modify!Since(logStart[d])
    BY <1>2 DEF Modify!Unsent, Modify!Since
  <1>9. ASSUME Modify!Asks(1)
        PROVE  /\ fate[who] = "none" /\ ~Modify!Unsent(who)
               /\ \A i \in DOMAIN toIbkr' : Modify!Asks(i)' => toIbkr'[i].by # who
    <2>1. /\ fate[who] = "none" /\ ~Modify!Unsent(who)
          /\ \A j \in DOMAIN toIbkr : Modify!Asks(j) /\ toIbkr[j].by = who => j = 1
      BY <1>2, <1>4, <1>9 DEF ModifyHolds, Modify!SentOnce
    <2> QED BY <1>4, <1>5, <2>1
  <1>10. \A d \in Caller : /\ fate[d] = "rejected" => fate'[d] = "rejected"
                           /\ Modify!Unsent(d) => fate'[d] = fate[d]
    BY <1>2, <1>9
  <1>11. \A d \in Caller \cup {None} : d = None <=> d \notin Caller
    BY ModifyConstants
  <1>12. \A i \in DOMAIN news : news[i].by \in Caller \cup {None}
    BY ModifyMessages DEF ModifyHolds
  <1> HIDE DEF who
  <1>13. Modify!SentOnce'
    <2>1. \A d \in Caller : /\ Modify!Unsent(d)' => fate'[d] = "none"
                            /\ pc'[d] \in {"queued", "syncing", "answered"} => purpose'[d] # "none"
                            /\ pc'[d] = "waiting" => logStart'[d] <= Len(log')
      BY <1>2, <1>8, <1>10 DEF ModifyHolds, Modify!SentOnce
    <2>2. \A d \in Caller : \A i \in DOMAIN toIbkr' : Modify!Asks(i)' /\ toIbkr'[i].by = d =>
             /\ fate'[d] = "none" /\ ~Modify!Unsent(d)'
             /\ \A j \in DOMAIN toIbkr' : Modify!Asks(j)' /\ toIbkr'[j].by = d => j = i
      <3> SUFFICES ASSUME NEW d \in Caller, NEW i \in DOMAIN toIbkr', Modify!Asks(i)',
                          toIbkr'[i].by = d
                   PROVE  /\ fate'[d] = "none" /\ ~Modify!Unsent(d)'
                          /\ \A j \in DOMAIN toIbkr' : Modify!Asks(j)' /\ toIbkr'[j].by = d => j = i
        OBVIOUS
      <3>1. i + 1 \in DOMAIN toIbkr /\ Modify!Asks(i + 1) /\ toIbkr[i + 1].by = d
        BY <1>4, <1>5
      <3>2. /\ fate[d] = "none" /\ ~Modify!Unsent(d)
            /\ \A j \in DOMAIN toIbkr : Modify!Asks(j) /\ toIbkr[j].by = d => j = i + 1
        BY <3>1 DEF ModifyHolds, Modify!SentOnce
      <3>3. fate'[d] = "none"
        BY <1>2, <1>9, <3>2
      <3>4. \A j \in DOMAIN toIbkr' : Modify!Asks(j)' /\ toIbkr'[j].by = d => j = i
        BY <1>4, <1>5, <3>2
      <3> QED BY <1>8, <3>2, <3>3, <3>4
    <2>3. \A i \in DOMAIN news' : /\ Modify!Rejects(i)' => fate'[news'[i].by] = "rejected"
                                  /\ news'[i].by = None <=> news'[i].what = "status"
      <3> SUFFICES ASSUME NEW i \in DOMAIN news'
                   PROVE  /\ Modify!Rejects(i)' => fate'[news'[i].by] = "rejected"
                          /\ news'[i].by = None <=> news'[i].what = "status"
        OBVIOUS
      <3>1. CASE i \in DOMAIN news /\ news'[i] = news[i]
        <4>1. /\ Modify!Rejects(i) => fate[news[i].by] = "rejected"
              /\ news[i].by = None <=> news[i].what = "status"
          BY <3>1 DEF ModifyHolds, Modify!SentOnce
        <4> QED BY <1>6, <1>7, <1>10, <1>11, <1>12, <3>1, <4>1
      <3>2. CASE ~(i \in DOMAIN news /\ news'[i] = news[i])
        BY <1>2, <1>3, <1>6, <1>11, <3>2
      <3> QED BY <3>1, <3>2
    <2> QED BY <2>1, <2>2, <2>3 DEF Modify!SentOnce
  <1>14. Modify!HearsItsOwn'
    <2> SUFFICES ASSUME NEW d \in Caller \ overlapped', pc'[d] = "waiting"
                 PROVE  /\ \A i \in DOMAIN toIbkr' : Modify!Asks(i)' => toIbkr'[i].by = d
                        /\ \A i \in DOMAIN news' : Modify!Rejects(i)' => news'[i].by = d
                        /\ {"error", "warning"} \cap Modify!Since(logStart[d])' # {} =>
                              fate'[d] = "rejected"
      BY DEF Modify!HearsItsOwn
    <2>1. /\ \A i \in DOMAIN toIbkr : Modify!Asks(i) => toIbkr[i].by = d
          /\ \A i \in DOMAIN news : Modify!Rejects(i) => news[i].by = d
          /\ {"error", "warning"} \cap Modify!Since(logStart[d]) # {} => fate[d] = "rejected"
      BY <1>2 DEF ModifyHolds, Modify!HearsItsOwn
    <2>2. Modify!Asks(1) => who = d
      BY <1>4, <2>1 DEF who
    <2>3. \A i \in DOMAIN news' : Modify!Rejects(i)' => news'[i].by = d
      BY <1>3, <1>6, <1>7, <2>1, <2>2
    <2> QED BY <1>4, <1>5, <1>8, <1>10, <2>1, <2>3
  <1>15. ASSUME overlapped' = {}
         PROVE  /\ overlapped = {} /\ \A i \in DOMAIN toIbkr' : ~Modify!Asks(i)'
                /\ Modify!Asks(1) => \A j \in DOMAIN news : news[j].by = None
                /\ \A i \in DOMAIN news : news[i].what = "echo" => news[i].price = ibkr.terms["price"]
    BY <1>2, <1>4, <1>5, <1>15 DEF ModifyHolds, Modify!ReadInTurn
  <1>16. Modify!ReadInTurn'
    <2> SUFFICES ASSUME overlapped' = {}
                 PROVE  \A i \in DOMAIN news' : news'[i].what = "echo" =>
                           news'[i].price = ibkr'.terms["price"]
      BY <1>15 DEF Modify!ReadInTurn
    <2>1. ASSUME Modify!Asks(1) PROVE \A j \in DOMAIN news : news[j].what = "status"
      BY <1>15, <2>1 DEF ModifyHolds, Modify!SentOnce
    <2> QED BY <1>2, <1>3, <1>15, <2>1
  <1>17. Modify!RejectionIsOwnAlone'
    BY <1>2, <1>10 DEF ModifyHolds, Modify!RejectionIsOwnAlone
  <1>18. ASSUME overlapped' = {}, ModifyNoticed' PROVE ModifyTerms'
    <2>1. ModifyNoticed
      BY <1>2, <1>10, <1>18 DEF ModifyNoticed
    <2>2. ModifyTerms /\ overlapped = {}
      BY <1>15, <1>18, <2>1, ModifyTermsKept DEF ModifyHolds
    <2>3. \A i \in DOMAIN toIbkr' : ~Modify!Asks(i)'
      BY <1>15, <1>18
    <2>4. CASE ~Modify!Asks(1)
      <3>1. \A i \in DOMAIN toIbkr : ~Modify!Asks(i)
        BY <2>2, <2>4 DEF ModifyHolds, Modify!ReadInTurn
      <3>2. UNCHANGED <<ibkr, fate>>
        BY <1>2, <2>4
      <3> QED BY <1>2, <2>2, <2>3, <3>1, <3>2 DEF ModifyTerms
    <2>5. CASE Modify!Asks(1)
      <3>1. terms = toIbkr[1].terms /\ termsBefore[who] = ibkr.terms
        BY <1>4, <2>2, <2>5 DEF ModifyTerms, who
      <3>2. CASE ibkr'.terms = toIbkr[1].terms /\ fate'[who] = "accepted"
        <4>1. \A d \in Caller : ~(pc'[d] = "waiting" /\ fate'[d] = "rejected")
          <5> SUFFICES ASSUME NEW d \in Caller, pc'[d] = "waiting", fate'[d] = "rejected" PROVE FALSE
            OBVIOUS
          <5>1. pc[d] = "waiting" /\ d # who
            BY <1>2, <3>2
          <5>2. who = d
            BY <1>4, <2>2, <2>5, <5>1 DEF ModifyHolds, Modify!HearsItsOwn, who
          <5> QED BY <5>1, <5>2
        <4> QED BY <1>2, <2>3, <3>1, <3>2, <4>1 DEF ModifyTerms
      <3>3. CASE ibkr' = ibkr /\ fate'[who] = "rejected"
        <4>1. pc'[who] = "waiting"
          <5>1. modifyOutcome[who] # "rejected"
            BY <1>2, <1>9, <2>2, <2>5 DEF ModifyHolds, Modify!RejectionIsOwnAlone
          <5> QED BY <1>2, <1>18, <3>3, <5>1 DEF ModifyNoticed
        <4>2. \A d \in Caller : pc'[d] = "waiting" /\ fate'[d] = "rejected" =>
                 termsBefore'[d] = ibkr'.terms
          BY <1>2, <2>2, <3>1, <3>3 DEF ModifyTerms
        <4> QED BY <1>2, <2>3, <3>3, <4>1, <4>2 DEF ModifyTerms
      <3> QED BY <1>2, <2>5, <3>2, <3>3
    <2> QED BY <2>4, <2>5
  <1>19. Modify!TermsToKeep'
    BY <1>18, ModifyTermsKeptNext
  <1> QED BY <1>2, <1>13, <1>14, <1>16, <1>17, <1>19 DEF ModifyHolds

LEMMA ModifyFillKeeps ==
    ASSUME ModifyHolds, Modify!Fill
    PROVE  ModifyHolds'
  <1>1. Modify!TypeOK /\ news \in Seq(ModifyWord)
    BY ModifyMessages DEF ModifyHolds
  <1> DEFINE item == Modify!Says("status", None)
  <1>2. /\ ibkr.fills < Modify!Full /\ ibkr' = [ibkr EXCEPT !.fills = @ + 1]
        /\ news' = Append(news, item)
        /\ UNCHANGED <<pc, purpose, modified, original, fillsSeen, termsBefore, logStart, woken, echoed,
                       modifyOutcome, lock, terms, status, fills, log, toIbkr, fate, overlapped>>
    BY DEF Modify!Fill, Modify!token, Modify!waitVars, Modify!trade, Modify!history
  <1>3. Modify!Full \in Nat
    BY ModifyConstants DEF Modify!Full
  <1>4. ibkr \in [terms : Modify!Terms, fills : 0..Modify!Full]
    BY <1>1 DEF Modify!TypeOK
  <1>5. ibkr'.terms = ibkr.terms /\ ibkr' \in [terms : Modify!Terms, fills : 0..Modify!Full]
    <2>1. ibkr.fills + 1 \in 0..Modify!Full
      BY <1>2, <1>3, <1>4
    <2> QED BY <1>2, <1>4, <2>1
  <1>6. item \in ModifyWord /\ item.what = "status" /\ item.by = None
    BY <1>5 DEF ModifyWord, Modify!Says, Modify!Terms
  <1> HIDE DEF item
  <1>7. /\ news' \in Seq(ModifyWord)
        /\ \A i \in DOMAIN news' : (i \in DOMAIN news /\ news'[i] = news[i]) \/ news'[i] = item
    BY <1>1, <1>2, <1>6, PlacesAppended
  <1>8. Modify!TypeOK'
    BY <1>1, <1>2, <1>5, <1>7 DEF Modify!TypeOK, ModifyWord
  <1>9. \A i : Modify!Asks(i)' <=> Modify!Asks(i)
    BY <1>2 DEF Modify!Asks
  <1>10. \A i \in DOMAIN news' : Modify!Rejects(i)' =>
            i \in DOMAIN news /\ news'[i] = news[i] /\ Modify!Rejects(i)
    BY <1>6, <1>7 DEF Modify!Rejects
  <1>11. \A d \in Caller : /\ Modify!Unsent(d)' <=> Modify!Unsent(d)
                           /\ Modify!Since(logStart[d])' = Modify!Since(logStart[d])
    BY <1>2 DEF Modify!Unsent, Modify!Since
  <1>12. Modify!SentOnce'
    <2>1. \A d \in Caller : /\ Modify!Unsent(d)' => fate'[d] = "none"
                            /\ pc'[d] \in {"queued", "syncing", "answered"} => purpose'[d] # "none"
                            /\ pc'[d] = "waiting" => logStart'[d] <= Len(log')
      BY <1>2, <1>11 DEF ModifyHolds, Modify!SentOnce
    <2>2. \A d \in Caller : \A i \in DOMAIN toIbkr' : Modify!Asks(i)' /\ toIbkr'[i].by = d =>
             /\ fate'[d] = "none" /\ ~Modify!Unsent(d)'
             /\ \A j \in DOMAIN toIbkr' : Modify!Asks(j)' /\ toIbkr'[j].by = d => j = i
      BY <1>2, <1>9, <1>11 DEF ModifyHolds, Modify!SentOnce
    <2>3. \A i \in DOMAIN news' : /\ Modify!Rejects(i)' => fate'[news'[i].by] = "rejected"
                                  /\ news'[i].by = None <=> news'[i].what = "status"
      BY <1>2, <1>6, <1>7, <1>10 DEF ModifyHolds, Modify!SentOnce
    <2> QED BY <2>1, <2>2, <2>3 DEF Modify!SentOnce
  <1>13. Modify!HearsItsOwn'
    <2> SUFFICES ASSUME NEW d \in Caller \ overlapped', pc'[d] = "waiting"
                 PROVE  /\ \A i \in DOMAIN toIbkr' : Modify!Asks(i)' => toIbkr'[i].by = d
                        /\ \A i \in DOMAIN news' : Modify!Rejects(i)' => news'[i].by = d
                        /\ {"error", "warning"} \cap Modify!Since(logStart[d])' # {} =>
                              fate'[d] = "rejected"
      BY DEF Modify!HearsItsOwn
    <2> QED BY <1>2, <1>9, <1>10, <1>11 DEF ModifyHolds, Modify!HearsItsOwn
  <1>14. Modify!ReadInTurn'
    <2> SUFFICES ASSUME overlapped' = {}
                 PROVE  /\ \A i \in DOMAIN toIbkr' : Modify!Asks(i)' =>
                              i = 1 /\ \A j \in DOMAIN news' : news'[j].by = None
                        /\ \A i \in DOMAIN news' : news'[i].what = "echo" =>
                              news'[i].price = ibkr'.terms["price"]
      BY DEF Modify!ReadInTurn
    <2> QED BY <1>2, <1>5, <1>6, <1>7, <1>9 DEF ModifyHolds, Modify!ReadInTurn
  <1>15. Modify!RejectionIsOwnAlone'
    BY <1>2 DEF ModifyHolds, Modify!RejectionIsOwnAlone
  <1>16. ASSUME overlapped' = {}, ModifyNoticed' PROVE ModifyTerms'
    <2>1. overlapped = {} /\ ModifyNoticed
      BY <1>2, <1>16 DEF ModifyNoticed
    <2> QED BY <1>2, <1>5, <1>9, <2>1, ModifyTermsKept DEF ModifyHolds, ModifyTerms
  <1>17. Modify!TermsToKeep'
    BY <1>16, ModifyTermsKeptNext
  <1> QED BY <1>8, <1>12, <1>13, <1>14, <1>15, <1>17 DEF ModifyHolds

\* What ib_async does on a message.
LEMMA ModifyHears ==
    ASSUME ModifyHolds, Modify!Deliver
    PROVE  /\ news # <<>> /\ news' = Tail(news) /\ Modify!TypeOK'
           /\ UNCHANGED <<purpose, termsBefore, logStart, modifyOutcome, toIbkr, ibkr, fate,
                          overlapped>>
           /\ \/ news[1].what = "echo" /\ terms' = [terms EXCEPT !["price"] = news[1].price]
              \/ news[1].what # "echo" /\ terms' = terms
           /\ \A c \in Caller : \/ pc'[c] = pc[c]
                                \/ pc[c] = "syncing" /\ pc'[c] = "answered"
           /\ Len(log') \in Nat /\ Len(log) \in Nat /\ Len(log) <= Len(log')
           /\ \A place \in Nat : Modify!Since(place)' \subseteq
                 Modify!Since(place) \cup {"status"} \cup ({news[1].what} \cap {"error", "warning"})
  <1> DEFINE m == Head(news)
             words == {"modify", "status", "error", "warning"}
  <1>1. Modify!TypeOK /\ news \in Seq(ModifyWord) /\ log \in Seq(words)
    BY ModifyMessages DEF ModifyHolds, Modify!TypeOK
  <1>2. /\ news # <<>> /\ news' = Tail(news)
        /\ UNCHANGED <<purpose, modified, original, fillsSeen, termsBefore, logStart, modifyOutcome,
                       lock, toIbkr, ibkr, fate, overlapped>>
        /\ terms' = (IF m.what = "echo" THEN [terms EXCEPT !["price"] = m.price] ELSE terms)
        /\ fills' = (IF m.what \in {"echo", "status"} THEN m.fills ELSE fills)
        /\ status' = (CASE m.what = "error" -> "Cancelled"
                        [] m.what = "warning" -> "ValidationError"
                        [] m.what = "end" -> status
                        [] OTHER -> Modify!Shown(m.fills))
        /\ log' = (CASE m.what \in {"error", "warning", "status"} -> Append(log, m.what)
                     [] m.what = "echo" /\ status' # status -> Append(log, "status")
                     [] OTHER -> log)
        /\ pc' = [c \in Caller |-> IF m.what = "end" /\ lock = c /\ pc[c] = "syncing"
                                   THEN "answered" ELSE pc[c]]
    BY DEF Modify!Deliver, Modify!token
  <1>3. /\ woken' = woken \cup (IF m.what # "end" THEN {c \in Caller : pc[c] = "waiting"} ELSE {})
        /\ echoed' = echoed \cup (IF m.what = "echo" THEN {c \in Caller : pc[c] = "waiting"} ELSE {})
    BY DEF Modify!Deliver
  <1>4. m \in ModifyWord /\ m = news[1] /\ news' \in Seq(ModifyWord)
    BY <1>1, <1>2, PlacesInTail, HeadTailProperties
  <1>5. /\ m.what \in {"echo", "error", "warning", "end", "status"}
        /\ m.price \in Caller \cup {None} /\ m.fills \in 0..Modify!Full
    BY <1>4 DEF ModifyWord
  <1>6. terms' \in Modify!Terms
    BY <1>1, <1>2, <1>5 DEF Modify!TypeOK, Modify!Terms
  <1>7. fills' \in 0..Modify!Full
    BY <1>1, <1>2, <1>5 DEF Modify!TypeOK
  <1>8. status' \in {"Submitted", "Cancelled", "ValidationError", "Filled"}
    BY <1>1, <1>2, <1>5 DEF Modify!TypeOK, Modify!Shown
  <1>9. \/ log' = log
        \/ \E x \in {"status"} \cup ({m.what} \cap {"error", "warning"}) : log' = Append(log, x)
    <2>1. CASE m.what \in {"error", "warning", "status"}
      <3>1. log' = Append(log, m.what)
        BY <1>2, <2>1
      <3>2. m.what \in {"status"} \cup ({m.what} \cap {"error", "warning"})
        BY <2>1
      <3> QED BY <3>1, <3>2
    <2>2. CASE m.what = "echo" /\ status' # status
      BY <1>2, <2>2
    <2>3. CASE ~(m.what \in {"error", "warning", "status"}) /\ ~(m.what = "echo" /\ status' # status)
      BY <1>2, <2>3
    <2> QED BY <2>1, <2>2, <2>3
  <1> DEFINE new == {"status"} \cup ({m.what} \cap {"error", "warning"})
  <1>10. new \subseteq words
    OBVIOUS
  <1> HIDE DEF new, words
  <1>11. log' = log \/ \E x \in new : log' = Append(log, x)
    BY <1>9 DEF new
  <1>12. /\ log' \in Seq(words) /\ Len(log) \in Nat /\ Len(log') \in Nat /\ Len(log) <= Len(log')
         /\ \A i \in 1..Len(log') : (i \in 1..Len(log) /\ log'[i] = log[i]) \/ log'[i] \in new
    <2>1. Len(log) \in Nat /\ DOMAIN log = 1..Len(log)
      BY <1>1, LenProperties
    <2>2. CASE log' = log
      BY <1>1, <2>1, <2>2
    <2>3. ASSUME NEW x \in new, log' = Append(log, x)
          PROVE  /\ log' \in Seq(words) /\ Len(log') \in Nat /\ Len(log) <= Len(log')
                 /\ \A i \in 1..Len(log') : (i \in 1..Len(log) /\ log'[i] = log[i]) \/ log'[i] \in new
      <3>1. x \in words
        BY <1>10
      <3>2. /\ log' \in Seq(words) /\ Len(log') = Len(log) + 1 /\ DOMAIN log' = 1..(Len(log) + 1)
            /\ \A i \in DOMAIN log' : \/ i \in DOMAIN log /\ log'[i] = log[i]
                                      \/ i = Len(log) + 1 /\ log'[i] = x
        BY <1>1, <2>3, <3>1, PlacesAppended
      <3>3. Len(log') \in Nat /\ Len(log) <= Len(log')
        BY <2>1, <3>2
      <3> QED BY <2>1, <3>2, <3>3
    <2> QED BY <1>11, <2>1, <2>2, <2>3
  <1>13. \A place \in Nat : Modify!Since(place)' \subseteq Modify!Since(place) \cup new
    <2> SUFFICES ASSUME NEW place \in Nat, NEW i \in (place + 1)..Len(log')
                 PROVE  log'[i] \in Modify!Since(place) \cup new
      BY DEF Modify!Since
    <2>1. i \in 1..Len(log')
      BY <1>12
    <2>2. i \in 1..Len(log) => i \in (place + 1)..Len(log)
      BY <1>12
    <2> QED BY <1>12, <2>1, <2>2 DEF Modify!Since
  <1>14. /\ \A c \in Caller : \/ pc'[c] = pc[c]
                              \/ pc[c] = "syncing" /\ pc'[c] = "answered"
         /\ pc' \in [Caller -> {"idle", "queued", "syncing", "answered", "describing", "previewed",
                                "waiting", "done"}]
    BY <1>1, <1>2 DEF Modify!TypeOK
  <1>15. woken' \subseteq Caller /\ echoed' \subseteq Caller
    BY <1>1, <1>3 DEF Modify!TypeOK
  <1>16. Modify!TypeOK'
    BY <1>1, <1>2, <1>4, <1>6, <1>7, <1>8, <1>12, <1>14, <1>15 DEF Modify!TypeOK, ModifyWord, words
  <1> QED BY <1>2, <1>4, <1>12, <1>13, <1>14, <1>16 DEF new

LEMMA ModifyDeliverKeeps ==
    ASSUME ModifyHolds, Modify!Deliver
    PROVE  ModifyHolds'
  <1>1. Modify!TypeOK /\ news \in Seq(ModifyWord)
    BY ModifyMessages DEF ModifyHolds
  <1>2. /\ news # <<>> /\ news' = Tail(news) /\ Modify!TypeOK'
        /\ UNCHANGED <<purpose, termsBefore, logStart, modifyOutcome, toIbkr, ibkr, fate, overlapped>>
        /\ \/ news[1].what = "echo" /\ terms' = [terms EXCEPT !["price"] = news[1].price]
           \/ news[1].what # "echo" /\ terms' = terms
        /\ \A c \in Caller : \/ pc'[c] = pc[c]
                             \/ pc[c] = "syncing" /\ pc'[c] = "answered"
        /\ Len(log') \in Nat /\ Len(log) \in Nat /\ Len(log) <= Len(log')
        /\ \A place \in Nat : Modify!Since(place)' \subseteq
              Modify!Since(place) \cup {"status"} \cup ({news[1].what} \cap {"error", "warning"})
    BY ModifyHears
  <1>3. /\ 1 \in DOMAIN news
        /\ \A i \in DOMAIN news' : i + 1 \in DOMAIN news /\ news'[i] = news[i + 1]
    BY <1>1, <1>2, PlacesInTail
  <1>4. \A i : Modify!Asks(i)' <=> Modify!Asks(i)
    BY <1>2 DEF Modify!Asks
  <1>5. \A i \in DOMAIN news' : Modify!Rejects(i)' => Modify!Rejects(i + 1)
    BY <1>3 DEF Modify!Rejects
  <1>6. \A c \in Caller : /\ Modify!Unsent(c)' <=> Modify!Unsent(c)
                          /\ pc'[c] = "waiting" <=> pc[c] = "waiting"
    BY <1>2 DEF Modify!Unsent
  <1>7. Modify!SentOnce'
    <2>1. \A c \in Caller : /\ Modify!Unsent(c)' => fate'[c] = "none"
                            /\ pc'[c] \in {"queued", "syncing", "answered"} => purpose'[c] # "none"
                            /\ pc'[c] = "waiting" => logStart'[c] <= Len(log')
      <3> SUFFICES ASSUME NEW c \in Caller
                   PROVE  /\ Modify!Unsent(c)' => fate'[c] = "none"
                          /\ pc'[c] \in {"queued", "syncing", "answered"} => purpose'[c] # "none"
                          /\ pc'[c] = "waiting" => logStart'[c] <= Len(log')
        OBVIOUS
      <3>1. logStart[c] \in Nat
        BY <1>1 DEF Modify!TypeOK
      <3>2. pc[c] = "waiting" => logStart[c] <= Len(log)
        BY DEF ModifyHolds, Modify!SentOnce
      <3>3. pc'[c] = "waiting" => logStart'[c] <= Len(log')
        BY <1>2, <1>6, <3>1, <3>2
      <3> QED BY <1>2, <1>6, <3>3 DEF ModifyHolds, Modify!SentOnce
    <2>2. \A c \in Caller : \A i \in DOMAIN toIbkr' : Modify!Asks(i)' /\ toIbkr'[i].by = c =>
             /\ fate'[c] = "none" /\ ~Modify!Unsent(c)'
             /\ \A j \in DOMAIN toIbkr' : Modify!Asks(j)' /\ toIbkr'[j].by = c => j = i
      BY <1>2, <1>4, <1>6 DEF ModifyHolds, Modify!SentOnce
    <2>3. \A i \in DOMAIN news' : /\ Modify!Rejects(i)' => fate'[news'[i].by] = "rejected"
                                  /\ news'[i].by = None <=> news'[i].what = "status"
      <3> SUFFICES ASSUME NEW i \in DOMAIN news'
                   PROVE  /\ Modify!Rejects(i)' => fate'[news'[i].by] = "rejected"
                          /\ news'[i].by = None <=> news'[i].what = "status"
        OBVIOUS
      <3>1. i + 1 \in DOMAIN news /\ news'[i] = news[i + 1]
        BY <1>3
      <3>2. /\ Modify!Rejects(i + 1) => fate[news[i + 1].by] = "rejected"
            /\ news[i + 1].by = None <=> news[i + 1].what = "status"
        BY <3>1 DEF ModifyHolds, Modify!SentOnce
      <3> QED BY <1>2, <1>5, <3>1, <3>2
    <2> QED BY <2>1, <2>2, <2>3 DEF Modify!SentOnce
  <1>8. Modify!HearsItsOwn'
    <2> SUFFICES ASSUME NEW c \in Caller \ overlapped', pc'[c] = "waiting"
                 PROVE  /\ \A i \in DOMAIN toIbkr' : Modify!Asks(i)' => toIbkr'[i].by = c
                        /\ \A i \in DOMAIN news' : Modify!Rejects(i)' => news'[i].by = c
                        /\ {"error", "warning"} \cap Modify!Since(logStart[c])' # {} =>
                              fate'[c] = "rejected"
      BY DEF Modify!HearsItsOwn
    <2>1. /\ \A i \in DOMAIN toIbkr : Modify!Asks(i) => toIbkr[i].by = c
          /\ \A i \in DOMAIN news : Modify!Rejects(i) => news[i].by = c
          /\ {"error", "warning"} \cap Modify!Since(logStart[c]) # {} => fate[c] = "rejected"
      BY <1>2, <1>6 DEF ModifyHolds, Modify!HearsItsOwn
    <2>2. \A i \in DOMAIN news' : Modify!Rejects(i)' => news'[i].by = c
      <3> SUFFICES ASSUME NEW i \in DOMAIN news', Modify!Rejects(i)' PROVE news'[i].by = c
        OBVIOUS
      <3>1. i + 1 \in DOMAIN news /\ news'[i] = news[i + 1] /\ Modify!Rejects(i + 1)
        BY <1>3, <1>5
      <3> QED BY <2>1, <3>1
    <2>3. Modify!Rejects(1) => fate[c] = "rejected"
      BY <1>3, <2>1 DEF ModifyHolds, Modify!SentOnce
    <2>4. logStart[c] \in Nat /\ logStart' = logStart
      BY <1>1, <1>2 DEF Modify!TypeOK
    <2>5. Modify!Since(logStart[c])' \subseteq
             Modify!Since(logStart[c]) \cup {"status"} \cup ({news[1].what} \cap {"error", "warning"})
      <3>1. Modify!Since(logStart[c])' = {log'[i] : i \in (logStart[c] + 1)..Len(log')}
        BY <2>4 DEF Modify!Since
      <3>2. \A place \in Nat : Modify!Since(place)' = {log'[i] : i \in (place + 1)..Len(log')}
        BY DEF Modify!Since
      <3> QED BY <1>2, <2>4, <3>1, <3>2
    <2>6. {"error", "warning"} \cap Modify!Since(logStart[c])' # {} => fate[c] = "rejected"
      BY <2>1, <2>3, <2>5 DEF Modify!Rejects
    <2> QED BY <1>2, <1>4, <2>1, <2>2, <2>6
  <1>9. Modify!ReadInTurn'
    BY <1>2, <1>3, <1>4 DEF ModifyHolds, Modify!ReadInTurn
  <1>10. Modify!RejectionIsOwnAlone'
    BY <1>2 DEF ModifyHolds, Modify!RejectionIsOwnAlone
  <1>11. ASSUME overlapped' = {}, ModifyNoticed' PROVE ModifyTerms'
    <2>1. ModifyNoticed
      BY <1>2, <1>6, <1>11 DEF ModifyNoticed
    <2>2. overlapped = {} /\ ModifyTerms
      BY <1>2, <1>11, <2>1, ModifyTermsKept DEF ModifyHolds
    <2>3. CASE terms' = terms
      BY <1>2, <1>4, <1>6, <2>2, <2>3 DEF ModifyTerms
    <2>4. CASE news[1].what = "echo" /\ terms' = [terms EXCEPT !["price"] = news[1].price]
      <3>1. news[1].by # None /\ news[1].price = ibkr.terms["price"]
        BY <1>3, <2>2, <2>4 DEF ModifyHolds, Modify!SentOnce, Modify!ReadInTurn
      <3>2. \A i \in DOMAIN toIbkr : ~Modify!Asks(i)
        BY <1>3, <2>2, <3>1 DEF ModifyHolds, Modify!ReadInTurn
      <3>3. terms \in Modify!Terms
        BY <1>1 DEF Modify!TypeOK
      <3>4. terms = ibkr.terms => terms' = terms
        BY <2>4, <3>1, <3>3 DEF Modify!Terms
      <3> QED BY <1>2, <1>4, <1>6, <2>2, <3>2, <3>4 DEF ModifyTerms
    <2> QED BY <1>2, <2>3, <2>4
  <1>12. Modify!TermsToKeep'
    BY <1>11, ModifyTermsKeptNext
  <1> QED BY <1>2, <1>7, <1>8, <1>9, <1>10, <1>12 DEF ModifyHolds

LEMMA ModifyStarts == Modify!Init => ModifyHolds
  <1> SUFFICES ASSUME Modify!Init PROVE ModifyHolds
    OBVIOUS
  <1>1. /\ pc = [c \in Caller |-> "idle"] /\ purpose = [c \in Caller |-> "none"]
        /\ modified = [c \in Caller |-> Modify!Untouched] /\ original = modified
        /\ termsBefore = modified
        /\ fillsSeen = [c \in Caller |-> 0] /\ logStart = fillsSeen
        /\ woken = {} /\ echoed = {} /\ overlapped = {}
        /\ modifyOutcome = [c \in Caller |-> "none"] /\ fate = [c \in Caller |-> "none"]
        /\ lock = None
        /\ terms = Modify!Untouched /\ status = "Submitted" /\ fills = 0 /\ log = <<>>
        /\ toIbkr = <<>> /\ news = <<>>
        /\ ibkr = [terms |-> Modify!Untouched, fills |-> 0]
    BY DEF Modify!Init
  <1>2. Modify!Untouched \in Modify!Terms /\ Modify!Full \in Nat
    BY ModifyConstants DEF Modify!Untouched, Modify!Terms, Modify!Full
  <1>3. Modify!TypeOK
    BY <1>1, <1>2, ModifyConstants DEF Modify!TypeOK
  <1>4. DOMAIN toIbkr = {} /\ DOMAIN news = {}
    BY <1>1
  <1>5. Modify!SentOnce /\ Modify!HearsItsOwn /\ Modify!RejectionIsOwnAlone
    BY <1>1, <1>4 DEF Modify!SentOnce, Modify!HearsItsOwn, Modify!RejectionIsOwnAlone
  <1>6. Modify!ReadInTurn
    BY <1>4 DEF Modify!ReadInTurn
  <1>7. ModifyTerms
    BY <1>1, <1>4 DEF ModifyTerms
  <1> QED BY <1>3, <1>5, <1>6, <1>7, ModifyTermsKept DEF ModifyHolds

LEMMA ModifyStays == ModifyHolds /\ UNCHANGED Modify!mvars => ModifyHolds'
  <1> SUFFICES ASSUME ModifyHolds, UNCHANGED Modify!mvars PROVE ModifyHolds'
    OBVIOUS
  <1>1. UNCHANGED <<pc, purpose, modified, original, fillsSeen, termsBefore, logStart, woken, echoed,
                    modifyOutcome, lock, terms, status, fills, log, toIbkr, news, ibkr, fate,
                    overlapped>>
    BY DEF Modify!mvars, Modify!token, Modify!waitVars, Modify!trade, Modify!wires, Modify!history
  <1>2. Modify!TypeOK'
    BY <1>1 DEF ModifyHolds, Modify!TypeOK
  <1>3. \A c \in Caller : /\ Modify!Unsent(c)' => Modify!Unsent(c)
                          /\ pc'[c] = "waiting" <=> pc[c] = "waiting"
                          /\ pc'[c] \in {"queued", "syncing", "answered"} => purpose'[c] # "none"
    BY <1>1 DEF ModifyHolds, Modify!SentOnce, Modify!Unsent
  <1> QED BY <1>1, <1>2, <1>3, ModifyCallsKeep DEF Modify!Asks

LEMMA ModifyKeeps == ModifyHolds /\ [Modify!Next]_(Modify!mvars) => ModifyHolds'
  <1> SUFFICES ASSUME ModifyHolds, [Modify!Next]_(Modify!mvars) PROVE ModifyHolds'
    OBVIOUS
  <1>1. ASSUME NEW c \in Caller, Modify!Preview(c) \/ Modify!Describe(c) \/ Modify!Submit(c)
        PROVE  ModifyHolds'
    BY <1>1, ModifyPreviewKeeps, ModifyDescribeKeeps, ModifySubmitKeeps
  <1>2. ASSUME NEW c \in Caller, Modify!Answered(c) \/ Modify!TimesOut(c) PROVE ModifyHolds'
    BY <1>2, ModifyResumeKeeps DEF Modify!Answered, Modify!TimesOut
  <1>3. ASSUME NEW c \in Caller, Modify!Ask(c) \/ Modify!Synced(c) PROVE ModifyHolds'
    BY <1>3, ModifyAskKeeps, ModifySyncedKeeps
  <1>4. CASE Modify!IbkrReads \/ Modify!Fill \/ Modify!Deliver
    BY <1>4, ModifyReadKeeps, ModifyFillKeeps, ModifyDeliverKeeps
  <1>5. CASE UNCHANGED Modify!mvars
    BY <1>5, ModifyStays
  <1> QED BY <1>1, <1>2, <1>3, <1>4, <1>5 DEF Modify!Next

-----------------------------------------------------------------------------
(* The worker that reads the gateway's log (LogReading) *)

LEMMA ReadingConstants ==
    /\ ReadTimeout \in Nat \ {0} /\ MaxClock \in Nat \ {0} /\ MaxReadings \in Nat \ {0}
    /\ None \notin Nat
  BY AnswerPartsAssumption DEF Reading!ReadingAssumption

LEMMA ReadingStarts == Reading!Init => Reading!IInv
  <1> SUFFICES ASSUME Reading!Init PROVE Reading!IInv
    OBVIOUS
  <1> USE ReadingConstants DEF Reading!Init
  <1>1. Reading!TypeOK
    BY DEF Reading!TypeOK
  <1>2. \A c \in Caller : asks[c].at = "idle" /\ asks[c].read = 0
    OBVIOUS
  <1>3. Reading!Numbered /\ Reading!GivenUpIsOverdue /\ Reading!WaitsInTime /\ Reading!NoQueueBehindHung
    BY <1>2 DEF Reading!Numbered, Reading!GivenUpIsOverdue, Reading!WaitsInTime,
       Reading!NoQueueBehindHung
  <1> QED BY <1>1, <1>3 DEF Reading!IInv

\* What the invariant says of the calls, with the numbers in it.
LEMMA ReadingKnown ==
    ASSUME Reading!IInv
    PROVE  /\ clock \in Nat /\ readings \in Nat /\ None \notin Nat /\ ReadTimeout \in Nat
           /\ reader = None \/ reader = readings
           /\ asks \in [Caller -> [at : {"idle", "waiting", "answered", "timed_out", "busy"},
                                   read : 0..MaxReadings, since : 0..MaxClock]]
           /\ \A c \in Caller : asks[c].read \in Nat /\ asks[c].since \in Nat /\ asks[c].read <= readings
  <1>1. /\ clock \in 0..MaxClock /\ readings \in 0..MaxReadings
        /\ asks \in [Caller -> [at : {"idle", "waiting", "answered", "timed_out", "busy"},
                                read : 0..MaxReadings, since : 0..MaxClock]]
    BY DEF Reading!IInv, Reading!TypeOK
  <1>2. /\ reader = None \/ reader = readings
        /\ \A c \in Caller : asks[c].read <= readings
    BY DEF Reading!IInv, Reading!Numbered
  <1>3. clock \in Nat /\ readings \in Nat
    BY <1>1, ReadingConstants
  <1>4. \A c \in Caller : asks[c].read \in Nat /\ asks[c].since \in Nat
    BY <1>1, ReadingConstants
  <1> QED BY <1>1, <1>2, <1>3, <1>4, ReadingConstants

LEMMA ReadingAsks ==
    ASSUME Reading!IInv, NEW c \in Caller, Reading!Ask(c)
    PROVE  Reading!IInv'
  <1> DEFINE Waits(n) == [at |-> "waiting", read |-> n, since |-> clock]
  <1>1. UNCHANGED <<clock, overdue>> /\ asks[c].at # "waiting"
    BY DEF Reading!Ask
  <1>2. CASE /\ Reading!Stuck /\ UNCHANGED <<reader, readings>>
             /\ asks' = [asks EXCEPT ![c] = [at |-> "busy", read |-> 0, since |-> clock]]
    <2>1. Reading!TypeOK'
      BY <1>1, <1>2, ReadingConstants DEF Reading!IInv, Reading!TypeOK
    <2>2. /\ asks'[c].at = "busy" /\ asks'[c].read = 0
          /\ \A d \in Caller : d # c => asks'[d] = asks[d]
      BY <1>2, ReadingKnown
    <2>3. Reading!Numbered' /\ Reading!GivenUpIsOverdue' /\ Reading!WaitsInTime'
      BY <1>1, <1>2, <2>2, ReadingKnown
         DEF Reading!IInv, Reading!Numbered, Reading!GivenUpIsOverdue, Reading!WaitsInTime
    <2>4. Reading!NoQueueBehindHung'
      BY <1>1, <1>2, <2>2 DEF Reading!IInv, Reading!NoQueueBehindHung
    <2> QED BY <2>1, <2>3, <2>4 DEF Reading!IInv
  <1>3. CASE /\ reader # None /\ ~Reading!Stuck /\ UNCHANGED <<reader, readings>>
             /\ asks' = [asks EXCEPT ![c] = Waits(reader)]
    <2>1. Reading!TypeOK'
      BY <1>1, <1>3, ReadingConstants DEF Reading!IInv, Reading!TypeOK
    <2>2. /\ asks'[c].at = "waiting" /\ asks'[c].read = reader /\ asks'[c].since = clock
          /\ \A d \in Caller : d # c => asks'[d] = asks[d]
      BY <1>3, ReadingKnown
    <2>3. Reading!Numbered' /\ Reading!GivenUpIsOverdue' /\ Reading!WaitsInTime'
      BY <1>1, <1>3, <2>2, ReadingKnown
         DEF Reading!IInv, Reading!Numbered, Reading!GivenUpIsOverdue, Reading!WaitsInTime
    <2>4. \A d \in Caller : asks'[d].at = "timed_out" => asks'[d].read # reader
      BY <1>3, <2>2 DEF Reading!IInv, Reading!GivenUpIsOverdue, Reading!Stuck
    <2>5. Reading!NoQueueBehindHung'
      BY <1>1, <1>3, <2>2, <2>4 DEF Reading!IInv, Reading!NoQueueBehindHung
    <2> QED BY <2>1, <2>3, <2>5 DEF Reading!IInv
  <1>4. CASE /\ reader = None /\ readings < MaxReadings /\ readings' = readings + 1
             /\ reader' = readings' /\ asks' = [asks EXCEPT ![c] = Waits(readings')]
    <2>1. Reading!TypeOK'
      BY <1>1, <1>4, ReadingConstants DEF Reading!IInv, Reading!TypeOK
    <2>2. /\ asks'[c].at = "waiting" /\ asks'[c].read = reader' /\ asks'[c].since = clock
          /\ \A d \in Caller : d # c => asks'[d] = asks[d] /\ asks[d].read < reader'
      BY <1>4, ReadingKnown
    <2>3. Reading!Numbered' /\ Reading!GivenUpIsOverdue' /\ Reading!WaitsInTime'
      BY <1>1, <1>4, <2>2, ReadingKnown
         DEF Reading!IInv, Reading!Numbered, Reading!GivenUpIsOverdue, Reading!WaitsInTime
    <2>4. \A d \in Caller : asks'[d].at = "waiting" => d = c
      BY <1>4, <2>2, ReadingKnown DEF Reading!IInv, Reading!NoQueueBehindHung
    <2>5. \A d \in Caller : asks'[d].at = "timed_out" => asks'[d].read # reader'
      BY <1>4, <2>2, ReadingKnown
    <2>6. Reading!NoQueueBehindHung'
      BY <2>2, <2>4, <2>5 DEF Reading!NoQueueBehindHung
    <2> QED BY <2>1, <2>3, <2>6 DEF Reading!IInv
  <1> QED BY <1>2, <1>3, <1>4 DEF Reading!Ask

LEMMA ReadingCompletes ==
    ASSUME Reading!IInv, Reading!Completes
    PROVE  Reading!IInv'
  <1>1. /\ UNCHANGED <<clock, overdue, readings>> /\ reader' = None
        /\ asks' = [c \in Caller |-> IF asks[c].at = "waiting" /\ asks[c].read = reader
                                     THEN [asks[c] EXCEPT !.at = "answered"] ELSE asks[c]]
    BY DEF Reading!Completes
  <1>2. Reading!TypeOK'
    BY <1>1 DEF Reading!IInv, Reading!TypeOK
  <1>3. \A c \in Caller : /\ asks'[c].at = "waiting" => asks[c].at = "waiting" /\ asks[c].read # reader
                          /\ asks'[c].read = asks[c].read /\ asks'[c].since = asks[c].since
    BY <1>1, ReadingKnown
  <1>4. \A c \in Caller : asks'[c].at # "waiting"
    BY <1>3 DEF Reading!IInv, Reading!NoQueueBehindHung
  <1>5. \A c \in Caller : asks'[c].read # reader'
    BY <1>1, <1>3, ReadingKnown
  <1>6. Reading!Numbered' /\ Reading!GivenUpIsOverdue' /\ Reading!WaitsInTime' /\ Reading!NoQueueBehindHung'
    BY <1>1, <1>3, <1>4, <1>5, ReadingKnown
       DEF Reading!Numbered, Reading!GivenUpIsOverdue, Reading!WaitsInTime, Reading!NoQueueBehindHung
  <1> QED BY <1>2, <1>6 DEF Reading!IInv

LEMMA ReadingGivesUp ==
    ASSUME Reading!IInv, NEW c \in Caller, Reading!GivesUp(c)
    PROVE  Reading!IInv'
  <1>1. /\ asks[c].at = "waiting" /\ clock - asks[c].since >= ReadTimeout
        /\ asks' = [asks EXCEPT ![c].at = "timed_out"] /\ overdue' = asks[c].read
        /\ UNCHANGED <<clock, reader, readings>>
    BY DEF Reading!GivesUp
  <1>2. asks[c].read = reader
    BY <1>1 DEF Reading!IInv, Reading!NoQueueBehindHung
  <1>3. Reading!TypeOK'
    BY <1>1, <1>2, ReadingKnown DEF Reading!IInv, Reading!TypeOK
  <1>4. /\ asks'[c].at = "timed_out" /\ asks'[c].read = asks[c].read /\ asks'[c].since = asks[c].since
        /\ \A d \in Caller : d # c => asks'[d] = asks[d]
    BY <1>1, ReadingKnown
  <1>5. Reading!Numbered' /\ Reading!GivenUpIsOverdue' /\ Reading!WaitsInTime'
    BY <1>1, <1>2, <1>4, ReadingKnown
       DEF Reading!IInv, Reading!Numbered, Reading!GivenUpIsOverdue, Reading!WaitsInTime
  <1>6. \A d \in Caller : asks[d].at = "waiting" => asks[d].since <= asks[c].since + ReadTimeout
    BY <1>1, ReadingKnown DEF Reading!IInv, Reading!WaitsInTime
  <1>7. Reading!NoQueueBehindHung'
    BY <1>1, <1>4, <1>6 DEF Reading!IInv, Reading!NoQueueBehindHung
  <1> QED BY <1>3, <1>5, <1>7 DEF Reading!IInv

\* Every step of the calls, the thread and the clock keeps it.
LEMMA ReadingKeeps ==
    ASSUME Reading!IInv, [Reading!Next]_(Reading!wvars)
    PROVE  Reading!IInv'
  <1>1. CASE Reading!Tick
    <2>1. /\ clock < MaxClock /\ clock' = clock + 1 /\ UNCHANGED <<reader, overdue, asks, readings>>
          /\ \A c \in Caller : asks[c].at = "waiting" => clock - asks[c].since < ReadTimeout
      BY <1>1 DEF Reading!Tick
    <2>2. Reading!TypeOK'
      BY <2>1, ReadingConstants DEF Reading!IInv, Reading!TypeOK
    <2>3. Reading!WaitsInTime'
      BY <2>1, ReadingKnown DEF Reading!IInv, Reading!WaitsInTime
    <2>4. Reading!Numbered' /\ Reading!GivenUpIsOverdue' /\ Reading!NoQueueBehindHung'
      BY <2>1 DEF Reading!IInv, Reading!Numbered, Reading!GivenUpIsOverdue, Reading!NoQueueBehindHung
    <2> QED BY <2>2, <2>3, <2>4 DEF Reading!IInv
  <1>2. CASE UNCHANGED Reading!wvars
    BY <1>2 DEF Reading!wvars, Reading!IInv, Reading!TypeOK, Reading!Numbered,
       Reading!GivenUpIsOverdue, Reading!WaitsInTime, Reading!NoQueueBehindHung
  <1> QED BY <1>1, <1>2, ReadingAsks, ReadingCompletes, ReadingGivesUp DEF Reading!Next

-----------------------------------------------------------------------------
(* The login phases (LoginPhases) *)

LEMMA LoginConstants ==
    /\ IdleAfter \in Nat \ {0} /\ TwofaSilence \in Nat \ {0} /\ Silence \in Nat /\ Silence > 1
    /\ Stall \in Nat /\ Stall > IdleAfter /\ MaxClock \in Nat /\ MaxRounds \in Nat
  BY AnswerPartsAssumption DEF Login!LogAssumption

LoginCounts(f) == <<f.after, f.attempts, f.challenges, f.complete>>
LoginMarks(f) == <<f.refused, f.reason, f.retryAt, f.noise>>

\* What entering a phase changes.
LEMMA LoginEnters ==
    ASSUME NEW f \in Login!Fold, clock \in Nat, NEW p \in Login!Phases, NEW d \in Login!Details
    PROVE  LET g == Login!Enter(f, p, d) IN
           /\ g \in Login!Fold /\ g.phase = p
           /\ p # f.phase => g.since = clock
           /\ p = f.phase => g.since = f.since
           /\ LoginCounts(g) = LoginCounts(f) /\ LoginMarks(g) = LoginMarks(f)
  <1> DEFINE e == IF p # f.phase \/ d # "none" THEN d ELSE f.detail
             s == IF p # f.phase THEN clock ELSE f.since
             g == [[f EXCEPT !.phase = p, !.detail = e] EXCEPT !.since = s]
  <1>1. e \in Login!Details /\ s \in {Login!Never} \cup Nat
    BY Zenon DEF Login!Fold
  <1>2. Login!Enter(f, p, d) = g
    BY Zenon DEF Login!Enter, Login!Go
  <1> HIDE DEF e, s
  <1>3. /\ g \in Login!Fold /\ g.phase = p /\ g.since = s
        /\ LoginCounts(g) = LoginCounts(f) /\ LoginMarks(g) = LoginMarks(f)
    BY <1>1, Zenon DEF Login!Fold, LoginCounts, LoginMarks
  <1> HIDE DEF g
  <1> QED BY <1>2, <1>3, Zenon DEF s

LEMMA LoginEntersAnew ==
    ASSUME NEW f \in Login!Fold, clock \in Nat, NEW p \in Login!Phases
    PROVE  LET g == Login!EnterAnew(f, p) IN
           /\ g \in Login!Fold /\ g.phase = p /\ g.since = clock
           /\ LoginCounts(g) = LoginCounts(f) /\ LoginMarks(g) = LoginMarks(f)
  <1> DEFINE e == IF p # f.phase \/ "none" # "none" THEN "none" ELSE f.detail
             g == [[f EXCEPT !.phase = p, !.detail = e] EXCEPT !.since = clock]
  <1>1. e \in Login!Details
    BY Zenon DEF Login!Fold, Login!Details
  <1>2. Login!EnterAnew(f, p) = g
    BY Zenon DEF Login!EnterAnew, Login!Go
  <1> HIDE DEF e
  <1>3. /\ g \in Login!Fold /\ g.phase = p /\ g.since = clock
        /\ LoginCounts(g) = LoginCounts(f) /\ LoginMarks(g) = LoginMarks(f)
    BY <1>1, Zenon DEF Login!Fold, LoginCounts, LoginMarks
  <1> HIDE DEF g
  <1> QED BY <1>2, <1>3, Zenon

\* ... and what the first sign of a new login changes.
LEMMA LoginStartsAgain ==
    ASSUME NEW f \in Login!Fold
    PROVE  LET g == Login!NewSequence(f) IN
           /\ g \in Login!Fold /\ g.phase = f.phase /\ g.since = f.since
           /\ LoginMarks(g) = LoginMarks(f)
           /\ ~f.after => LoginCounts(g) = LoginCounts(f)
           /\ f.after => LoginCounts(g) = <<FALSE, 0, 0, TRUE>>
  <1>1. CASE f.after
    <2> DEFINE g == [f EXCEPT !.after = FALSE, !.attempts = 0, !.challenges = 0, !.complete = TRUE]
    <2>1. Login!NewSequence(f) = g
      BY <1>1, Zenon DEF Login!NewSequence
    <2>2. /\ g \in Login!Fold /\ g.phase = f.phase /\ g.since = f.since
          /\ LoginMarks(g) = LoginMarks(f) /\ LoginCounts(g) = <<FALSE, 0, 0, TRUE>>
      BY 0 \in Nat, Zenon DEF Login!Fold, LoginCounts, LoginMarks
    <2> HIDE DEF g
    <2> QED BY <1>1, <2>1, <2>2, Zenon
  <1>2. CASE ~f.after
    BY <1>2, Zenon DEF Login!NewSequence
  <1> QED BY <1>1, <1>2

LoginCountsFrom(f) == IF f.after THEN <<FALSE, 0, 0, TRUE>> ELSE LoginCounts(f)

\* What is read is a fold, and what a line adds is its time.
LEMMA LoginLine ==
    ASSUME NEW f \in Login!Fold, clock \in Nat, Login!Line(f)
    PROVE  /\ fold' \in Login!Fold /\ fold'.phase = f.phase /\ fold'.since = f.since
           /\ LoginCounts(fold') = LoginCounts(f) /\ LoginMarks(fold') = LoginMarks(f)
           /\ mtime' = clock
  <1> DEFINE g == [f EXCEPT !.last = clock]
  <1>1. fold' = g /\ mtime' = clock
    BY Zenon DEF Login!Line
  <1>2. /\ g \in Login!Fold /\ g.phase = f.phase /\ g.since = f.since
        /\ LoginCounts(g) = LoginCounts(f) /\ LoginMarks(g) = LoginMarks(f)
    BY Zenon DEF Login!Fold, LoginCounts, LoginMarks
  <1> HIDE DEF g
  <1> QED BY <1>1, <1>2, Zenon

LEMMA LoginOnRestart ==
    ASSUME NEW f \in Login!Fold, clock \in Nat, NEW g \in {Login!OnRestart(f), Login!OnWarm(Login!OnRestart(f))}
    PROVE  /\ g \in Login!Fold /\ g.phase = "restarting" /\ g.since = clock
           /\ LoginCounts(g) = LoginCountsFrom(f)
           /\ LoginMarks(g) = <<FALSE, "none", Login!Never, f.noise>>
  <1> DEFINE n == Login!NewSequence(f)
             e == Login!EnterAnew(n, "restarting")
             r == [e EXCEPT !.warm = FALSE, !.refused = FALSE, !.ibKey = FALSE, !.pending = FALSE,
                            !.pw = "unknown", !.protocol = 0, !.retryAt = Login!Never, !.reason = "none"]
  <1>1. /\ n \in Login!Fold /\ LoginCounts(n) = LoginCountsFrom(f) /\ n.noise = f.noise
    BY LoginStartsAgain, Zenon DEF LoginCountsFrom, LoginMarks
  <1>2. "restarting" \in Login!Phases
    BY Zenon DEF Login!Phases
  <1> HIDE DEF n
  <1>3. /\ e \in Login!Fold /\ e.phase = "restarting" /\ e.since = clock
        /\ LoginCounts(e) = LoginCounts(n) /\ e.noise = n.noise
    BY <1>1, <1>2, LoginEntersAnew, Zenon DEF LoginMarks
  <1> HIDE DEF e
  <1>4. /\ r \in Login!Fold /\ r.phase = "restarting" /\ r.since = clock
        /\ LoginCounts(r) = LoginCounts(e) /\ LoginMarks(r) = <<FALSE, "none", Login!Never, e.noise>>
    <2>1. r \in Login!Fold
      BY <1>3, 0 \in Nat, Zenon DEF Login!Fold
    <2>2. r.phase = e.phase /\ r.since = e.since
      BY <1>3, Zenon DEF Login!Fold
    <2>3. LoginCounts(r) = LoginCounts(e)
      BY <1>3, Zenon DEF Login!Fold, LoginCounts
    <2>4. LoginMarks(r) = <<FALSE, "none", Login!Never, e.noise>>
      BY <1>3, Zenon DEF Login!Fold, LoginMarks
    <2> QED BY <1>3, <2>1, <2>2, <2>3, <2>4, Zenon
  <1>5. Login!OnRestart(f) = r
    BY Zenon DEF Login!OnRestart, e, n
  <1> HIDE DEF r
  <1>6. CASE g = r
    BY <1>1, <1>3, <1>4, <1>6, Zenon
  <1>7. CASE g = [r EXCEPT !.warm = TRUE]
    <2>1. /\ g \in Login!Fold /\ g.phase = r.phase /\ g.since = r.since
          /\ LoginCounts(g) = LoginCounts(r) /\ LoginMarks(g) = LoginMarks(r)
      BY <1>4, <1>7, Zenon DEF Login!Fold, LoginCounts, LoginMarks
    <2> QED BY <1>1, <1>3, <1>4, <2>1, Zenon
  <1> QED BY <1>5, <1>6, <1>7, Zenon DEF Login!OnWarm

LEMMA LoginOnLoginStart ==
    ASSUME NEW f \in Login!Fold, clock \in Nat
    PROVE  LET g == Login!OnLoginStart(f) IN
           /\ g \in Login!Fold /\ LoginCounts(g) = LoginCountsFrom(f) /\ LoginMarks(g) = LoginMarks(f)
           /\ g.since \in {clock, f.since} /\ (f.phase # "awaiting_2fa" => g.phase = "logging_in")
  <1> DEFINE n == Login!NewSequence(f)
             e == Login!Enter(n, "logging_in", "none")
  <1>1. /\ n \in Login!Fold /\ LoginCounts(n) = LoginCountsFrom(f) /\ n.phase = f.phase
        /\ n.since = f.since /\ LoginMarks(n) = LoginMarks(f)
    BY LoginStartsAgain, Zenon DEF LoginCountsFrom
  <1>2. "logging_in" \in Login!Phases /\ "none" \in Login!Details
    BY Zenon DEF Login!Phases, Login!Details
  <1>3. Login!OnLoginStart(f) = IF n.phase = "awaiting_2fa" THEN n ELSE e
    BY Zenon DEF Login!OnLoginStart
  <1> HIDE DEF n
  <1>4. /\ e \in Login!Fold /\ e.phase = "logging_in" /\ LoginCounts(e) = LoginCounts(n)
        /\ LoginMarks(e) = LoginMarks(n) /\ e.since \in {clock, n.since}
    BY <1>1, <1>2, LoginEnters, Zenon
  <1> HIDE DEF e
  <1> QED BY <1>1, <1>3, <1>4, Zenon

LEMMA LoginRound ==
    ASSUME NEW f \in Login!Fold, NEW k \in Nat, NEW w \in {"asked", "not_asked"}, NEW m \in BOOLEAN,
           NEW key \in BOOLEAN
    PROVE  [f EXCEPT !.attempts = k, !.pw = w, !.refused = m, !.ibKey = key, !.pending = FALSE,
                     !.protocol = 0] \in Login!Fold
  <1>1. w \in {"unknown", "asked", "not_asked"} /\ 0 \in Nat /\ FALSE \in BOOLEAN
    OBVIOUS
  <1> QED BY <1>1, Zenon DEF Login!Fold

LEMMA LoginOnAuthStart ==
    ASSUME NEW f \in Login!Fold, clock \in Nat, atStart \in BOOLEAN, ~f.after, NEW g,
           \E typed, key \in BOOLEAN : g = Login!OnAuthStart(f, typed, atStart, key)
    PROVE  /\ g \in Login!Fold /\ g.phase = "logging_in" /\ g.since \in {clock, f.since}
           /\ LoginCounts(g) = <<f.after, f.attempts + 1, f.challenges, f.complete>>
           /\ (g.refused => atStart) /\ g.reason = f.reason
  <1>0. PICK typed \in BOOLEAN, key \in BOOLEAN : g = Login!OnAuthStart(f, typed, atStart, key)
    OBVIOUS
  <1> DEFINE w == IF typed THEN "asked" ELSE "not_asked"
             k == f.attempts + 1
             m == typed /\ atStart
             h == [f EXCEPT !.attempts = k, !.pw = w, !.refused = m, !.ibKey = key, !.pending = FALSE,
                            !.protocol = 0]
             e == Login!Enter(h, "logging_in", "none")
  <1>1. g = e
    BY <1>0, Zenon DEF Login!OnAuthStart, Login!NewSequence
  <1>2. "logging_in" \in Login!Phases /\ "none" \in Login!Details
    BY Zenon DEF Login!Phases, Login!Details
  <1>3. f.attempts \in Nat
    BY Zenon DEF Login!Fold
  <1>4. k \in Nat /\ w \in {"asked", "not_asked"} /\ m \in BOOLEAN
    BY <1>3
  <1> HIDE DEF k, w, m
  <1>5. h \in Login!Fold
    BY <1>4, LoginRound, Zenon
  <1>6. LoginCounts(h) = <<f.after, k, f.challenges, f.complete>>
    BY Zenon DEF Login!Fold, LoginCounts
  <1>7. LoginMarks(h) = <<m, f.reason, f.retryAt, f.noise>> /\ h.since = f.since
    BY Zenon DEF Login!Fold, LoginMarks
  <1> HIDE DEF h
  <1>8. /\ e \in Login!Fold /\ e.phase = "logging_in" /\ LoginCounts(e) = LoginCounts(h)
        /\ LoginMarks(e) = LoginMarks(h) /\ e.since \in {clock, h.since}
    BY <1>2, <1>5, LoginEnters, Zenon
  <1> HIDE DEF e
  <1>9. e.refused = m /\ e.reason = f.reason
    BY <1>7, <1>8, Zenon DEF LoginMarks
  <1> QED BY <1>0, <1>1, <1>6, <1>7, <1>8, <1>9, Zenon DEF k, m

LEMMA LoginOnChallenge ==
    ASSUME NEW f \in Login!Fold, clock \in Nat
    PROVE  LET g == Login!OnChallenge(f) IN
           /\ g \in Login!Fold /\ g.phase = "awaiting_2fa" /\ g.since = clock /\ LoginMarks(g) = LoginMarks(f)
           /\ LoginCounts(g) = <<f.after, f.attempts, f.challenges + 1, f.complete>>
  <1> DEFINE k == f.challenges + 1
             h == [f EXCEPT !.challenges = k, !.pending = TRUE]
  <1>1. f.challenges \in Nat
    BY Zenon DEF Login!Fold
  <1>2. k \in Nat
    BY <1>1
  <1>3. Login!OnChallenge(f) = Login!EnterAnew(h, "awaiting_2fa")
    BY Zenon DEF Login!OnChallenge
  <1>4. "awaiting_2fa" \in Login!Phases
    BY Zenon DEF Login!Phases
  <1> HIDE DEF k
  <1>5. /\ h \in Login!Fold /\ LoginMarks(h) = LoginMarks(f)
    BY <1>2, Zenon DEF Login!Fold, LoginMarks
  <1>6. LoginCounts(h) = <<f.after, f.attempts, k, f.complete>>
    BY <1>2, Zenon DEF Login!Fold, LoginCounts
  <1> HIDE DEF h
  <1> QED BY <1>3, <1>4, <1>5, <1>6, LoginEntersAnew, Zenon DEF k

\* A new phase without more, for a retry and an authentication that did not complete.
LEMMA LoginOnRetry ==
    ASSUME NEW f \in Login!Fold, clock \in Nat, f.phase \notin {"login_rejected", "twofa_ended"},
           NEW g \in {Login!OnRetry(f, "no_answer"), Login!OnCompleted(f, FALSE, 0)}
    PROVE  /\ g \in Login!Fold /\ g.phase = "logging_in" /\ g.since \in {clock, f.since}
           /\ LoginCounts(g) = LoginCounts(f) /\ LoginMarks(g) = LoginMarks(f)
  <1>1. "logging_in" \in Login!Phases /\ {"no_answer", "not_completed"} \subseteq Login!Details
    BY Zenon DEF Login!Phases, Login!Details
  <1>2. PICK d \in Login!Details : g = Login!Enter(f, "logging_in", d)
    BY <1>1, Zenon DEF Login!OnRetry, Login!OnCompleted
  <1> DEFINE e == Login!Enter(f, "logging_in", d)
  <1>3. /\ e \in Login!Fold /\ e.phase = "logging_in" /\ e.since \in {clock, f.since}
        /\ LoginCounts(e) = LoginCounts(f) /\ LoginMarks(e) = LoginMarks(f)
    BY <1>1, LoginEnters
  <1> QED BY <1>2, <1>3, Zenon

LEMMA LoginOnCompleted ==
    ASSUME NEW f \in Login!Fold, NEW protocol \in Nat
    PROVE  LET g == Login!OnCompleted(f, TRUE, protocol) IN
           /\ g \in Login!Fold /\ g.phase = f.phase /\ g.since = f.since
           /\ LoginCounts(g) = LoginCounts(f) /\ LoginMarks(g) = LoginMarks(f)
  <1>1. Login!OnCompleted(f, TRUE, protocol) = [f EXCEPT !.protocol = protocol]
    BY Zenon DEF Login!OnCompleted
  <1> QED BY <1>1, Zenon DEF Login!Fold, LoginCounts, LoginMarks

LEMMA LoginOnRejected ==
    ASSUME NEW f \in Login!Fold, clock \in Nat,
           NEW why \in {"credentials", "saved_session_refused", "unrecognized"}
    PROVE  LET g == Login!OnRejected(f, why) IN
           /\ g \in Login!Fold /\ g.phase = "login_rejected" /\ LoginCounts(g) = LoginCounts(f)
           /\ g.since \in {clock, f.since} /\ g.refused = f.refused /\ g.reason \in {f.reason, why}
           /\ g.retryAt = f.retryAt /\ g.noise = f.noise
  <1> DEFINE w == IF f.phase = "login_rejected" THEN f.reason ELSE why
             h == [f EXCEPT !.reason = w]
  <1>1. Login!OnRejected(f, why) = Login!Enter(h, "login_rejected", "none")
    BY Zenon DEF Login!OnRejected
  <1>2. w \in {"none", "credentials", "saved_session_refused", "unrecognized"} /\ w \in {f.reason, why}
    BY Zenon DEF Login!Fold
  <1>3. "login_rejected" \in Login!Phases /\ "none" \in Login!Details
    BY Zenon DEF Login!Phases, Login!Details
  <1> HIDE DEF w
  <1>4. /\ h \in Login!Fold /\ h.since = f.since /\ LoginCounts(h) = LoginCounts(f)
        /\ LoginMarks(h) = <<f.refused, w, f.retryAt, f.noise>>
    BY <1>2, Zenon DEF Login!Fold, LoginCounts, LoginMarks
  <1> HIDE DEF h
  <1>5. LET g == Login!Enter(h, "login_rejected", "none") IN
        /\ g \in Login!Fold /\ g.phase = "login_rejected" /\ g.since \in {clock, f.since}
        /\ LoginCounts(g) = LoginCounts(f) /\ LoginMarks(g) = <<f.refused, w, f.retryAt, f.noise>>
    BY <1>3, <1>4, LoginEnters, Zenon
  <1> QED BY <1>1, <1>2, <1>5, Zenon DEF LoginMarks

LEMMA LoginOnTwofaEnded ==
    ASSUME NEW f \in Login!Fold, clock \in Nat, f.phase # "twofa_ended"
    PROVE  LET g == Login!OnTwofaEnded(f) IN
           /\ g \in Login!Fold /\ g.phase = "twofa_ended" /\ g.since = clock
           /\ LoginCounts(g) = LoginCounts(f) /\ LoginMarks(g) = LoginMarks(f)
  <1> DEFINE h == [f EXCEPT !.had = f.pending, !.pending = FALSE]
  <1>1. Login!OnTwofaEnded(f) = Login!Enter(h, "twofa_ended", "none")
    BY Zenon DEF Login!OnTwofaEnded
  <1>2. "twofa_ended" \in Login!Phases /\ "none" \in Login!Details
    BY Zenon DEF Login!Phases, Login!Details
  <1>3. /\ h \in Login!Fold /\ h.phase = f.phase
        /\ LoginCounts(h) = LoginCounts(f) /\ LoginMarks(h) = LoginMarks(f)
    BY Zenon DEF Login!Fold, LoginCounts, LoginMarks
  <1> HIDE DEF h
  <1> DEFINE e == Login!Enter(h, "twofa_ended", "none")
  <1>4. /\ e \in Login!Fold /\ e.phase = "twofa_ended" /\ e.since = clock
        /\ LoginCounts(e) = LoginCounts(h) /\ LoginMarks(e) = LoginMarks(h)
    BY <1>2, <1>3, LoginEnters, Zenon
  <1> HIDE DEF e
  <1> QED BY <1>1, <1>3, <1>4, Zenon DEF e

LEMMA LoginOnThrottle ==
    ASSUME NEW f \in Login!Fold, clock \in Nat, NEW until \in Nat
    PROVE  LET g == Login!OnThrottle(f, until) IN
           /\ g \in Login!Fold /\ g.phase = "throttled" /\ g.since \in {clock, f.since}
           /\ LoginCounts(g) = LoginCounts(f)
           /\ LoginMarks(g) = <<f.refused, f.reason, until, f.noise>>
  <1> DEFINE h == [f EXCEPT !.retryAt = until]
  <1>1. Login!OnThrottle(f, until) = Login!Enter(h, "throttled", "none")
    BY Zenon DEF Login!OnThrottle
  <1>2. "throttled" \in Login!Phases /\ "none" \in Login!Details
    BY Zenon DEF Login!Phases, Login!Details
  <1>3. /\ h \in Login!Fold /\ h.since = f.since /\ LoginCounts(h) = LoginCounts(f)
        /\ LoginMarks(h) = <<f.refused, f.reason, until, f.noise>>
    BY Zenon DEF Login!Fold, LoginCounts, LoginMarks
  <1> HIDE DEF h
  <1> DEFINE e == Login!Enter(h, "throttled", "none")
  <1>4. /\ e \in Login!Fold /\ e.phase = "throttled" /\ e.since \in {clock, h.since}
        /\ LoginCounts(e) = LoginCounts(h) /\ LoginMarks(e) = LoginMarks(h)
    BY <1>2, <1>3, LoginEnters, Zenon
  <1> HIDE DEF e
  <1> QED BY <1>1, <1>3, <1>4, Zenon DEF e

LEMMA LoginOnLoggedIn ==
    ASSUME NEW f \in Login!Fold, clock \in Nat
    PROVE  LET g == Login!OnLoggedIn(f) IN
           /\ g \in Login!Fold /\ g.phase = "logged_in" /\ g.since = clock
           /\ LoginCounts(g) = <<TRUE, f.attempts, f.challenges, f.complete>>
           /\ LoginMarks(g) = <<f.refused, f.reason, Login!Never, f.noise>>
  <1> DEFINE h == [f EXCEPT !.after = TRUE, !.pending = FALSE, !.retryAt = Login!Never]
  <1>1. Login!OnLoggedIn(f) = Login!EnterAnew(h, "logged_in")
    BY Zenon DEF Login!OnLoggedIn
  <1>2. "logged_in" \in Login!Phases
    BY Zenon DEF Login!Phases
  <1>3. h \in Login!Fold
    BY Zenon DEF Login!Fold
  <1>4. LoginCounts(h) = <<TRUE, f.attempts, f.challenges, f.complete>>
    BY Zenon DEF Login!Fold, LoginCounts
  <1>5. LoginMarks(h) = <<f.refused, f.reason, Login!Never, f.noise>>
    BY Zenon DEF Login!Fold, LoginMarks
  <1> HIDE DEF h
  <1> QED BY <1>1, <1>2, <1>3, <1>4, <1>5, LoginEntersAnew, Zenon

\* What the invariant says of the times and the fold.
LEMMA LoginKnown ==
    ASSUME Login!Kept
    PROVE  /\ clock \in Nat /\ mtime \in Nat /\ mtime <= clock /\ since0 \in Nat /\ paused \in Nat
           /\ fold \in Login!Fold /\ fold.since <= clock /\ fold.phase \in {"none"} \cup Login!Phases
           /\ fold.since \in Int /\ fold.retryAt \in Int /\ fold.last \in Int /\ fold.noise \in Int
           /\ fold.detail \in Login!Details
           /\ fold.reason \in {"none", "credentials", "saved_session_refused", "unrecognized"}
  <1>1. /\ clock \in 0..MaxClock /\ mtime \in 0..clock /\ since0 \in 0..clock
        /\ paused \in 0..(clock + 1) /\ fold \in Login!Fold /\ fold.since <= clock
    BY DEF Login!Kept, Login!TypeOK
  <1>2. clock \in Nat /\ mtime \in Nat /\ mtime <= clock /\ since0 \in Nat /\ paused \in Nat
    BY <1>1, LoginConstants
  <1>3. /\ fold.phase \in {"none"} \cup Login!Phases /\ fold.detail \in Login!Details
        /\ fold.since \in {Login!Never} \cup Nat /\ fold.retryAt \in {Login!Never} \cup Nat
        /\ fold.last \in {Login!Never} \cup Nat /\ fold.noise \in {Login!Never} \cup Nat
        /\ fold.reason \in {"none", "credentials", "saved_session_refused", "unrecognized"}
    BY <1>1, Zenon DEF Login!Fold
  <1>4. /\ fold.since \in Int /\ fold.retryAt \in Int /\ fold.last \in Int /\ fold.noise \in Int
    BY <1>3 DEF Login!Never
  <1> QED BY <1>1, <1>2, <1>3, <1>4

\* The phase shown for each phase of the fold.
LEMMA LoginShown ==
    ASSUME Login!Kept, fold.phase # "none"
    PROVE  LET p == Login!Phase(fold)
               silent == clock - mtime > (IF p.phase = "awaiting_2fa" THEN TwofaSilence ELSE Silence)
           IN IF p.phase # "logged_in" /\ silent
              THEN Login!Shown = [phase |-> "unknown", since |-> mtime, detail |-> "silent"]
              ELSE Login!Shown = p
  BY DEF Login!Shown, Login!State

LEMMA LoginPhaseOf ==
    ASSUME Login!Kept, fold.phase # "none"
    PROVE  LET p == Login!Phase(fold) IN
           /\ p.detail \in {"ended_retry", "ended_early_retry", "twofa_ended", "ended_early",
                            "throttle_over", "throttled_2fa", "throttled", "never_attempted", "warm",
                            "none", "stalled", "no_answer", "not_completed", "ib_key_push",
                            "challenge", "credentials", "saved_session_refused", "unrecognized",
                            "second_factor", "saved_session", "password"}
           /\ p.phase \in {"logging_in", "login_idle", "throttled", "restarting", "awaiting_2fa",
                           "login_rejected", "logged_in"}
           /\ p.phase = "awaiting_2fa" => fold.phase = "awaiting_2fa"
           /\ p.phase = "logged_in" <=> fold.phase = "logged_in"
           /\ p.phase = "login_rejected" => fold.phase = "login_rejected"
           /\ p.detail = "saved_session_refused" => fold.reason = "saved_session_refused"
           /\ p.phase = "login_idle" =>
                \/ fold.phase \in {"twofa_ended", "restarting"} /\ clock - fold.since > IdleAfter
                \/ fold.phase = "throttled" /\ clock > fold.retryAt + IdleAfter
                \/ fold.phase = "logging_in" /\ clock - fold.last > Stall
  <1> USE LoginKnown, LoginConstants DEF Login!Phase, Login!State, Login!Details
  <1>1. CASE fold.phase = "twofa_ended"
    BY <1>1
  <1>2. CASE fold.phase = "throttled"
    BY <1>2
  <1>3. CASE fold.phase = "restarting"
    BY <1>3
  <1>4. CASE fold.phase = "logging_in"
    BY <1>4
  <1>5. CASE fold.phase = "awaiting_2fa"
    BY <1>5
  <1>6. CASE fold.phase = "login_rejected"
    BY <1>6
  <1>7. CASE fold.phase = "logged_in"
    BY <1>7
  <1> QED BY <1>1, <1>2, <1>3, <1>4, <1>5, <1>6, <1>7 DEF Login!Phases

\* The properties follow from what the steps keep.
LEMMA LoginJudged == Login!Kept => Login!IInv
  <1> SUFFICES ASSUME Login!Kept PROVE Login!IInv
    OBVIOUS
  <1> USE LoginKnown, LoginConstants
  <1>1. CASE fold.phase = "none"
    <2>1. \/ /\ fold.noise # Login!Never
             /\ Login!Shown = [phase |-> "login_idle", since |-> Login!Never, detail |-> "idle_since"]
          \/ Login!Shown = [phase |-> "unknown", since |-> Login!Never, detail |-> "no_start"]
      BY <1>1 DEF Login!Shown, Login!State
    <2>2. fold.noise # Login!Never => gateway = "down" \/ (gateway = "ended" /\ ~auto)
      BY <1>1 DEF Login!Kept, Login!NoPhaseYet
    <2>3. Login!SilentIsDown /\ Login!LoggedInIsTrue /\ Login!RefusedIsSaved
      BY <2>1 DEF Login!SilentIsDown, Login!LoggedInIsTrue, Login!RefusedIsSaved
    <2>4. Login!ApproveIsNeeded
      BY <2>1 DEF Login!ApproveIsNeeded, Login!Advice
    <2>5. Login!RestartIsNeeded
      BY <2>1, <2>2 DEF Login!RestartIsNeeded, Login!Advice
    <2> QED BY <2>3, <2>4, <2>5 DEF Login!IInv
  <1>2. CASE fold.phase # "none"
    <2> DEFINE p == Login!Phase(fold)
               silent == [phase |-> "unknown", since |-> mtime, detail |-> "silent"]
    <2>1. /\ p.detail # "silent"
          /\ p.phase = "awaiting_2fa" => fold.phase = "awaiting_2fa"
          /\ p.phase = "logged_in" <=> fold.phase = "logged_in"
          /\ p.phase = "login_rejected" => fold.phase = "login_rejected"
          /\ p.detail = "saved_session_refused" => fold.reason = "saved_session_refused"
      BY <1>2, LoginPhaseOf
    <2>2. p.phase = "login_idle" =>
            \/ fold.phase \in {"twofa_ended", "restarting"} /\ clock - fold.since > IdleAfter
            \/ fold.phase = "throttled" /\ clock > fold.retryAt + IdleAfter
            \/ fold.phase = "logging_in" /\ clock - fold.last > Stall
      BY <1>2, LoginPhaseOf
    <2>3. \/ /\ Login!Shown = silent /\ p.phase # "logged_in"
             /\ clock - mtime > (IF p.phase = "awaiting_2fa" THEN TwofaSilence ELSE Silence)
          \/ Login!Shown = p
      BY <1>2, LoginShown
    <2> HIDE DEF p
    <2>4. /\ gateway # "down" => (fold.phase = "logged_in" <=> gateway = "up")
          /\ gateway \notin {"down", "up"} => clock - mtime <= 1
      BY <1>2 DEF Login!Kept, Login!PhaseIsWhere, Login!TimesAreKept, Login!InProgress, Login!Phases
    <2>5. Login!Shown = silent => gateway = "down" \/ Login!Shown = p
      BY <2>1, <2>3, <2>4
    <2>6. Login!SilentIsDown
      BY <2>1, <2>3, <2>5 DEF Login!SilentIsDown
    <2>7. Login!ApproveIsNeeded
      BY <1>2, <2>1, <2>3 DEF Login!ApproveIsNeeded, Login!Advice, Login!Kept, Login!PhaseIsWhere
    <2>8. Login!LoggedInIsTrue
      BY <1>2, <2>1, <2>3 DEF Login!LoggedInIsTrue, Login!Kept, Login!PhaseIsWhere, Login!LoginIsCounted
    <2>9. Login!RefusedIsSaved
      BY <1>2, <2>1, <2>3 DEF Login!RefusedIsSaved, Login!Kept, Login!SavedIsSo
    <2>10. Login!Shown.phase = "login_idle" =>
             \/ gateway = "down"
             \/ gateway \in {"started", "ended", "paused"} /\ ~auto
             \/ gateway \in Login!InProgress /\ clock - fold.last > Stall
      <3> SUFFICES ASSUME Login!Shown.phase = "login_idle", gateway # "down"
                   PROVE  \/ gateway \in {"started", "ended", "paused"} /\ ~auto
                          \/ gateway \in Login!InProgress /\ clock - fold.last > Stall
        OBVIOUS
      <3>1. p.phase = "login_idle"
        BY <2>3
      <3>2. CASE fold.phase \in {"twofa_ended", "restarting"} /\ clock - fold.since > IdleAfter
        BY <3>2 DEF Login!Kept, Login!PhaseIsWhere, Login!TimesAreKept
      <3>3. CASE fold.phase = "throttled" /\ clock > fold.retryAt + IdleAfter
        BY <3>3 DEF Login!Kept, Login!PhaseIsWhere, Login!TimesAreKept
      <3>4. CASE fold.phase = "logging_in" /\ clock - fold.last > Stall
        BY <3>4 DEF Login!Kept, Login!PhaseIsWhere
      <3> QED BY <2>2, <3>1, <3>2, <3>3, <3>4
    <2>11. Login!RestartIsNeeded
      BY <1>2, <2>1, <2>3, <2>10
         DEF Login!RestartIsNeeded, Login!Advice, Login!Kept, Login!PhaseIsWhere
    <2> QED BY <2>6, <2>7, <2>8, <2>9, <2>11 DEF Login!IInv
  <1> QED BY <1>1, <1>2

LEMMA LoginBegins == Login!Init => Login!Kept
  <1> SUFFICES ASSUME Login!Init PROVE Login!Kept
    OBVIOUS
  <1>1. /\ clock = 0 /\ fold = Login!Fold0 /\ mtime = 0 /\ gateway \in {"down", "ended", "up"}
        /\ auto \in BOOLEAN /\ atStart = FALSE /\ (gateway = "ended" => ~auto)
        /\ since0 = 0 /\ paused = 0 /\ rounds = 0 /\ pushes = 0 /\ logins = 0
    BY DEF Login!Init
  <1>2. fold \in Login!Fold
    BY <1>1, 0 \in Nat, Zenon DEF Login!Fold0, Login!Fold, Login!Details
  <1>3. /\ fold.phase = "none" /\ fold.since = -1 /\ fold.noise = -1 /\ ~fold.refused
        /\ fold.reason = "none" /\ ~fold.complete /\ ~fold.after
    BY <1>1, Zenon DEF Login!Fold0, Login!Never
  <1>4. Login!TypeOK
    <2>1. clock \in 0..MaxClock /\ mtime \in 0..clock /\ fold.since <= clock
      BY <1>1, <1>3, LoginConstants
    <2>2. {auto, atStart} \subseteq BOOLEAN
      BY <1>1, Zenon
    <2>3. /\ since0 \in 0..clock /\ paused \in 0..(clock + 1) /\ rounds \in 0..MaxRounds
          /\ pushes \in 0..MaxRounds /\ logins \in 0..1
      BY <1>1, LoginConstants
    <2> QED BY <1>1, <1>2, <2>1, <2>2, <2>3, Zenon DEF Login!TypeOK
  <1>5. Login!PhaseIsWhere /\ Login!NoPhaseYet
    BY <1>1, <1>3 DEF Login!PhaseIsWhere, Login!NoPhaseYet, Login!Never
  <1>6. Login!TimesAreKept
    BY <1>1, <1>3, LoginConstants DEF Login!TimesAreKept
  <1>7. Login!CountsStartAgain /\ Login!SavedIsSo /\ Login!LoginIsCounted /\ Login!CountsTrue
    BY <1>1, <1>3 DEF Login!CountsStartAgain, Login!SavedIsSo, Login!LoginIsCounted, Login!CountsTrue
  <1> QED BY <1>4, <1>5, <1>6, <1>7 DEF Login!Kept

\* The counts, when a line may be the first sign of a new login, and when it is not.
LEMMA LoginCountsStay ==
    ASSUME Login!Kept, UNCHANGED <<rounds, pushes>>,
           LoginCounts(fold') = LoginCountsFrom(fold) \/ LoginCounts(fold') = LoginCounts(fold)
    PROVE  /\ Login!CountsTrue' /\ (fold'.after => fold.after)
           /\ LoginCounts(fold') = LoginCountsFrom(fold) => ~fold'.after
  <1>1. Login!CountsTrue /\ (fold.after => rounds = 0 /\ pushes = 0)
    BY DEF Login!Kept, Login!CountsStartAgain
  <1>2. CASE fold.after /\ LoginCounts(fold') = LoginCountsFrom(fold)
    <2>1. ~fold'.after /\ fold'.attempts = 0 /\ fold'.challenges = 0
      BY <1>2, Zenon DEF LoginCountsFrom, LoginCounts
    <2> QED BY <1>1, <1>2, <2>1, Zenon DEF Login!CountsTrue
  <1>3. CASE LoginCounts(fold') = LoginCounts(fold)
    <2>1. /\ fold'.after = fold.after /\ fold'.attempts = fold.attempts
          /\ fold'.challenges = fold.challenges /\ fold'.complete = fold.complete
      BY <1>3, Zenon DEF LoginCounts
    <2>2. LoginCounts(fold') = LoginCountsFrom(fold) => ~fold'.after
      BY <2>1, Zenon DEF LoginCountsFrom, LoginCounts
    <2> QED BY <1>1, <2>1, <2>2, Zenon DEF Login!CountsTrue
  <1> QED BY <1>2, <1>3, Zenon DEF LoginCountsFrom

LEMMA LoginMarksOf ==
    ASSUME NEW f, NEW g, LoginMarks(g) = LoginMarks(f)
    PROVE  g.refused = f.refused /\ g.reason = f.reason /\ g.retryAt = f.retryAt /\ g.noise = f.noise
  BY Zenon DEF LoginMarks

LEMMA LoginStarting ==
    ASSUME Login!Kept, Login!Starts
    PROVE  Login!Kept'
  <1>1. PICK g \in {Login!OnRestart(fold), Login!OnWarm(Login!OnRestart(fold))} : Login!Line(g)
    BY Zenon DEF Login!Starts
  <1>2. /\ gateway' = "started" /\ since0' = clock /\ paused' = 0 /\ auto' \in BOOLEAN
        /\ atStart' \in BOOLEAN /\ UNCHANGED <<clock, rounds, pushes, logins>>
    BY DEF Login!Starts, Login!Gets, Login!truth
  <1>3. /\ fold' \in Login!Fold /\ fold'.phase = "restarting" /\ fold'.since = clock /\ mtime' = clock
        /\ LoginCounts(fold') = LoginCountsFrom(fold)
        /\ LoginMarks(fold') = <<FALSE, "none", Login!Never, fold.noise>>
    <2>1. fold \in Login!Fold /\ clock \in Nat
      BY LoginKnown
    <2>2. /\ g \in Login!Fold /\ g.phase = "restarting" /\ g.since = clock
          /\ LoginCounts(g) = LoginCountsFrom(fold)
          /\ LoginMarks(g) = <<FALSE, "none", Login!Never, fold.noise>>
      BY <2>1, LoginOnRestart, Zenon
    <2>3. /\ fold' \in Login!Fold /\ fold'.phase = g.phase /\ fold'.since = g.since
          /\ LoginCounts(fold') = LoginCounts(g) /\ LoginMarks(fold') = LoginMarks(g)
          /\ mtime' = clock
      BY <1>1, <2>1, <2>2, LoginLine, Zenon
    <2> QED BY <2>2, <2>3, Zenon
  <1>4. ~fold'.refused /\ fold'.reason = "none"
    BY <1>3, Zenon DEF LoginMarks
  <1>5. Login!CountsTrue' /\ ~fold'.after
    BY <1>2, <1>3, LoginCountsStay
  <1>6. Login!TypeOK'
    BY <1>2, <1>3, LoginKnown DEF Login!Kept, Login!TypeOK
  <1>7. Login!PhaseIsWhere' /\ Login!NoPhaseYet' /\ Login!LoginIsCounted'
    BY <1>2, <1>3 DEF Login!PhaseIsWhere, Login!NoPhaseYet, Login!LoginIsCounted
  <1>8. Login!TimesAreKept'
    BY <1>2, <1>3, LoginKnown, LoginConstants DEF Login!TimesAreKept
  <1>9. Login!CountsStartAgain' /\ Login!SavedIsSo'
    BY <1>2, <1>4, <1>5 DEF Login!Kept, Login!CountsStartAgain, Login!SavedIsSo
  <1> QED BY <1>5, <1>6, <1>7, <1>8, <1>9 DEF Login!Kept

\* A line of a gateway that neither started nor ended its login nor pauses.
LEMMA LoginWrote ==
    ASSUME Login!Kept, fold' \in Login!Fold, fold'.since \in {clock, fold.since},
           fold'.phase # "none", mtime' = clock, UNCHANGED <<clock, auto, atStart>>,
           gateway' \in {"login", "round", "challenged", "approved", "rejected", "up"},
           since0' \in {0, since0}, paused' \in {0, paused},
           rounds' \in 0..MaxRounds, pushes' \in 0..MaxRounds, logins' \in 0..1
    PROVE  Login!TypeOK' /\ Login!TimesAreKept' /\ Login!NoPhaseYet'
  <1>1. Login!TypeOK'
    <2>1. clock' \in 0..MaxClock /\ mtime' \in 0..clock' /\ fold'.since <= clock'
      BY LoginKnown, LoginConstants DEF Login!Kept, Login!TypeOK
    <2>2. {auto, atStart}' \subseteq BOOLEAN
      BY Zenon DEF Login!Kept, Login!TypeOK
    <2>3. since0' \in 0..clock' /\ paused' \in 0..(clock' + 1)
      BY LoginKnown DEF Login!Kept, Login!TypeOK
    <2> QED BY <2>1, <2>2, <2>3, Zenon DEF Login!TypeOK, Login!InProgress
  <1>2. Login!TimesAreKept'
    BY LoginKnown DEF Login!TimesAreKept
  <1> QED BY <1>1, <1>2 DEF Login!NoPhaseYet

LEMMA LoginTruth ==
    ASSUME Login!Kept
    PROVE  /\ rounds \in 0..MaxRounds /\ pushes \in 0..MaxRounds /\ logins \in 0..1
           /\ rounds \in Nat /\ pushes \in Nat
  BY LoginConstants DEF Login!Kept, Login!TypeOK

LEMMA LoginLogins ==
    ASSUME Login!Kept, Login!LoginStart
    PROVE  Login!Kept'
  <1> DEFINE g == Login!OnLoginStart(fold)
  <1>1. /\ gateway' = "login" /\ since0' = 0 /\ paused' = 0
        /\ UNCHANGED <<clock, auto, atStart, rounds, pushes, logins>> /\ Login!Line(g)
        /\ gateway \in {"started", "ended", "paused"} /\ (gateway = "ended" => auto)
    BY DEF Login!LoginStart, Login!Gets, Login!truth
  <1>2. fold \in Login!Fold /\ clock \in Nat /\ fold.phase # "awaiting_2fa" /\ fold.phase # "none"
    BY <1>1, LoginKnown DEF Login!Kept, Login!PhaseIsWhere, Login!NoPhaseYet
  <1>3. /\ g \in Login!Fold /\ g.phase = "logging_in" /\ LoginCounts(g) = LoginCountsFrom(fold)
        /\ LoginMarks(g) = LoginMarks(fold) /\ g.since \in {clock, fold.since}
    BY <1>2, LoginOnLoginStart, Zenon
  <1> HIDE DEF g
  <1>4. /\ fold' \in Login!Fold /\ fold'.phase = "logging_in" /\ mtime' = clock
        /\ LoginCounts(fold') = LoginCountsFrom(fold) /\ LoginMarks(fold') = LoginMarks(fold)
        /\ fold'.since \in {clock, fold.since}
    BY <1>1, <1>2, <1>3, LoginLine, Zenon
  <1>5. fold'.refused = fold.refused /\ fold'.reason = fold.reason
    BY <1>4, LoginMarksOf, Zenon
  <1>6. Login!TypeOK' /\ Login!TimesAreKept' /\ Login!NoPhaseYet'
    BY <1>1, <1>4, LoginWrote, LoginTruth
  <1>7. Login!CountsTrue' /\ ~fold'.after
    BY <1>1, <1>4, LoginCountsStay
  <1>8. Login!PhaseIsWhere' /\ Login!LoginIsCounted'
    BY <1>1, <1>4 DEF Login!PhaseIsWhere, Login!InProgress, Login!LoginIsCounted
  <1>9. Login!CountsStartAgain' /\ Login!SavedIsSo'
    BY <1>1, <1>5, <1>7 DEF Login!Kept, Login!CountsStartAgain, Login!SavedIsSo
  <1> QED BY <1>6, <1>7, <1>8, <1>9 DEF Login!Kept

LEMMA LoginRounds ==
    ASSUME Login!Kept, Login!AuthStart
    PROVE  Login!Kept'
  <1>1. /\ gateway' = "round" /\ since0' = 0 /\ paused' = 0 /\ rounds' = rounds + 1
        /\ UNCHANGED <<clock, auto, atStart, pushes, logins>>
        /\ gateway = "login" /\ rounds < MaxRounds
    BY DEF Login!AuthStart, Login!Gets
  <1>2. PICK typed \in BOOLEAN, key \in BOOLEAN :
            Login!Line(Login!OnAuthStart(fold, typed, atStart, key))
    BY Zenon DEF Login!AuthStart
  <1> DEFINE g == Login!OnAuthStart(fold, typed, atStart, key)
  <1>3. fold \in Login!Fold /\ clock \in Nat /\ atStart \in BOOLEAN /\ ~fold.after
    BY <1>1, LoginKnown DEF Login!Kept, Login!TypeOK, Login!CountsStartAgain
  <1>4. /\ g \in Login!Fold /\ g.phase = "logging_in" /\ g.since \in {clock, fold.since}
        /\ LoginCounts(g) = <<fold.after, fold.attempts + 1, fold.challenges, fold.complete>>
        /\ (g.refused => atStart) /\ g.reason = fold.reason
    <2>1. \E x, y \in BOOLEAN : g = Login!OnAuthStart(fold, x, atStart, y)
      BY Zenon
    <2> HIDE DEF g
    <2> QED BY <1>3, <2>1, LoginOnAuthStart, Zenon
  <1> HIDE DEF g
  <1>5. /\ fold' \in Login!Fold /\ fold'.phase = "logging_in" /\ mtime' = clock
        /\ fold'.since \in {clock, fold.since}
        /\ LoginCounts(fold') = <<fold.after, fold.attempts + 1, fold.challenges, fold.complete>>
        /\ LoginMarks(fold') = LoginMarks(g)
    BY <1>2, <1>3, <1>4, LoginLine, Zenon DEF g
  <1>6. /\ fold'.refused => atStart
        /\ fold'.reason = fold.reason
        /\ fold'.after = fold.after /\ fold'.attempts = fold.attempts + 1
        /\ fold'.challenges = fold.challenges /\ fold'.complete = fold.complete
    BY <1>4, <1>5, Zenon DEF LoginMarks, LoginCounts
  <1>7. Login!TypeOK' /\ Login!TimesAreKept' /\ Login!NoPhaseYet'
    <2>1. rounds' \in 0..MaxRounds
      BY <1>1, LoginTruth, LoginConstants
    <2> QED BY <1>1, <1>5, <2>1, LoginWrote, LoginTruth
  <1>8. Login!PhaseIsWhere' /\ Login!LoginIsCounted'
    BY <1>1, <1>5 DEF Login!PhaseIsWhere, Login!InProgress, Login!LoginIsCounted
  <1>9. Login!CountsStartAgain'
    BY <1>1, <1>3, <1>6, LoginTruth DEF Login!Kept, Login!CountsStartAgain
  <1>10. Login!SavedIsSo'
    BY <1>1, <1>6, Zenon DEF Login!Kept, Login!SavedIsSo
  <1>11. Login!CountsTrue'
    BY <1>1, <1>6, Zenon DEF Login!Kept, Login!CountsTrue
  <1> QED BY <1>7, <1>8, <1>9, <1>10, <1>11 DEF Login!Kept

LEMMA LoginChallenges ==
    ASSUME Login!Kept, Login!Challenge
    PROVE  Login!Kept'
  <1> DEFINE g == Login!OnChallenge(fold)
  <1>1. /\ gateway' = "challenged" /\ since0' = 0 /\ paused' = 0 /\ pushes' = pushes + 1
        /\ UNCHANGED <<clock, auto, atStart, rounds, logins>> /\ gateway = "round" /\ Login!Line(g)
    BY DEF Login!Challenge, Login!Gets
  <1>2. fold \in Login!Fold /\ clock \in Nat /\ ~fold.after /\ pushes < rounds
    BY <1>1, LoginKnown DEF Login!Kept, Login!CountsStartAgain
  <1>3. /\ g \in Login!Fold /\ g.phase = "awaiting_2fa" /\ g.since = clock
        /\ LoginCounts(g) = <<fold.after, fold.attempts, fold.challenges + 1, fold.complete>>
        /\ LoginMarks(g) = LoginMarks(fold)
    BY <1>2, LoginOnChallenge, Zenon
  <1> HIDE DEF g
  <1>4. /\ fold' \in Login!Fold /\ fold'.phase = "awaiting_2fa" /\ mtime' = clock
        /\ fold'.since \in {clock, fold.since}
        /\ LoginCounts(fold') = <<fold.after, fold.attempts, fold.challenges + 1, fold.complete>>
        /\ LoginMarks(fold') = LoginMarks(fold)
    BY <1>1, <1>2, <1>3, LoginLine, Zenon
  <1>5. /\ fold'.refused = fold.refused /\ fold'.reason = fold.reason
        /\ fold'.after = fold.after /\ fold'.attempts = fold.attempts
        /\ fold'.challenges = fold.challenges + 1 /\ fold'.complete = fold.complete
    BY <1>4, Zenon DEF LoginMarks, LoginCounts
  <1>6. pushes' \in 0..MaxRounds
    BY <1>1, <1>2, LoginTruth, LoginConstants
  <1>7. Login!TypeOK' /\ Login!TimesAreKept' /\ Login!NoPhaseYet'
    BY <1>1, <1>4, <1>6, LoginWrote, LoginTruth
  <1>8. Login!PhaseIsWhere' /\ Login!LoginIsCounted'
    BY <1>1, <1>4 DEF Login!PhaseIsWhere, Login!LoginIsCounted
  <1>9. Login!CountsStartAgain'
    BY <1>1, <1>2, <1>5, LoginTruth DEF Login!Kept, Login!CountsStartAgain
  <1>10. Login!SavedIsSo' /\ Login!CountsTrue'
    BY <1>1, <1>5, Zenon DEF Login!Kept, Login!SavedIsSo, Login!CountsTrue
  <1> QED BY <1>7, <1>8, <1>9, <1>10 DEF Login!Kept

LEMMA LoginRetries ==
    ASSUME Login!Kept, Login!Retries
    PROVE  Login!Kept'
  <1>1. /\ gateway' = "login" /\ since0' = 0 /\ paused' = 0 /\ gateway = "round"
        /\ UNCHANGED <<clock, auto, atStart, rounds, pushes, logins>>
    BY DEF Login!Retries, Login!Gets, Login!truth
  <1>2. PICK g \in {Login!OnRetry(fold, "no_answer"), Login!OnCompleted(fold, FALSE, 0)} : Login!Line(g)
    BY Zenon DEF Login!Retries
  <1>3. /\ fold \in Login!Fold /\ clock \in Nat /\ ~fold.after
        /\ fold.phase \notin {"login_rejected", "twofa_ended"}
    BY <1>1, LoginKnown DEF Login!Kept, Login!PhaseIsWhere, Login!CountsStartAgain
  <1>4. /\ g \in Login!Fold /\ g.phase = "logging_in" /\ g.since \in {clock, fold.since}
        /\ LoginCounts(g) = LoginCounts(fold) /\ LoginMarks(g) = LoginMarks(fold)
    BY <1>3, LoginOnRetry, Zenon
  <1>5. /\ fold' \in Login!Fold /\ fold'.phase = "logging_in" /\ mtime' = clock
        /\ fold'.since \in {clock, fold.since}
        /\ LoginCounts(fold') = LoginCounts(fold) /\ LoginMarks(fold') = LoginMarks(fold)
    BY <1>2, <1>3, <1>4, LoginLine, Zenon
  <1>6. fold'.refused = fold.refused /\ fold'.reason = fold.reason
    BY <1>5, LoginMarksOf, Zenon
  <1>7. Login!TypeOK' /\ Login!TimesAreKept' /\ Login!NoPhaseYet'
    BY <1>1, <1>5, LoginWrote, LoginTruth
  <1>8. Login!CountsTrue' /\ (fold'.after => fold.after)
    BY <1>1, <1>5, LoginCountsStay
  <1>9. Login!PhaseIsWhere' /\ Login!LoginIsCounted'
    BY <1>1, <1>5 DEF Login!PhaseIsWhere, Login!InProgress, Login!LoginIsCounted
  <1>10. Login!CountsStartAgain' /\ Login!SavedIsSo'
    BY <1>1, <1>3, <1>6, <1>8 DEF Login!Kept, Login!CountsStartAgain, Login!SavedIsSo
  <1> QED BY <1>7, <1>8, <1>9, <1>10 DEF Login!Kept

LEMMA LoginCompletes ==
    ASSUME Login!Kept, Login!Completes
    PROVE  Login!Kept'
  <1>1. /\ gateway' = "approved" /\ since0' = 0 /\ paused' = 0 /\ gateway \in {"round", "challenged"}
        /\ UNCHANGED <<clock, auto, atStart, rounds, pushes, logins>>
    BY DEF Login!Completes, Login!Gets, Login!truth
  <1>2. PICK n \in {1, 5} : Login!Line(Login!OnCompleted(fold, TRUE, n))
    BY Zenon DEF Login!Completes
  <1> DEFINE g == Login!OnCompleted(fold, TRUE, n)
  <1>3. /\ fold \in Login!Fold /\ clock \in Nat /\ ~fold.after /\ n \in Nat
        /\ fold.phase \in {"logging_in", "awaiting_2fa"}
    BY <1>1, LoginKnown
       DEF Login!Kept, Login!PhaseIsWhere, Login!CountsStartAgain, Login!InProgress, Login!Phases
  <1>4. /\ g \in Login!Fold /\ g.phase = fold.phase /\ g.since = fold.since
        /\ LoginCounts(g) = LoginCounts(fold) /\ LoginMarks(g) = LoginMarks(fold)
    BY <1>3, LoginOnCompleted, Zenon
  <1> HIDE DEF g
  <1>5. /\ fold' \in Login!Fold /\ fold'.phase = fold.phase /\ mtime' = clock
        /\ fold'.since \in {clock, fold.since}
        /\ LoginCounts(fold') = LoginCounts(fold) /\ LoginMarks(fold') = LoginMarks(fold)
    BY <1>2, <1>3, <1>4, LoginLine, Zenon DEF g
  <1>6. fold'.refused = fold.refused /\ fold'.reason = fold.reason
    BY <1>5, LoginMarksOf, Zenon
  <1>7. Login!TypeOK' /\ Login!TimesAreKept' /\ Login!NoPhaseYet'
    BY <1>1, <1>3, <1>5, LoginWrote, LoginTruth
  <1>8. Login!CountsTrue' /\ (fold'.after => fold.after)
    BY <1>1, <1>5, LoginCountsStay
  <1>9. Login!PhaseIsWhere' /\ Login!LoginIsCounted'
    BY <1>1, <1>3, <1>5 DEF Login!PhaseIsWhere, Login!InProgress, Login!LoginIsCounted
  <1>10. Login!CountsStartAgain' /\ Login!SavedIsSo'
    BY <1>1, <1>3, <1>6, <1>8 DEF Login!Kept, Login!CountsStartAgain, Login!SavedIsSo
  <1> QED BY <1>7, <1>8, <1>9, <1>10 DEF Login!Kept

LEMMA LoginSucceeds ==
    ASSUME Login!Kept, Login!LogsIn
    PROVE  Login!Kept'
  <1> DEFINE g == Login!OnLoggedIn(fold)
  <1>1. /\ gateway' = "up" /\ since0' = 0 /\ paused' = 0 /\ gateway = "approved" /\ Login!Line(g)
        /\ UNCHANGED <<clock, auto, atStart>> /\ rounds' = 0 /\ pushes' = 0 /\ logins = 0 /\ logins' = 1
    BY DEF Login!LogsIn, Login!Gets
  <1>2. fold \in Login!Fold /\ clock \in Nat
    BY LoginKnown
  <1>3. /\ g \in Login!Fold /\ g.phase = "logged_in" /\ g.since = clock
        /\ LoginCounts(g) = <<TRUE, fold.attempts, fold.challenges, fold.complete>>
        /\ LoginMarks(g) = <<fold.refused, fold.reason, Login!Never, fold.noise>>
    BY <1>2, LoginOnLoggedIn, Zenon
  <1> HIDE DEF g
  <1>4. /\ fold' \in Login!Fold /\ fold'.phase = "logged_in" /\ mtime' = clock
        /\ fold'.since \in {clock, fold.since}
        /\ LoginCounts(fold') = <<TRUE, fold.attempts, fold.challenges, fold.complete>>
        /\ LoginMarks(fold') = <<fold.refused, fold.reason, Login!Never, fold.noise>>
    BY <1>1, <1>2, <1>3, LoginLine, Zenon
  <1>5. fold'.refused = fold.refused /\ fold'.reason = fold.reason /\ fold'.after
    BY <1>4, Zenon DEF LoginMarks, LoginCounts
  <1>6. rounds' \in 0..MaxRounds /\ pushes' \in 0..MaxRounds /\ logins' \in 0..1
    BY <1>1, LoginConstants
  <1>7. Login!TypeOK' /\ Login!TimesAreKept' /\ Login!NoPhaseYet'
    BY <1>1, <1>4, <1>6, LoginWrote
  <1>8. Login!PhaseIsWhere' /\ Login!LoginIsCounted' /\ Login!CountsTrue'
    BY <1>1, <1>4, <1>5 DEF Login!PhaseIsWhere, Login!LoginIsCounted, Login!CountsTrue
  <1>9. Login!CountsStartAgain' /\ Login!SavedIsSo'
    BY <1>1, <1>5 DEF Login!Kept, Login!CountsStartAgain, Login!SavedIsSo
  <1> QED BY <1>7, <1>8, <1>9 DEF Login!Kept

LEMMA LoginRejects ==
    ASSUME Login!Kept, Login!Rejects
    PROVE  Login!Kept'
  <1>1. /\ gateway' = "rejected" /\ since0' \in {0, since0} /\ paused' \in {0, paused}
        /\ UNCHANGED <<clock, auto, atStart, rounds, pushes, logins>>
        /\ gateway \in {"round", "challenged", "rejected"}
    BY DEF Login!Rejects, Login!Gets, Login!truth
  <1>2. PICK why \in {"credentials", "saved_session_refused", "unrecognized"} :
            /\ Login!Line(Login!OnRejected(fold, why))
            /\ why = "saved_session_refused" => fold.refused
    BY Zenon DEF Login!Rejects, Login!CredentialsReason
  <1> DEFINE g == Login!OnRejected(fold, why)
  <1>3. fold \in Login!Fold /\ clock \in Nat /\ ~fold.after
    BY <1>1, LoginKnown DEF Login!Kept, Login!CountsStartAgain
  <1>4. /\ g \in Login!Fold /\ g.phase = "login_rejected" /\ g.since \in {clock, fold.since}
        /\ LoginCounts(g) = LoginCounts(fold) /\ g.refused = fold.refused /\ g.reason \in {fold.reason, why}
    BY <1>3, LoginOnRejected, Zenon
  <1> HIDE DEF g
  <1>5. /\ fold' \in Login!Fold /\ fold'.phase = "login_rejected" /\ mtime' = clock
        /\ fold'.since \in {clock, fold.since}
        /\ LoginCounts(fold') = LoginCounts(fold) /\ LoginMarks(fold') = LoginMarks(g)
    BY <1>2, <1>3, <1>4, LoginLine, Zenon DEF g
  <1>6. fold'.refused = fold.refused /\ fold'.reason \in {fold.reason, why}
    BY <1>4, <1>5, LoginMarksOf, Zenon
  <1>7. Login!TypeOK' /\ Login!TimesAreKept' /\ Login!NoPhaseYet'
    BY <1>1, <1>5, LoginWrote, LoginTruth
  <1>8. Login!CountsTrue' /\ (fold'.after => fold.after)
    BY <1>1, <1>5, LoginCountsStay
  <1>9. Login!PhaseIsWhere' /\ Login!LoginIsCounted'
    BY <1>1, <1>5 DEF Login!PhaseIsWhere, Login!LoginIsCounted
  <1>10. Login!CountsStartAgain' /\ Login!SavedIsSo'
    BY <1>1, <1>2, <1>3, <1>6, <1>8 DEF Login!Kept, Login!CountsStartAgain, Login!SavedIsSo
  <1> QED BY <1>7, <1>8, <1>9, <1>10 DEF Login!Kept

LEMMA LoginChallengeEnds ==
    ASSUME Login!Kept, Login!ChallengeEnds
    PROVE  Login!Kept'
  <1> DEFINE g == Login!OnTwofaEnded(fold)
  <1>1. /\ gateway' = "ended" /\ since0' = clock /\ paused' = 0 /\ gateway \in {"round", "challenged"}
        /\ UNCHANGED <<clock, auto, atStart, rounds, pushes, logins>> /\ Login!Line(g)
    BY DEF Login!ChallengeEnds, Login!Gets, Login!truth
  <1>2. fold \in Login!Fold /\ clock \in Nat /\ ~fold.after /\ fold.phase # "twofa_ended"
    BY <1>1, LoginKnown DEF Login!Kept, Login!PhaseIsWhere, Login!CountsStartAgain
  <1>3. /\ g \in Login!Fold /\ g.phase = "twofa_ended" /\ g.since = clock
        /\ LoginCounts(g) = LoginCounts(fold) /\ LoginMarks(g) = LoginMarks(fold)
    BY <1>2, LoginOnTwofaEnded, Zenon
  <1> HIDE DEF g
  <1>4. /\ fold' \in Login!Fold /\ fold'.phase = "twofa_ended" /\ mtime' = clock /\ fold'.since = clock
        /\ LoginCounts(fold') = LoginCounts(fold) /\ LoginMarks(fold') = LoginMarks(fold)
    BY <1>1, <1>2, <1>3, LoginLine, Zenon
  <1>5. fold'.refused = fold.refused /\ fold'.reason = fold.reason
    BY <1>4, LoginMarksOf, Zenon
  <1>6. Login!TypeOK'
    BY <1>1, <1>4, LoginKnown DEF Login!Kept, Login!TypeOK
  <1>7. Login!TimesAreKept'
    BY <1>1, <1>4, LoginKnown, LoginConstants DEF Login!TimesAreKept
  <1>8. Login!CountsTrue' /\ (fold'.after => fold.after)
    BY <1>1, <1>4, LoginCountsStay
  <1>9. Login!PhaseIsWhere' /\ Login!LoginIsCounted' /\ Login!NoPhaseYet'
    BY <1>1, <1>4 DEF Login!PhaseIsWhere, Login!LoginIsCounted, Login!NoPhaseYet
  <1>10. Login!CountsStartAgain' /\ Login!SavedIsSo'
    BY <1>1, <1>2, <1>5, <1>8 DEF Login!Kept, Login!CountsStartAgain, Login!SavedIsSo
  <1> QED BY <1>6, <1>7, <1>8, <1>9, <1>10 DEF Login!Kept

LEMMA LoginPauses ==
    ASSUME Login!Kept, Login!Pauses
    PROVE  Login!Kept'
  <1> DEFINE g == Login!OnThrottle(fold, paused')
  <1>1. /\ gateway' = "paused" /\ since0' = 0 /\ paused' = clock + 1 /\ gateway \in {"ended", "login"}
        /\ UNCHANGED <<clock, auto, atStart, rounds, pushes, logins>> /\ Login!Line(g)
    BY DEF Login!Pauses, Login!Gets, Login!truth
  <1>2. fold \in Login!Fold /\ clock \in Nat /\ paused' \in Nat /\ ~fold.after
    BY <1>1, LoginKnown DEF Login!Kept, Login!CountsStartAgain
  <1>3. /\ g \in Login!Fold /\ g.phase = "throttled" /\ g.since \in {clock, fold.since}
        /\ LoginCounts(g) = LoginCounts(fold)
        /\ LoginMarks(g) = <<fold.refused, fold.reason, paused', fold.noise>>
    BY <1>2, LoginOnThrottle, Zenon
  <1> HIDE DEF g
  <1>4. /\ fold' \in Login!Fold /\ fold'.phase = "throttled" /\ mtime' = clock
        /\ fold'.since \in {clock, fold.since}
        /\ LoginCounts(fold') = LoginCounts(fold)
        /\ LoginMarks(fold') = <<fold.refused, fold.reason, paused', fold.noise>>
    BY <1>1, <1>2, <1>3, LoginLine, Zenon
  <1>5. fold'.refused = fold.refused /\ fold'.reason = fold.reason /\ fold'.retryAt = paused'
    BY <1>4, Zenon DEF LoginMarks
  <1>6. Login!TypeOK'
    BY <1>1, <1>4, LoginKnown DEF Login!Kept, Login!TypeOK
  <1>7. Login!TimesAreKept'
    BY <1>1, <1>4, <1>5, LoginKnown, LoginConstants DEF Login!TimesAreKept
  <1>8. Login!CountsTrue' /\ (fold'.after => fold.after)
    BY <1>1, <1>4, LoginCountsStay
  <1>9. Login!PhaseIsWhere' /\ Login!LoginIsCounted' /\ Login!NoPhaseYet'
    BY <1>1, <1>4 DEF Login!PhaseIsWhere, Login!LoginIsCounted, Login!NoPhaseYet
  <1>10. Login!CountsStartAgain' /\ Login!SavedIsSo'
    BY <1>1, <1>2, <1>5, <1>8 DEF Login!Kept, Login!CountsStartAgain, Login!SavedIsSo
  <1> QED BY <1>6, <1>7, <1>8, <1>9, <1>10 DEF Login!Kept

\* Other lines, a gateway that dies, and time change nothing but what they say.
LEMMA LoginMutters ==
    ASSUME Login!Kept, Login!Writes
    PROVE  Login!Kept'
  <1>1. /\ gateway \notin {"down", "up"} /\ mtime' = clock
        /\ UNCHANGED <<clock, gateway, auto, atStart, since0, paused, rounds, pushes, logins>>
    BY DEF Login!Writes, Login!real, Login!truth
  <1>2. \/ fold' = fold
        \/ fold.phase = "none" /\ fold' = [fold EXCEPT !.noise = clock]
    BY Zenon DEF Login!Writes
  <1>3. fold \in Login!Fold /\ clock \in Nat
    BY LoginKnown
  <1>4. /\ fold' \in Login!Fold /\ fold'.phase = fold.phase /\ fold'.since = fold.since
        /\ LoginCounts(fold') = LoginCounts(fold) /\ fold'.refused = fold.refused
        /\ fold'.reason = fold.reason /\ fold'.retryAt = fold.retryAt
    BY <1>2, <1>3, Zenon DEF Login!Fold, LoginCounts
  <1>5. Login!TypeOK'
    BY <1>1, <1>4, LoginKnown DEF Login!Kept, Login!TypeOK
  <1>6. Login!NoPhaseYet' /\ Login!PhaseIsWhere' /\ Login!LoginIsCounted'
    BY <1>1, <1>4 DEF Login!Kept, Login!NoPhaseYet, Login!PhaseIsWhere, Login!LoginIsCounted
  <1>7. Login!TimesAreKept'
    BY <1>1, <1>4, LoginKnown DEF Login!Kept, Login!TimesAreKept
  <1>8. Login!CountsTrue' /\ (fold'.after => fold.after)
    BY <1>1, <1>4, LoginCountsStay
  <1>9. Login!CountsStartAgain' /\ Login!SavedIsSo'
    BY <1>1, <1>4, <1>8 DEF Login!Kept, Login!CountsStartAgain, Login!SavedIsSo
  <1> QED BY <1>5, <1>6, <1>7, <1>8, <1>9 DEF Login!Kept

LEMMA LoginDies ==
    ASSUME Login!Kept, Login!Dies
    PROVE  Login!Kept'
  <1>1. /\ gateway' = "down" /\ since0' = 0 /\ paused' = 0
        /\ UNCHANGED <<clock, fold, mtime, auto, atStart, rounds, pushes, logins>>
    BY DEF Login!Dies, Login!Gets, Login!truth
  <1>2. Login!TypeOK'
    BY <1>1, LoginKnown DEF Login!Kept, Login!TypeOK
  <1>3. Login!NoPhaseYet' /\ Login!PhaseIsWhere' /\ Login!LoginIsCounted' /\ Login!TimesAreKept'
    BY <1>1 DEF Login!Kept, Login!NoPhaseYet, Login!PhaseIsWhere, Login!LoginIsCounted,
       Login!TimesAreKept
  <1>4. Login!CountsStartAgain' /\ Login!SavedIsSo' /\ Login!CountsTrue'
    BY <1>1 DEF Login!Kept, Login!CountsStartAgain, Login!SavedIsSo, Login!CountsTrue
  <1> QED BY <1>2, <1>3, <1>4 DEF Login!Kept

LEMMA LoginTicks ==
    ASSUME Login!Kept, Login!Tick
    PROVE  Login!Kept'
  <1>1. /\ clock < MaxClock /\ clock' = clock + 1 /\ mtime' \in {mtime, clock'}
        /\ gateway \notin {"down", "up"} => mtime = clock
        /\ gateway \in {"started", "ended"} /\ auto => clock' - since0 <= IdleAfter
        /\ gateway = "paused" /\ auto => clock' - paused <= IdleAfter
        /\ UNCHANGED <<fold, gateway, auto, atStart, since0, paused, rounds, pushes, logins>>
    BY DEF Login!Tick, Login!real, Login!truth
  <1>2. Login!TypeOK'
    <2>1. /\ clock' \in 0..MaxClock /\ mtime' \in 0..clock' /\ fold'.since <= clock'
          /\ since0' \in 0..clock' /\ paused' \in 0..(clock' + 1)
      BY <1>1, LoginKnown, LoginConstants DEF Login!Kept, Login!TypeOK
    <2> QED BY <1>1, <2>1 DEF Login!Kept, Login!TypeOK
  <1>3. Login!NoPhaseYet' /\ Login!PhaseIsWhere' /\ Login!LoginIsCounted'
    BY <1>1 DEF Login!Kept, Login!NoPhaseYet, Login!PhaseIsWhere, Login!LoginIsCounted
  <1>4. Login!TimesAreKept'
    BY <1>1, LoginKnown DEF Login!Kept, Login!TimesAreKept
  <1>5. Login!CountsStartAgain' /\ Login!SavedIsSo' /\ Login!CountsTrue'
    BY <1>1 DEF Login!Kept, Login!CountsStartAgain, Login!SavedIsSo, Login!CountsTrue
  <1> QED BY <1>2, <1>3, <1>4, <1>5 DEF Login!Kept

\* Every step of the gateway and of time keeps it.
LEMMA LoginKeeps ==
    ASSUME Login!IInv, [Login!Next]_(Login!lvars)
    PROVE  Login!IInv'
  <1>1. Login!Kept
    BY DEF Login!IInv
  <1>2. ASSUME UNCHANGED Login!lvars PROVE Login!Kept'
    <2>1. UNCHANGED <<clock, fold, mtime, gateway, auto, atStart, since0, paused, rounds, pushes,
                      logins>>
      BY <1>2 DEF Login!lvars, Login!real, Login!truth
    <2>2. Login!TypeOK' /\ Login!PhaseIsWhere' /\ Login!NoPhaseYet' /\ Login!TimesAreKept'
      BY <1>1, <2>1 DEF Login!Kept, Login!TypeOK, Login!PhaseIsWhere, Login!NoPhaseYet,
         Login!TimesAreKept
    <2>3. /\ Login!CountsStartAgain' /\ Login!SavedIsSo' /\ Login!LoginIsCounted'
          /\ Login!CountsTrue'
      BY <1>1, <2>1 DEF Login!Kept, Login!CountsStartAgain, Login!SavedIsSo, Login!LoginIsCounted,
         Login!CountsTrue
    <2> QED BY <2>2, <2>3 DEF Login!Kept
  <1>3. Login!Kept'
    BY <1>1, <1>2, LoginStarting, LoginLogins, LoginRounds, LoginChallenges, LoginRetries,
       LoginCompletes, LoginSucceeds, LoginRejects, LoginChallengeEnds, LoginPauses, LoginMutters,
       LoginDies, LoginTicks DEF Login!Next
  <1> QED BY <1>3, LoginJudged, PTL

-----------------------------------------------------------------------------
(* Whichever part a behaviour is of, its steps are that part's *)

LEMMA SharedSteps ==
    ASSUME part = "Shared", [AnswersNext]_answervars
    PROVE  part' = part /\ [Shared!Next]_(Shared!svars)
  BY DEF AnswersNext, answervars, named, ofAnswers, ofBoth, ofShared, Shared!svars, Shared!shared, Shared!line

LEMMA RecordsSteps ==
    ASSUME part = "Records", [AnswersNext]_answervars
    PROVE  part' = part /\ [Records!Next]_(Records!ovars)
  BY DEF AnswersNext, answervars, named, ofAnswers, ofBoth, ofRecords, Records!ovars, Records!line

LEMMA FaSteps ==
    ASSUME part = "Fa", [AnswersNext]_answervars
    PROVE  part' = part /\ [Fa!Next]_(Fa!fvars)
  BY DEF AnswersNext, answervars, named, ofAnswers, ofBoth, ofFa, Fa!fvars, Fa!fetching, Fa!server

LEMMA PnlSteps ==
    ASSUME part = "Pnl", [AnswersNext]_answervars
    PROVE  part' = part /\ [Pnl!Next]_(Pnl!pvars)
  BY DEF AnswersNext, answervars, named, ofAnswers, ofBoth, ofPnl, Pnl!pvars, Pnl!line

LEMMA PreviewsSteps ==
    ASSUME part = "Previews", [AnswersNext]_answervars
    PROVE  part' = part /\ [Previews!Next]_(Previews!vars)
  BY DEF AnswersNext, answervars, named, ofAnswers, ofBoth, ofPreviews, Previews!vars

LEMMA ModifySteps ==
    ASSUME part = "Modify", [AnswersNext]_answervars
    PROVE  part' = part /\ [Modify!Next]_(Modify!mvars)
  BY DEF AnswersNext, answervars, named, ofAnswers, ofBoth, ofModify, Modify!mvars, Modify!token,
         Modify!waitVars, Modify!trade, Modify!wires, Modify!history

LEMMA HistorySteps ==
    ASSUME part = "History", [AnswersNext]_answervars
    PROVE  part' = part /\ [History!Next]_(History!hvars)
  BY DEF AnswersNext, answervars, named, ofAnswers, ofBoth, ofHistory, History!hvars, History!pacer

LEMMA LoginSteps ==
    ASSUME part = "Login", [AnswersNext]_answervars
    PROVE  part' = part /\ [Login!Next]_(Login!lvars)
  BY DEF AnswersNext, answervars, named, ofAnswers, ofLog, ofLogin, Login!lvars, Login!real,
     Login!truth

LEMMA WorkerSteps ==
    ASSUME part = "Worker", [AnswersNext]_answervars
    PROVE  part' = part /\ [Reading!Next]_(Reading!wvars)
  BY DEF AnswersNext, answervars, named, ofAnswers, ofLog, ofWorker, Reading!wvars

\* What the two properties need of each other: a replacement's basis is what was shown only
\* while each FA document answers what was asked.
AnswersInv == AnswersAreOwn /\ OverwritesWhatWasShown

LEMMA AnswersStart == AnswersInit => AnswersInv
  BY SharedStarts, RecordsStarts, FaStarts, PnlStarts
     DEF AnswersInit, AnswersInv, AnswersAreOwn, OverwritesWhatWasShown, FaInductive

LEMMA AnswersKeep == ASSUME AnswersInv, [AnswersNext]_answervars PROVE AnswersInv'
  <1>1. part' = part
    BY DEF AnswersNext, answervars
  <1>2. part = "Shared" => Shared!IInv'
    BY SharedSteps, SharedKeeps DEF AnswersInv, AnswersAreOwn
  <1>3. part = "Records" => Records!IInv'
    BY RecordsSteps, RecordsKeeps DEF AnswersInv, AnswersAreOwn
  <1>4. part = "Fa" => Fa!IInv' /\ Fa!OverwritesWhatWasShown'
    BY FaSteps, FaKeeps DEF AnswersInv, AnswersAreOwn, OverwritesWhatWasShown, FaInductive
  <1>5. part = "Pnl" => Pnl!IInv'
    BY PnlSteps, PnlKeeps DEF AnswersInv, AnswersAreOwn
  <1> QED BY <1>1, <1>2, <1>3, <1>4, <1>5 DEF AnswersInv, AnswersAreOwn, OverwritesWhatWasShown

\* Every answer is its caller's own: of the requests IBKR answers under a fixed name, of
\* the lists of orders, of the FA documents and of the readings of profit and loss, for
\* any callers, however many requests are sent, given up, refused or cut off.
THEOREM AnswersStayOwn == AnswersSpec => []AnswersAreOwn
  <1>1. AnswersInit => AnswersInv
    BY AnswersStart
  <1>2. AnswersInv /\ [AnswersNext]_answervars => AnswersInv'
    BY AnswersKeep
  <1>3. AnswersInv => AnswersAreOwn
    BY DEF AnswersInv
  <1> QED BY <1>1, <1>2, <1>3, PTL DEF AnswersSpec

\* A replacement of the FA groups overwrites nothing but what its preview showed, however
\* many advisors replace and read them at once and whatever IBKR loses
\* (AdvisorService.apply_fa_config).
THEOREM ShownBeforeOverwritten == AnswersSpec => []OverwritesWhatWasShown
  <1>1. AnswersInit => AnswersInv
    BY AnswersStart
  <1>2. AnswersInv /\ [AnswersNext]_answervars => AnswersInv'
    BY AnswersKeep
  <1>3. AnswersInv => OverwritesWhatWasShown
    BY DEF AnswersInv
  <1> QED BY <1>1, <1>2, <1>3, PTL DEF AnswersSpec

\* What gets a token was checked - its what-ifs taken, its prices on the market rule's
\* increments or the rule asked for in vain, its orders within the limits - whichever waits
\* fail and however many previews wait side by side; a refused what-if is its own; each
\* preview that is over was audited once; and nothing waits on IBKR without a slot of the
\* limit (_check_ticks, _check_limits, _finish_preview, _what_if, _refusals).
THEOREM PreviewsStayChecked == AnswersSpec => []PreviewsAreChecked
  <1>1. AnswersInit => PreviewsAreChecked
    BY PreviewsStart DEF AnswersInit, PreviewsAreChecked
  <1>2. PreviewsAreChecked /\ [AnswersNext]_answervars => PreviewsAreChecked'
    <2>1. part' = part \/ ~[AnswersNext]_answervars
      BY DEF AnswersNext, answervars
    <2>2. PreviewsAreChecked /\ part = "Previews" /\ [AnswersNext]_answervars => Previews!IInv'
      BY PreviewsSteps, PreviewsKeep DEF PreviewsAreChecked
    <2> QED BY <2>1, <2>2 DEF PreviewsAreChecked
  <1> QED BY <1>1, <1>2, PTL DEF AnswersSpec

\* Historical requests keep IBKR's pacing rules in every window, a refused caller is told to
\* wait long enough, and identical requests are spaced (_Pacer.admit, historical_bars,
\* historical_ticks), for any number of calls.
THEOREM PacingStays == AnswersSpec => []HistoryIsPaced
  <1>1. AnswersInit => HistoryIsPaced
    BY HistoryInits DEF AnswersInit, HistoryIsPaced
  <1>2. HistoryIsPaced /\ [AnswersNext]_answervars => HistoryIsPaced'
    <2>1. part' = part \/ ~[AnswersNext]_answervars
      BY DEF AnswersNext, answervars
    <2>2. HistoryIsPaced /\ part = "History" /\ [AnswersNext]_answervars => History!IInv'
      BY HistorySteps, HistoryPaces DEF HistoryIsPaced
    <2> QED BY <2>1, <2>2 DEF HistoryIsPaced
  <1> QED BY <1>1, <1>2, PTL DEF AnswersSpec

\* A call is told that its modification was rejected only if IBKR rejected that very one,
\* and once every call is answered the cached order has the terms IBKR has - unless
\* modifications overlapped or a rejection came unnoticed - for any callers, whatever they
\* change and however often the order is filled in between (OrderService._submit_modify,
\* _modify_rejection, _wait_modify).
THEOREM ModificationsStayTrue == AnswersSpec => []ModificationsAreTrue
  <1> DEFINE Inv == part = "Modify" => ModifyHolds
  <1>1. AnswersInit => Inv
    BY ModifyStarts DEF AnswersInit
  <1>2. Inv /\ [AnswersNext]_answervars => Inv'
    <2>1. part' = part \/ ~[AnswersNext]_answervars
      BY DEF AnswersNext, answervars
    <2>2. ModifyHolds /\ part = "Modify" /\ [AnswersNext]_answervars => ModifyHolds'
      BY ModifySteps, ModifyKeeps
    <2> QED BY <2>1, <2>2
  <1>3. Inv => ModificationsAreTrue
    BY ModifyShows DEF ModificationsAreTrue
  <1> QED BY <1>1, <1>2, <1>3, PTL DEF AnswersSpec

\* The login phase read from the gateway's log is the one its gateway is in, the hint asks
\* for an approval or a restart only when the login needs it, and no call waits behind a
\* reading that hangs - for any login, time limits and number of rounds (_Fold, describe,
\* _Worker).
THEOREM LogStaysReadRight == AnswersSpec => []LogIsReadRight
  <1>1. AnswersInit => LogIsReadRight
    BY LoginBegins, LoginJudged, ReadingStarts DEF AnswersInit, LogIsReadRight
  <1>2. LogIsReadRight /\ [AnswersNext]_answervars => LogIsReadRight'
    <2>1. part' = part \/ ~[AnswersNext]_answervars
      BY DEF AnswersNext, answervars
    <2>2. LogIsReadRight /\ part = "Login" /\ [AnswersNext]_answervars => Login!IInv'
      BY LoginSteps, LoginKeeps DEF LogIsReadRight
    <2>3. LogIsReadRight /\ part = "Worker" /\ [AnswersNext]_answervars => Reading!IInv'
      BY WorkerSteps, ReadingKeeps DEF LogIsReadRight
    <2> QED BY <2>1, <2>2, <2>3 DEF LogIsReadRight
  <1> QED BY <1>1, <1>2, PTL DEF AnswersSpec
=============================================================================
