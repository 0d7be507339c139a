--------------------------- MODULE SharedRequests ---------------------------
(***************************************************************************)
(* Requests whose answers ib_async cannot tell apart: the ones it files    *)
(* under a fixed name (_call with an exclusive key) and the ones whose     *)
(* callback it lacks, so that the caller hooks it (_hooked_request), with  *)
(* a request id or a fixed name.  One lock per name or callback.  The      *)
(* order in which callers get a free lock is left open.                    *)
(***************************************************************************)
EXTENDS Naturals, Sequences, Functions

CONSTANTS Caller, None,
          MaxSends    \* bounds the requests sent

SharedAssumption ==
    /\ MaxSends \in Nat \ {0}
    /\ None \notin Caller \cup Nat

VARIABLES kind,      \* of request: "exclusive", "hooked id" or "hooked name"
          calls,     \* what each call is at, its request, and what it received
          keyLock,   \* holder of the request lock
          future,    \* whose future ib_async has under the key
          hook,      \* whose handler has the callback's place
          asked, answered,    \* requests on the way to IBKR, answers back
          sends,     \* requests sent so far, which number them
          online,    \* the session is up
          abandoned  \* history: calls sent while an answer to a call that had
                     \* given up was still to come

shared == <<keyLock, future, hook>>
line == <<asked, answered>>
svars == <<kind, calls, shared, line, sends, online, abandoned>>

Kinds == {"exclusive", "hooked id", "hooked name"}
Hooked == kind # "exclusive"

Call0 == [at |-> "idle", request |-> 0, got |-> None]

Call == [at : {"idle", "queued", "asking", "answered", "returned", "failed"},
         request : 0..MaxSends, got : 1..MaxSends \cup {None}]

TypeOK ==
    /\ kind \in Kinds /\ online \in BOOLEAN
    /\ calls \in [Caller -> Call]
    /\ {keyLock, future, hook} \subseteq Caller \cup {None}
    /\ asked \in Seq(1..MaxSends) /\ answered \in Seq(1..MaxSends)
    /\ sends \in 0..MaxSends /\ abandoned \subseteq Caller

Init ==
    /\ kind \in Kinds
    /\ calls = [c \in Caller |-> Call0]
    /\ keyLock = None /\ future = None /\ hook = None
    /\ asked = <<>> /\ answered = <<>> /\ sends = 0 /\ online = TRUE /\ abandoned = {}

Goes(c, where) == calls' = [calls EXCEPT ![c].at = where]

-----------------------------------------------------------------------------
(* A call *)

Calls(c) ==
    /\ calls[c].at \in {"idle", "returned", "failed"} /\ sends < MaxSends
    /\ calls' = [calls EXCEPT ![c] = [Call0 EXCEPT !.at = "queued"]]
    /\ UNCHANGED <<kind, shared, line, sends, online, abandoned>>

\* Requests nobody waits for any more, whose answers are still to come.
Orphans == {n \in Range(asked) \cup Range(answered) :
              \A c \in Caller : calls[c].at = "asking" => calls[c].request # n}

\* startReq, the handler in place, and the request sent: no await between.
Sends(c) ==
    IF online
    THEN /\ sends < MaxSends
         /\ sends' = sends + 1
         /\ calls' = [calls EXCEPT ![c] = [at |-> "asking", request |-> sends', got |-> None]]
         /\ keyLock' = c /\ future' = c
         /\ hook' = IF Hooked THEN c ELSE hook
         /\ asked' = Append(asked, sends')
         /\ abandoned' = IF Orphans # {} THEN abandoned \cup {c} ELSE abandoned \ {c}
    ELSE /\ Goes(c, "failed")
         /\ UNCHANGED <<shared, asked, sends, abandoned>>

\* Slip: the request goes out without its lock.
SendUnlocked(c) ==
    /\ calls[c].at = "queued" /\ (Hooked => hook = None)
    /\ Sends(c)
    /\ UNCHANGED <<kind, answered, online>>

Send(c) ==
    /\ calls[c].at = "queued" /\ keyLock = None
    /\ Sends(c)
    /\ UNCHANGED <<kind, answered, online>>

\* The task resumes with its answer, or the session was lost: the lock and the
\* callback are given back.
Release(c) ==
    /\ keyLock' = IF keyLock = c THEN None ELSE keyLock
    /\ hook' = IF hook = c THEN None ELSE hook

Returns(c) ==
    /\ calls[c].at = "answered"
    /\ Goes(c, IF calls[c].got = None THEN "failed" ELSE "returned")
    /\ Release(c)
    /\ UNCHANGED <<kind, future, line, sends, online, abandoned>>

\* The time limit: that of an exclusive call covers its wait for the lock.
\* ib_async keeps the cancelled future until the key is used again.
TimesOut(c) ==
    /\ \/ calls[c].at \in {"asking", "answered"}
       \/ calls[c].at = "queued" /\ ~Hooked
    /\ calls' = [calls EXCEPT ![c].at = "failed", ![c].got = None]
    /\ Release(c)
    /\ UNCHANGED <<kind, future, line, sends, online, abandoned>>

-----------------------------------------------------------------------------
(* IBKR and the session *)

IbkrAnswers ==
    /\ asked # <<>>
    /\ asked' = Tail(asked) /\ answered' = Append(answered, Head(asked))
    /\ UNCHANGED <<kind, calls, shared, sends, online, abandoned>>

\* Whether an answer ends the pending request: one to an exclusive name always
\* does, one to a hooked callback while the hook is there, and with a request
\* id only that request's own.
Ends(n) ==
    CASE kind = "exclusive" -> TRUE
      [] kind = "hooked name" -> hook # None
      [] kind = "hooked id" -> hook # None /\ calls[hook].request = n

\* _endReq: the future under the key gets the answer, unless it was cancelled.
Deliver ==
    /\ answered # <<>>
    /\ answered' = Tail(answered)
    /\ IF Ends(Head(answered)) /\ future # None
       THEN /\ future' = None
            /\ calls' = IF calls[future].at = "asking"
                        THEN [calls EXCEPT ![future].at = "answered", ![future].got = Head(answered)]
                        ELSE calls
       ELSE UNCHANGED <<future, calls>>
    /\ UNCHANGED <<kind, keyLock, hook, asked, sends, online, abandoned>>

\* The session goes: pending futures fail, and no answer comes any more.
Drop ==
    /\ online
    /\ online' = FALSE
    /\ asked' = <<>> /\ answered' = <<>> /\ future' = None
    /\ calls' = [c \in Caller |-> IF future = c /\ calls[c].at = "asking"
                                  THEN [calls[c] EXCEPT !.at = "answered"] ELSE calls[c]]
    /\ UNCHANGED <<kind, keyLock, hook, sends, abandoned>>

Reconnect ==
    /\ ~online
    /\ online' = TRUE
    /\ UNCHANGED <<kind, calls, shared, line, sends, abandoned>>

Next ==
    \/ \E c \in Caller : Calls(c) \/ Send(c) \/ Returns(c) \/ TimesOut(c)
    \/ IbkrAnswers \/ Deliver \/ Drop \/ Reconnect

Spec == Init /\ [][Next]_svars

-----------------------------------------------------------------------------
(* Properties *)

\* A call that waits for IBKR has the future its answer will find: no other
\* call took its place, and it would wait out its time limit in vain.
NobodyWaitsInVain == \A c \in Caller : calls[c].at = "asking" => future = c

\* The callback is hooked exactly while its owner waits, and the lock is its.
HookIsOwners == Hooked => hook = keyLock

\* A call gets the answer to its own request, unless an earlier call gave up
\* on an answer that was still to come; with a request id it always does.
AnswerIsOwn ==
    \A c \in Caller :
       calls[c].got = None \/ calls[c].got = calls[c].request
       \/ (c \in abandoned /\ kind # "hooked id")

\* The lock is its who asks, or has not resumed with its answer.
Locked == \A c \in Caller : calls[c].at \in {"asking", "answered"} <=> keyLock = c

\* A call that asks has the line for itself, or sent behind one that gave up.
Alone ==
    \A c \in Caller : calls[c].at = "asking" /\ c \notin abandoned =>
        Range(asked) \cup Range(answered) \subseteq {calls[c].request}

IInv == TypeOK /\ Locked /\ NobodyWaitsInVain /\ HookIsOwners /\ Alone /\ AnswerIsOwn
=============================================================================
