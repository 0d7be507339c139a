--------------------------- MODULE AccountUpdates ---------------------------
(***************************************************************************)
(* Portfolios: IBKR streams the portfolio of one account at a time, so a   *)
(* reading of another account switches the stream there and back.          *)
(*                                                                         *)
(* reqAccountUpdates has a fixed name: the next end of a download ends     *)
(* whichever request waits.                                                *)
(***************************************************************************)
EXTENDS Naturals, Sequences

CONSTANTS Caller, Account, Home,    \* Home is None when no account is subscribed at connect
          None,
          MaxSends, MaxSessions     \* bound the switches sent and the sessions

UpdatesAssumption ==
    /\ Home \in Account \cup {None} /\ None \notin Account \cup Caller
    /\ {MaxSends, MaxSessions} \subseteq Nat \ {0}

VARIABLES session, up,        \* the sessions so far, and whether the last is up
          known, knownIn,     \* the account taken to be streamed, and since which session
          calls, lock,        \* the readings, and who holds the request lock
          asked, ended,       \* switches on the way to IBKR, ends of downloads back
          target,             \* history: where the session's last switch went
          sends,
          late                \* history: a download of this session was given up

client == <<known, knownIn>>
line == <<asked, ended, target, sends, late>>
uvars == <<session, up, known, knownIn, calls, lock, asked, ended, target, sends, late>>

Call0 == [at |-> "idle", account |-> None, got |-> None, spoilt |-> FALSE]

Call == [at : {"idle", "queued", "switching", "switched", "back", "done", "failed"},
         account : Account \cup {None}, got : Account \cup {None, "cache"}, spoilt : BOOLEAN]

TypeOK ==
    /\ session \in 1..MaxSessions /\ up \in BOOLEAN /\ late \in BOOLEAN
    /\ known \in Account \cup {None} /\ knownIn \in 0..session
    /\ calls \in [Caller -> Call]
    /\ lock \in Caller \cup {None}
    /\ asked \in Seq(Account) /\ ended \in Seq(Account)
    /\ target \in Account \cup {None} /\ sends \in 0..MaxSends

Init ==
    /\ session = 1 /\ up = TRUE /\ known = None /\ knownIn = 0
    /\ calls = [c \in Caller |-> Call0] /\ lock = None
    /\ asked = <<>> /\ ended = <<>> /\ target = Home /\ sends = 0 /\ late = FALSE

Goes(c, where) == calls' = [calls EXCEPT ![c].at = where]

-----------------------------------------------------------------------------
(* A reading *)

Read(c, account) ==
    /\ calls[c].at \in {"idle", "done", "failed"} /\ up /\ sends < MaxSends
    /\ calls' = [calls EXCEPT ![c] = [Call0 EXCEPT !.at = "queued", !.account = account]]
    /\ UNCHANGED <<session, up, client, lock, line>>

\* connected_since: no session while down.
Now == IF up THEN session ELSE 0

\* _streaming_account: a new session streams the home account again.
Streaming == IF knownIn = Now THEN known ELSE Home

\* _subscribe_account_updates: until IBKR confirms, the account is unknown.
Send(account) ==
    /\ asked' = Append(asked, account) /\ target' = account /\ sends' = sends + 1
    /\ known' = None /\ knownIn' = Now /\ UNCHANGED <<ended, late>>

\* With the lock: the stream's cache (also while the session is down), or a
\* switch, which a session that is down refuses.
FromCache(c) ==
    /\ calls[c].at = "queued" /\ lock = None /\ Streaming = calls[c].account
    /\ calls' = [calls EXCEPT ![c].at = "done", ![c].got = "cache"]
    /\ known' = Streaming /\ knownIn' = Now
    /\ UNCHANGED <<session, up, lock, line>>

Switch(c) ==
    /\ calls[c].at = "queued" /\ lock = None /\ up /\ Streaming # calls[c].account
    /\ sends < MaxSends
    /\ lock' = c /\ calls' = [calls EXCEPT ![c].at = "switching", ![c].spoilt = late]
    /\ Send(calls[c].account)
    /\ UNCHANGED <<session, up>>

NotUp(c) ==
    /\ calls[c].at = "queued" /\ lock = None /\ ~up /\ Streaming # calls[c].account
    /\ known' = None /\ knownIn' = Now
    /\ Goes(c, "failed") /\ UNCHANGED <<session, up, lock, line>>

\* The items are complete: back to the home account, if there is another one.
SwitchBack(c) ==
    /\ calls[c].at = "switched" /\ Home \notin {None, calls[c].account} /\ up /\ sends < MaxSends
    /\ Goes(c, "back") /\ Send(Home) /\ UNCHANGED <<session, up, lock>>

Stays(c) ==
    /\ calls[c].at = "switched" /\ Home \in {None, calls[c].account}
    /\ known' = calls[c].account
    /\ Goes(c, "done") /\ lock' = None /\ UNCHANGED <<session, up, knownIn, line>>

CannotSwitchBack(c) ==
    /\ calls[c].at = "switched" /\ Home \notin {None, calls[c].account} /\ ~up
    /\ known' = None
    /\ Goes(c, "done") /\ lock' = None /\ UNCHANGED <<session, up, knownIn, line>>

\* A wait ends without its answer: the reading fails, or keeps what it has.
GiveUp(c) ==
    /\ \/ calls[c].at = "switching" /\ Goes(c, "failed")
       \/ calls[c].at = "back" /\ Goes(c, "done")
    /\ lock' = None /\ late' = TRUE
    /\ UNCHANGED <<session, up, client, asked, ended, target, sends>>

-----------------------------------------------------------------------------
(* IBKR and the session *)

Download ==
    /\ up /\ asked # <<>>
    /\ asked' = Tail(asked) /\ ended' = Append(ended, Head(asked))
    /\ UNCHANGED <<session, up, client, calls, lock, target, sends, late>>

\* accountDownloadEnd: the waiting request ends, with the items of its account.
End ==
    /\ up /\ ended # <<>> /\ ended' = Tail(ended)
    /\ LET waiting == {c \in Caller : calls[c].at \in {"switching", "back"}}
       IN IF waiting = {} THEN UNCHANGED <<calls, known, lock>>
          ELSE \E c \in waiting :
               IF calls[c].at = "switching"
               THEN /\ calls' = [calls EXCEPT ![c].at = "switched", ![c].got = Head(ended)]
                    /\ UNCHANGED <<known, lock>>
               ELSE Goes(c, "done") /\ known' = Home /\ lock' = None
    /\ UNCHANGED <<session, up, knownIn, asked, target, sends, late>>

Drop ==
    /\ up /\ up' = FALSE
    /\ asked' = <<>> /\ ended' = <<>> /\ late' = FALSE
    /\ calls' = [c \in Caller |->
                   IF calls[c].at = "switching" THEN [calls[c] EXCEPT !.at = "failed"]
                   ELSE IF calls[c].at = "back" THEN [calls[c] EXCEPT !.at = "done"]
                   ELSE calls[c]]
    /\ lock' = IF lock # None /\ calls[lock].at = "switched" THEN lock ELSE None
    /\ UNCHANGED <<session, client, target, sends>>

Connect ==
    /\ ~up /\ session < MaxSessions
    /\ up' = TRUE /\ session' = session + 1 /\ target' = Home
    /\ UNCHANGED <<client, calls, lock, asked, ended, sends, late>>

Next ==
    \/ \E c \in Caller :
       \/ \E account \in Account : Read(c, account)
       \/ FromCache(c) \/ Switch(c) \/ NotUp(c)
       \/ SwitchBack(c) \/ Stays(c) \/ CannotSwitchBack(c) \/ GiveUp(c)
    \/ Download \/ End \/ Drop \/ Connect

Spec == Init /\ [][Next]_uvars

-----------------------------------------------------------------------------
(* Properties *)

\* The account whose portfolio is read from the stream's cache is the one IBKR
\* was last told to stream in this session, whatever timed out or dropped in
\* between (_portfolio_items, _streaming_account).
CacheIsStreamed == up /\ Streaming # None => target = Streaming

\* A switched reading gets the items of its own account, unless it began after a
\* download of its session was given up: whose end may still come, and be taken
\* for its own.  (The model does not tell when it has come.)
ItemsAreOwn ==
    \A c \in Caller : calls[c].at = "done" /\ calls[c].got # "cache" /\ ~calls[c].spoilt =>
                          calls[c].got = calls[c].account

\* The lock is held exactly while a reading uses the stream.
LockHeld == \A c \in Caller : calls[c].at \in {"switching", "switched", "back"} <=> lock = c

\* The last switch of the session is that of the reading that holds the lock.
TargetFits ==
    \A c \in Caller :
       /\ calls[c].at \in {"switching", "back"} => up /\ knownIn = session
       /\ calls[c].at = "back" => target = Home /\ Home # None
       /\ calls[c].at \in {"queued", "switching", "switched"} => calls[c].account # None
       /\ calls[c].at \in {"switching", "switched"} =>
             (up /\ knownIn = session => target = calls[c].account)

\* Unless a download was given up, only what the reading with the lock waits for is on
\* the line.
LineFits ==
    ~late => /\ Len(asked) + Len(ended) <= 1
             /\ asked # <<>> \/ ended # <<>> =>
                   lock # None /\ calls[lock].at \in {"switching", "back"}
             /\ lock # None /\ calls[lock].at = "switching" =>
                   /\ \A i \in DOMAIN asked : asked[i] = calls[lock].account
                   /\ \A i \in DOMAIN ended : ended[i] = calls[lock].account

\* What a reading has got is of its account, from the switch on.
GotFits ==
    \A c \in Caller :
       /\ calls[c].at = "switching" /\ ~calls[c].spoilt => ~late
       /\ calls[c].at \in {"switched", "back"} /\ ~calls[c].spoilt =>
             calls[c].got = calls[c].account

IInv ==
    TypeOK /\ CacheIsStreamed /\ ItemsAreOwn /\ LockHeld /\ TargetFits /\ LineFits /\ GotFits
=============================================================================
