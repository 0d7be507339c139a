--------------------------- MODULE ConnectionProofs ---------------------------
(***************************************************************************)
(* The manager's state is that of its socket, and trading is enabled only  *)
(* for accounts of the present login, for every set of accounts and every  *)
(* configuration.  The argument follows the supervisor: a session that is  *)
(* up is one it waits on (Where), an outage is dated when a session ends   *)
(* (Dating), the probe belongs to a session that is up (Probing), and the  *)
(* scope is refreshed before a session is set up, while the login of an    *)
(* open socket does not change (Scope).                                    *)
(***************************************************************************)
EXTENDS Connection, FiniteSetTheorems, TLAPS

\* Where the supervisor is while the socket, and the state, are what they are.
Where ==
    /\ stopping => sup \in {"none", "cancelled"}
    /\ sup = "cancelled" => stopping
    /\ state \in Up => sup \in {"waiting", "cancelled"}
    /\ sock = "opening" => sup \in {"connecting", "cancelled"} /\ state \notin Up
    /\ sup \in {"none", "ready", "sleeping"} => sock = "down"
    /\ sup \in {"syncing", "fetching"} => sock = "up" \/ dropped
    /\ dropped => sock = "down"

\* An outage is dated from the end of its session, or from the start.
Dating ==
    /\ connects => state \in Up \/ dated = "latest"
    /\ ~connects => state \notin Up /\ dated \in {"never", "start"}
    /\ ~connects /\ sup = "sleeping" => dated = "start"
    /\ ~connects /\ sup = "waiting" => dated = "start"

\* A probe is of the session that is up, or failed with it.
Probing ==
    /\ probe = "asked" => state \in Up /\ sock = "up" /\ ~stopping
    /\ probe = "orphaned" => sock = "down"

\* A session that is up, or being set up, trades for the login it has.
Scope ==
    sock = "up" /\ (state \in Up \/ sup \in {"syncing", "fetching"}) =>
        managed = login /\ (trading => MayTrade(login))

\* TypeOK in two halves: what is true or false, and the rest.
Flags ==
    /\ hung \in BOOLEAN
    /\ connected \in BOOLEAN /\ dropped \in BOOLEAN /\ stopping \in BOOLEAN
    /\ trading \in BOOLEAN /\ readOnlyApi \in BOOLEAN /\ connects \in BOOLEAN
    /\ forced \in BOOLEAN /\ resub \in BOOLEAN

Values ==
    /\ config \in Configs
    /\ sock \in {"down", "opening", "up"}
    /\ login \subseteq Account /\ managed \subseteq Account
    /\ sup \in {"none", "ready", "connecting", "syncing", "fetching", "waiting",
                "sleeping", "cancelled"}
    /\ state \in {"not_connected", "connecting", "not_accepting"} \cup Up
    /\ link \in {0, 1100, 2110}
    /\ timer \in {"off", "idle", "degraded"}
    /\ probe \in {"none", "asked", "orphaned"}
    /\ dated \in {"never", "start", "latest", "earlier"}

Inductive ==
    /\ Flags /\ Values /\ StateIsTheSockets /\ LinkIsShown /\ SilenceIsWatched
    /\ Where /\ Dating /\ Probing /\ Scope

\* Trading is a yes or a no.
LEMMA MayTradeType == \A accounts : MayTrade(accounts) \in BOOLEAN
  BY DEF MayTrade

\* A decision about trading stands as long as its settings and login do.
LEMMA TradeKept ==
    ASSUME UNCHANGED <<config, login>>
    PROVE  MayTrade(login)' <=> MayTrade(login)
  BY DEF MayTrade

\* start: a supervisor comes into being, and nothing is up yet.
LEMMA StartKeeps ==
    ASSUME Inductive, Start
    PROVE  Inductive'
  <1>1. Flags'
    BY Zenon DEF Inductive, Flags, Start, env, trade, idle
  <1>2. Values'
    BY DEF Inductive, Values, Start, Up, env, trade, idle
  <1>3. (StateIsTheSockets /\ LinkIsShown /\ SilenceIsWatched /\ Where /\ Dating /\ Probing)'
    BY DEF Inductive, Values, StateIsTheSockets, LinkIsShown, SilenceIsWatched, Where,
       Dating, Probing, Start, Up, env, trade, idle
  <1>4. Scope'
    BY TradeKept DEF Inductive, Scope, Where, StateIsTheSockets, Start, Up, env, trade,
       idle
  <1> QED BY <1>1, <1>2, <1>3, <1>4 DEF Inductive

\* _connect_once: an attempt begins where no session is.
LEMMA BeginAttemptKeeps ==
    ASSUME Inductive, BeginAttempt
    PROVE  Inductive'
  <1>1. Flags'
    BY Zenon DEF Inductive, Flags, BeginAttempt, env, trade, idle
  <1>2. Values'
    BY DEF Inductive, Values, BeginAttempt, Up, env, trade, idle
  <1>3. (StateIsTheSockets /\ LinkIsShown /\ SilenceIsWatched /\ Where /\ Dating /\ Probing)'
    BY DEF Inductive, Values, StateIsTheSockets, LinkIsShown, SilenceIsWatched, Where,
       Dating, Probing, BeginAttempt, Up, env, trade, idle
  <1>4. Scope'
    BY TradeKept DEF Inductive, Scope, Where, StateIsTheSockets, BeginAttempt, Up, env,
       trade, idle
  <1> QED BY <1>1, <1>2, <1>3, <1>4 DEF Inductive

\* connectAsync: the login changes only while nothing is set up.
LEMMA ApiReadyKeeps ==
    ASSUME Inductive, NEW accounts \in SUBSET Account, ApiReady(accounts)
    PROVE  Inductive'
  <1>1. Flags'
    BY Zenon DEF Inductive, Flags, ApiReady, env, trade, idle
  <1>2. Values'
    BY DEF Inductive, Values, ApiReady, Up, env, trade, idle
  <1>3. (StateIsTheSockets /\ LinkIsShown /\ SilenceIsWatched /\ Where /\ Dating /\ Probing)'
    BY DEF Inductive, Values, StateIsTheSockets, LinkIsShown, SilenceIsWatched, Where,
       Dating, Probing, ApiReady, Up, env, trade, idle
  <1>4. Scope'
    BY TradeKept DEF Inductive, Scope, Where, StateIsTheSockets, ApiReady, Up, env, trade,
       idle
  <1> QED BY <1>1, <1>2, <1>3, <1>4 DEF Inductive

\* A connect that fails dates an outage, if none is dated.
LEMMA ConnectFailsKeeps ==
    ASSUME Inductive, NEW s \in {"not_accepting", "not_connected"}, ConnectFails(s)
    PROVE  Inductive'
  <1>1. Flags'
    BY Zenon DEF Inductive, Flags, ConnectFails, MarkDown, env, trade, idle
  <1>2. Values'
    BY DEF Inductive, Values, ConnectFails, MarkDown, Up, env, trade, idle
  <1>3. (StateIsTheSockets /\ LinkIsShown /\ SilenceIsWatched /\ Where /\ Dating /\ Probing)'
    BY DEF Inductive, Values, StateIsTheSockets, LinkIsShown, SilenceIsWatched, Where,
       Dating, Probing, ConnectFails, MarkDown, Up, env, trade, idle
  <1>4. Scope'
    BY TradeKept DEF Inductive, Scope, Where, StateIsTheSockets, ConnectFails, MarkDown,
       Up, env, trade, idle
  <1> QED BY <1>1, <1>2, <1>3, <1>4 DEF Inductive

\* _on_connected: the scope is refreshed before trading is decided.
LEMMA SetUpKeeps ==
    ASSUME Inductive, SetUp
    PROVE  Inductive'
  <1>1. Flags'
    BY Zenon, MayTradeType DEF Inductive, Flags, SetUp, NextSetUpStep, Established, env,
       trade, idle
  <1>2. Values'
    BY DEF Inductive, Values, SetUp, NextSetUpStep, Established, Up, env, trade, idle
  <1>3. (StateIsTheSockets /\ LinkIsShown /\ SilenceIsWatched /\ Where /\ Dating /\ Probing)'
    BY DEF Inductive, Values, StateIsTheSockets, LinkIsShown, SilenceIsWatched, Where,
       Dating, Probing, SetUp, NextSetUpStep, Established, Up, env, trade, idle
  <1>4. Scope'
    BY TradeKept DEF Inductive, Scope, Where, StateIsTheSockets, SetUp, NextSetUpStep,
       Established, Up, env, trade, idle
  <1> QED BY <1>1, <1>2, <1>3, <1>4 DEF Inductive

\* A connect that ends on a dropped session sets nothing up.
LEMMA SetUpTooLateKeeps ==
    ASSUME Inductive, SetUpTooLate
    PROVE  Inductive'
  <1>1. Flags'
    BY Zenon DEF Inductive, Flags, SetUpTooLate, DroppedMeanwhile, MarkDown, env, trade,
       idle
  <1>2. Values'
    BY DEF Inductive, Values, SetUpTooLate, DroppedMeanwhile, MarkDown, Up, env, trade,
       idle
  <1>3. (StateIsTheSockets /\ LinkIsShown /\ SilenceIsWatched /\ Where /\ Dating /\ Probing)'
    BY DEF Inductive, Values, StateIsTheSockets, LinkIsShown, SilenceIsWatched, Where,
       Dating, Probing, SetUpTooLate, DroppedMeanwhile, MarkDown, Up, env, trade, idle
  <1>4. Scope'
    BY TradeKept DEF Inductive, Scope, Where, StateIsTheSockets, SetUpTooLate,
       DroppedMeanwhile, MarkDown, Up, env, trade, idle
  <1> QED BY <1>1, <1>2, <1>3, <1>4 DEF Inductive

\* A set-up that raises closes the session.
LEMMA SetUpFailsKeeps ==
    ASSUME Inductive, SetUpFails
    PROVE  Inductive'
  <1>1. Flags'
    BY Zenon DEF Inductive, Flags, SetUpFails, SocketGone, MarkDown, env, trade, idle
  <1>2. Values'
    BY DEF Inductive, Values, SetUpFails, SocketGone, MarkDown, Up, env, trade, idle
  <1>3. (StateIsTheSockets /\ LinkIsShown /\ SilenceIsWatched /\ Where /\ Dating /\ Probing)'
    BY DEF Inductive, Values, StateIsTheSockets, LinkIsShown, SilenceIsWatched, Where,
       Dating, Probing, SetUpFails, SocketGone, MarkDown, Up, env, trade, idle
  <1>4. Scope'
    BY TradeKept DEF Inductive, Scope, Where, StateIsTheSockets, SetUpFails, SocketGone,
       MarkDown, Up, env, trade, idle
  <1> QED BY <1>1, <1>2, <1>3, <1>4 DEF Inductive

\* A set-up that was dropped meanwhile gives up, another one goes on.
LEMMA SetUpResumesKeeps ==
    ASSUME Inductive, SetUpResumes
    PROVE  Inductive'
  <1>1. Flags'
    BY Zenon DEF Inductive, Flags, SetUpResumes, DroppedMeanwhile, MarkDown, NextSetUpStep,
       Established, env, trade, idle
  <1>2. Values'
    BY DEF Inductive, Values, SetUpResumes, DroppedMeanwhile, MarkDown, NextSetUpStep,
       Established, Up, env, trade, idle
  <1>3. (StateIsTheSockets /\ LinkIsShown /\ SilenceIsWatched /\ Where /\ Dating /\ Probing)'
    BY DEF Inductive, Values, StateIsTheSockets, LinkIsShown, SilenceIsWatched, Where,
       Dating, Probing, SetUpResumes, DroppedMeanwhile, MarkDown, NextSetUpStep,
       Established, Up, env, trade, idle
  <1>4. Scope'
    BY TradeKept DEF Inductive, Scope, Where, StateIsTheSockets, SetUpResumes,
       DroppedMeanwhile, MarkDown, NextSetUpStep, Established, Up, env, trade, idle
  <1> QED BY <1>1, <1>2, <1>3, <1>4 DEF Inductive

\* The supervisor finds the drop it waited for.
LEMMA DropSeenKeeps ==
    ASSUME Inductive, DropSeen
    PROVE  Inductive'
  <1>1. Flags'
    BY Zenon DEF Inductive, Flags, DropSeen, env, trade, idle
  <1>2. Values'
    BY DEF Inductive, Values, DropSeen, Up, env, trade, idle
  <1>3. (StateIsTheSockets /\ LinkIsShown /\ SilenceIsWatched /\ Where /\ Dating /\ Probing)'
    BY DEF Inductive, Values, StateIsTheSockets, LinkIsShown, SilenceIsWatched, Where,
       Dating, Probing, DropSeen, Up, env, trade, idle
  <1>4. Scope'
    BY TradeKept DEF Inductive, Scope, Where, StateIsTheSockets, DropSeen, Up, env, trade,
       idle
  <1> QED BY <1>1, <1>2, <1>3, <1>4 DEF Inductive

\* stop ends the probe with the supervisor.
LEMMA StopBeginsKeeps ==
    ASSUME Inductive, StopBegins
    PROVE  Inductive'
  <1>1. Flags'
    BY Zenon DEF Inductive, Flags, StopBegins, env, trade, idle
  <1>2. Values'
    BY DEF Inductive, Values, StopBegins, Up, env, trade, idle
  <1>3. (StateIsTheSockets /\ LinkIsShown /\ SilenceIsWatched /\ Where /\ Dating /\ Probing)'
    BY DEF Inductive, Values, StateIsTheSockets, LinkIsShown, SilenceIsWatched, Where,
       Dating, Probing, StopBegins, Up, env, trade, idle
  <1>4. Scope'
    BY TradeKept DEF Inductive, Scope, Where, StateIsTheSockets, StopBegins, Up, env,
       trade, idle
  <1> QED BY <1>1, <1>2, <1>3, <1>4 DEF Inductive

\* stop disconnects, whatever there is.
LEMMA StopEndsKeeps ==
    ASSUME Inductive, StopEnds
    PROVE  Inductive'
  <1>1. Flags'
    BY Zenon DEF Inductive, Flags, StopEnds, SocketGone, MarkDown, env, trade, idle
  <1>2. Values'
    BY DEF Inductive, Values, StopEnds, SocketGone, MarkDown, Up, env, trade, idle
  <1>3. (StateIsTheSockets /\ LinkIsShown /\ SilenceIsWatched /\ Where /\ Dating /\ Probing)'
    BY DEF Inductive, Values, StateIsTheSockets, LinkIsShown, SilenceIsWatched, Where,
       Dating, Probing, StopEnds, SocketGone, MarkDown, Up, env, trade, idle
  <1>4. Scope'
    BY TradeKept DEF Inductive, Scope, Where, StateIsTheSockets, StopEnds, SocketGone,
       MarkDown, Up, env, trade, idle
  <1> QED BY <1>1, <1>2, <1>3, <1>4 DEF Inductive

\* _on_disconnected: a session that was up is marked down.
LEMMA DropKeeps ==
    ASSUME Inductive, Drop
    PROVE  Inductive'
  <1>1. Flags'
    BY Zenon DEF Inductive, Flags, Drop, SocketGone, MarkDown, env, trade, idle
  <1>2. Values'
    BY DEF Inductive, Values, Drop, SocketGone, MarkDown, Up, env, trade, idle
  <1>3. (StateIsTheSockets /\ LinkIsShown /\ SilenceIsWatched /\ Where /\ Dating /\ Probing)'
    BY DEF Inductive, Values, StateIsTheSockets, LinkIsShown, SilenceIsWatched, Where,
       Dating, Probing, Drop, SocketGone, MarkDown, Up, env, trade, idle
  <1>4. Scope'
    BY TradeKept DEF Inductive, Scope, Where, StateIsTheSockets, Drop, SocketGone,
       MarkDown, Up, env, trade, idle
  <1> QED BY <1>1, <1>2, <1>3, <1>4 DEF Inductive

\* _on_error 1100, 2110: shown at once on a session that is up, later on one set up.
LEMMA LinkLostKeeps ==
    ASSUME Inductive, NEW code \in {1100, 2110}, LinkLost(code)
    PROVE  Inductive'
  <1>1. Flags'
    BY DEF Inductive, Flags, LinkLost, IsConnected, env, trade, idle
  <1>2. Values'
    BY DEF Inductive, Values, LinkLost, IsConnected, Up, env, trade, idle
  <1>3. (StateIsTheSockets /\ LinkIsShown /\ SilenceIsWatched /\ Where /\ Dating /\ Probing)'
    BY DEF Inductive, Values, StateIsTheSockets, LinkIsShown, SilenceIsWatched, Where,
       Dating, Probing, LinkLost, IsConnected, Up, env, trade, idle
  <1>4. Scope'
    BY TradeKept DEF Inductive, Scope, Where, StateIsTheSockets, LinkLost, IsConnected, Up,
       env, trade, idle
  <1> QED BY <1>1, <1>2, <1>3, <1>4 DEF Inductive

\* _on_error 1101, 1102, 2104: the link is back, and shown so.
LEMMA LinkBackKeeps ==
    ASSUME Inductive, NEW code \in {1101, 1102, 2104}, LinkBack(code)
    PROVE  Inductive'
  <1>1. Flags'
    BY DEF Inductive, Flags, LinkBack, env, trade, idle
  <1>2. Values'
    BY DEF Inductive, Values, LinkBack, Up, env, trade, idle
  <1>3. (StateIsTheSockets /\ LinkIsShown /\ SilenceIsWatched /\ Where /\ Dating /\ Probing)'
    BY DEF Inductive, Values, StateIsTheSockets, LinkIsShown, SilenceIsWatched, Where,
       Dating, Probing, LinkBack, Up, env, trade, idle
  <1>4. Scope'
    BY TradeKept DEF Inductive, Scope, Where, StateIsTheSockets, LinkBack, Up, env, trade,
       idle
  <1> QED BY <1>1, <1>2, <1>3, <1>4 DEF Inductive

\* _on_error 321 touches nothing but the flag.
LEMMA ReadOnlyCodeKeeps ==
    ASSUME Inductive, ReadOnlyCode
    PROVE  Inductive'
  <1>1. Flags'
    BY Zenon DEF Inductive, Flags, ReadOnlyCode, env, trade, idle
  <1>2. Values'
    BY DEF Inductive, Values, ReadOnlyCode, Up, env, trade, idle
  <1>3. (StateIsTheSockets /\ LinkIsShown /\ SilenceIsWatched /\ Where /\ Dating /\ Probing)'
    BY DEF Inductive, Values, StateIsTheSockets, LinkIsShown, SilenceIsWatched, Where,
       Dating, Probing, ReadOnlyCode, Up, env, trade, idle
  <1>4. Scope'
    BY TradeKept DEF Inductive, Scope, Where, StateIsTheSockets, ReadOnlyCode, Up, env,
       trade, idle
  <1> QED BY <1>1, <1>2, <1>3, <1>4 DEF Inductive

\* _on_error 502, 504: an open session is left to the scheduled reconnect.
LEMMA NotConnectedCodeKeeps ==
    ASSUME Inductive, NotConnectedCode
    PROVE  Inductive'
  <1>1. Flags'
    BY Zenon DEF Inductive, Flags, NotConnectedCode, MarkDown, env, trade, idle
  <1>2. Values'
    BY DEF Inductive, Values, NotConnectedCode, MarkDown, Up, env, trade, idle
  <1>3. (StateIsTheSockets /\ LinkIsShown /\ SilenceIsWatched /\ Where /\ Dating /\ Probing)'
    BY DEF Inductive, Values, StateIsTheSockets, LinkIsShown, SilenceIsWatched, Where,
       Dating, Probing, NotConnectedCode, MarkDown, Up, env, trade, idle
  <1>4. Scope'
    BY TradeKept DEF Inductive, Scope, Where, StateIsTheSockets, NotConnectedCode,
       MarkDown, Up, env, trade, idle
  <1> QED BY <1>1, <1>2, <1>3, <1>4 DEF Inductive

\* _force_reconnect closes what is up.
LEMMA ForcedRunsKeeps ==
    ASSUME Inductive, ForcedRuns
    PROVE  Inductive'
  <1>1. Flags'
    BY Zenon DEF Inductive, Flags, ForcedRuns, ForceReconnect, SocketGone, MarkDown, env,
       trade, idle
  <1>2. Values'
    BY DEF Inductive, Values, ForcedRuns, ForceReconnect, SocketGone, MarkDown, Up, env,
       trade, idle
  <1>3. (StateIsTheSockets /\ LinkIsShown /\ SilenceIsWatched /\ Where /\ Dating /\ Probing)'
    BY DEF Inductive, Values, StateIsTheSockets, LinkIsShown, SilenceIsWatched, Where,
       Dating, Probing, ForcedRuns, ForceReconnect, SocketGone, MarkDown, Up, env, trade,
       idle
  <1>4. Scope'
    BY TradeKept DEF Inductive, Scope, Where, StateIsTheSockets, ForcedRuns,
       ForceReconnect, SocketGone, MarkDown, Up, env, trade, idle
  <1> QED BY <1>1, <1>2, <1>3, <1>4 DEF Inductive

\* A resubscribe task touches nothing here.
LEMMA ResubscribeRunsKeeps ==
    ASSUME Inductive, ResubscribeRuns
    PROVE  Inductive'
  <1>1. Flags'
    BY Zenon DEF Inductive, Flags, ResubscribeRuns, env, trade, idle
  <1>2. Values'
    BY DEF Inductive, Values, ResubscribeRuns, Up, env, trade, idle
  <1>3. (StateIsTheSockets /\ LinkIsShown /\ SilenceIsWatched /\ Where /\ Dating /\ Probing)'
    BY DEF Inductive, Values, StateIsTheSockets, LinkIsShown, SilenceIsWatched, Where,
       Dating, Probing, ResubscribeRuns, Up, env, trade, idle
  <1>4. Scope'
    BY TradeKept DEF Inductive, Scope, Where, StateIsTheSockets, ResubscribeRuns, Up, env,
       trade, idle
  <1> QED BY <1>1, <1>2, <1>3, <1>4 DEF Inductive

\* Silence is the gateway's alone.
LEMMA HangsKeeps ==
    ASSUME Inductive, Hangs
    PROVE  Inductive'
  <1>1. Flags'
    BY Zenon DEF Inductive, Flags, Hangs, env, trade, idle
  <1>2. Values'
    BY DEF Inductive, Values, Hangs, Up, env, trade, idle
  <1>3. (StateIsTheSockets /\ LinkIsShown /\ SilenceIsWatched /\ Where /\ Dating /\ Probing)'
    BY DEF Inductive, Values, StateIsTheSockets, LinkIsShown, SilenceIsWatched, Where,
       Dating, Probing, Hangs, Up, env, trade, idle
  <1>4. Scope'
    BY TradeKept DEF Inductive, Scope, Where, StateIsTheSockets, Hangs, Up, env, trade,
       idle
  <1> QED BY <1>1, <1>2, <1>3, <1>4 DEF Inductive

\* _on_idle: the timer is off exactly when the probe is asked.
LEMMA OnIdleKeeps ==
    ASSUME Inductive, OnIdle
    PROVE  Inductive'
  <1>1. Flags'
    BY Zenon DEF Inductive, Flags, OnIdle, env, trade, idle
  <1>2. Values'
    BY DEF Inductive, Values, OnIdle, Up, env, trade, idle
  <1>3. (StateIsTheSockets /\ LinkIsShown /\ SilenceIsWatched /\ Where /\ Dating /\ Probing)'
    BY DEF Inductive, Values, StateIsTheSockets, LinkIsShown, SilenceIsWatched, Where,
       Dating, Probing, OnIdle, Up, env, trade, idle
  <1>4. Scope'
    BY TradeKept DEF Inductive, Scope, Where, StateIsTheSockets, OnIdle, Up, env, trade,
       idle
  <1> QED BY <1>1, <1>2, <1>3, <1>4 DEF Inductive

\* An answered probe arms the timer again.
LEMMA ProbeAnsweredKeeps ==
    ASSUME Inductive, ProbeAnswered
    PROVE  Inductive'
  <1>1. Flags'
    BY Zenon DEF Inductive, Flags, ProbeAnswered, env, trade, idle
  <1>2. Values'
    BY DEF Inductive, Values, ProbeAnswered, Up, env, trade, idle
  <1>3. (StateIsTheSockets /\ LinkIsShown /\ SilenceIsWatched /\ Where /\ Dating /\ Probing)'
    BY DEF Inductive, Values, StateIsTheSockets, LinkIsShown, SilenceIsWatched, Where,
       Dating, Probing, ProbeAnswered, Up, env, trade, idle
  <1>4. Scope'
    BY TradeKept DEF Inductive, Scope, Where, StateIsTheSockets, ProbeAnswered, Up, env,
       trade, idle
  <1> QED BY <1>1, <1>2, <1>3, <1>4 DEF Inductive

\* An unanswered probe closes the session it was asked on.
LEMMA ProbeTimesOutKeeps ==
    ASSUME Inductive, ProbeTimesOut
    PROVE  Inductive'
  <1>1. Flags'
    BY Zenon DEF Inductive, Flags, ProbeTimesOut, MarkDown, env, trade, idle
  <1>2. Values'
    BY DEF Inductive, Values, ProbeTimesOut, MarkDown, Up, env, trade, idle
  <1>3. (StateIsTheSockets /\ LinkIsShown /\ SilenceIsWatched /\ Where /\ Dating /\ Probing)'
    BY DEF Inductive, Values, StateIsTheSockets, LinkIsShown, SilenceIsWatched, Where,
       Dating, Probing, ProbeTimesOut, MarkDown, Up, env, trade, idle
  <1>4. Scope'
    BY TradeKept DEF Inductive, Scope, Where, StateIsTheSockets, ProbeTimesOut, MarkDown,
       Up, env, trade, idle
  <1> QED BY <1>1, <1>2, <1>3, <1>4 DEF Inductive

\* A probe that a drop orphaned ends.
LEMMA ProbeFailsKeeps ==
    ASSUME Inductive, ProbeFails
    PROVE  Inductive'
  <1>1. Flags'
    BY Zenon DEF Inductive, Flags, ProbeFails, env, trade, idle
  <1>2. Values'
    BY DEF Inductive, Values, ProbeFails, Up, env, trade, idle
  <1>3. (StateIsTheSockets /\ LinkIsShown /\ SilenceIsWatched /\ Where /\ Dating /\ Probing)'
    BY DEF Inductive, Values, StateIsTheSockets, LinkIsShown, SilenceIsWatched, Where,
       Dating, Probing, ProbeFails, Up, env, trade, idle
  <1>4. Scope'
    BY TradeKept DEF Inductive, Scope, Where, StateIsTheSockets, ProbeFails, Up, env,
       trade, idle
  <1> QED BY <1>1, <1>2, <1>3, <1>4 DEF Inductive


\* A manager that was never started.
LEMMA StartsRight == Init => Inductive
  <1> SUFFICES ASSUME Init PROVE Inductive
    OBVIOUS
  <1>1. Flags
    BY Zenon DEF Init, Flags
  <1>2. Values
    BY DEF Init, Values
  <1>3. StateIsTheSockets /\ LinkIsShown /\ SilenceIsWatched /\ Where /\ Dating /\ Probing /\ Scope
    BY DEF Init, StateIsTheSockets, LinkIsShown, SilenceIsWatched, Where, Dating, Probing, Scope, Up
  <1> QED BY <1>1, <1>2, <1>3 DEF Inductive

\* Every step keeps what the argument needs.
LEMMA AlwaysInductive == Spec => []Inductive
  <1>1. Inductive /\ [Next]_vars => Inductive'
    <2> SUFFICES ASSUME Inductive, [Next]_vars PROVE Inductive'
      OBVIOUS
    <2>1. CASE Supervisor
      BY <2>1, BeginAttemptKeeps, ApiReadyKeeps, ConnectFailsKeeps, SetUpKeeps, SetUpTooLateKeeps,
         SetUpFailsKeeps, SetUpResumesKeeps, DropSeenKeeps DEF Supervisor
    <2>2. CASE Start \/ StopBegins \/ StopEnds \/ Drop
      BY <2>2, StartKeeps, StopBeginsKeeps, StopEndsKeeps, DropKeeps
    <2>3. CASE \E code \in {1100, 2110} : LinkLost(code)
      BY <2>3, LinkLostKeeps
    <2>4. CASE \E code \in {1101, 1102, 2104} : LinkBack(code)
      BY <2>4, LinkBackKeeps
    <2>5. CASE ReadOnlyCode \/ NotConnectedCode \/ ForcedRuns \/ ResubscribeRuns \/ Hangs
      BY <2>5, ReadOnlyCodeKeeps, NotConnectedCodeKeeps, ForcedRunsKeeps, ResubscribeRunsKeeps,
         HangsKeeps
    <2>6. CASE OnIdle \/ ProbeAnswered \/ ProbeTimesOut \/ ProbeFails
      BY <2>6, OnIdleKeeps, ProbeAnsweredKeeps, ProbeTimesOutKeeps, ProbeFailsKeeps
    <2>7. CASE UNCHANGED vars
      BY <2>7, TradeKept DEF vars, env, trade, idle, Inductive, Flags, Values, StateIsTheSockets,
         LinkIsShown, SilenceIsWatched, Where, Dating, Probing, Scope, Up
    <2> QED BY <2>1, <2>2, <2>3, <2>4, <2>5, <2>6, <2>7 DEF Next
  <1> QED BY StartsRight, <1>1, PTL DEF Spec

\* Between any two steps the manager's state is that of its socket, the link's
\* state is shown, outages are dated and silence is watched (connection.py), also
\* when a session drops, or notices come, while it is being set up.
THEOREM ManagerInvariant == Spec => []IInv
  <1>1. Inductive => IInv
    <2> SUFFICES ASSUME Inductive PROVE IInv
      OBVIOUS
    <2>1. TypeOK
      BY DEF Inductive, Flags, Values, TypeOK
    <2>2. OutageIsDated
      BY DEF Inductive, Where, Dating, OutageIsDated
    <2> QED BY <2>1, <2>2 DEF Inductive, IInv
  <1> QED BY AlwaysInductive, <1>1, PTL

-----------------------------------------------------------------------------
(* The scope *)

\* An account that a call resolves to is allowed, and managed by the login
\* (AccountScope.resolve); the default too.
LEMMA ResolvedIsAllowed ==
    ASSUME NEW s, NEW accounts \in SUBSET Account, NEW asked,
           Resolve(s, accounts, asked) # NoAccount
    PROVE  /\ Resolve(s, accounts, asked) \in Allowed(s, accounts)
           /\ Resolve(s, accounts, asked) \in accounts
  <1>1. DefaultAccount(s, accounts) # NoAccount => DefaultAccount(s, accounts) \in accounts
    <2>1. Cardinality(accounts) = 1 => accounts # {}
      BY FS_EmptySet
    <2>2. Cardinality(accounts) = 1 => (CHOOSE a \in accounts : TRUE) \in accounts
      BY <2>1
    <2> QED BY <2>2 DEF DefaultAccount
  <1>2. Allowed(s, accounts) \subseteq accounts
    BY <1>1 DEF Allowed
  <1>3. Resolve(s, accounts, asked) \in Allowed(s, accounts)
    BY DEF Resolve, Allowed
  <1> QED BY <1>2, <1>3

\* Where trading is allowed, no account it may resolve to is live without leave
\* (AccountScope.live_accounts_in_scope, _evaluate_trading).
LEMMA TradedIsPermitted ==
    ASSUME NEW accounts \in SUBSET Account, MayTrade(accounts),
           NEW chosen \in Allowed(config, accounts)
    PROVE  config.needsWrite /\ (chosen \in Live => config.allowLive)
  <1>1. chosen \in Live => chosen \in LiveInScope(config, accounts)
    BY DEF LiveInScope
  <1> QED BY <1>1 DEF MayTrade

\* While trading is enabled, every account a write may resolve to is one the
\* present login manages, and none is live without IBKR_MCP_ALLOW_LIVE, whatever
\* logins the gateway came back under (_evaluate_trading, require_trading).
THEOREM TradingIsTheLogins == Spec => []TradingMatchesLogin
  <1>1. Inductive => TradingMatchesLogin
    <2> SUFFICES ASSUME Inductive, TradingEnabled PROVE TradingMatchesLogin
      BY DEF TradingMatchesLogin
    <2>1. managed = login /\ MayTrade(login) /\ login \in SUBSET Account
      BY DEF Inductive, Scope, Values, TradingEnabled, IsConnected
    <2>2. ASSUME NEW a, Resolve(config, managed, a) # NoAccount
          PROVE  /\ Resolve(config, managed, a) \in login
                 /\ Resolve(config, managed, a) \in Live => config.allowLive
      BY <2>1, <2>2, ResolvedIsAllowed, TradedIsPermitted
    <2>3. config.needsWrite
      BY <2>1 DEF MayTrade
    <2> QED BY <2>2, <2>3 DEF TradingMatchesLogin
  <1> QED BY AlwaysInductive, <1>1, PTL
==============================================================================
