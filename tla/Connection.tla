----------------------------- MODULE Connection -----------------------------
(***************************************************************************)
(* ConnectionManager: the supervisor that connects and reconnects, the     *)
(* events ib_async raises in between, the idle probe and stop.             *)
(*                                                                         *)
(* The supervisor is a task that suspends at its awaits (sup); every event *)
(* handler runs between two of its steps.  Hints, error texts and backoff  *)
(* lengths are left out, and so is the session number, of which only the   *)
(* change matters (Subscriptions has it).                                  *)
(*                                                                         *)
(* Which accounts the server may touch comes first: the default account    *)
(* and the allowlist of the settings, resolved against the accounts that   *)
(* the login manages.  Account names are model values; an account is paper *)
(* or live by its name (is_paper_account).                                 *)
(***************************************************************************)
EXTENDS FiniteSets

CONSTANTS Account,   \* accounts a login may manage
          Live,      \* those that trade real money
          NoAccount, \* no account given, no default
          Configs    \* settings: ScopeSettings plus needsWrite and allowLive

ASSUME ScopeAssumption == Live \subseteq Account /\ NoAccount \notin Account

ASSUME ConnectionAssumption ==
    Configs \subseteq [default : Account \cup {NoAccount}, allowlist : SUBSET Account,
                       needsWrite : BOOLEAN, allowLive : BOOLEAN]

-----------------------------------------------------------------------------
(* AccountScope *)

\* What AccountScope is built from: IB_ACCOUNT and IBKR_MCP_ACCOUNTS.
ScopeSettings == [default : Account \cup {NoAccount}, allowlist : SUBSET Account]

\* _pick_default: the configured account if the login manages it, the only
\* managed account if none is configured.
DefaultAccount(s, managed) ==
    CASE s.default # NoAccount /\ s.default \in managed -> s.default
      [] s.default = NoAccount /\ Cardinality(managed) = 1 ->
             CHOOSE a \in managed : TRUE
      [] OTHER -> NoAccount

\* _pick_allowed: the managed part of the allowlist, and the default.
Allowed(s, managed) ==
    (s.allowlist \cap managed) \cup ({DefaultAccount(s, managed)} \ {NoAccount})

\* live_accounts_in_scope: with nothing allowed every managed account counts.
LiveInScope(s, managed) ==
    (IF Allowed(s, managed) # {} THEN Allowed(s, managed) ELSE managed) \cap Live

\* resolve: the account a call acts on, NoAccount if it is refused.
Resolve(s, managed, asked) ==
    CASE asked = NoAccount -> DefaultAccount(s, managed)
      [] asked # NoAccount /\ asked \in Allowed(s, managed) -> asked
      [] OTHER -> NoAccount

\* filter: the records of the resolved account; what names no account is
\* dropped.  A record is [account |-> an account or NoAccount].
Visible(s, managed, asked, records) ==
    {r \in records : /\ Resolve(s, managed, asked) # NoAccount
                     /\ r.account = Resolve(s, managed, asked)}

-----------------------------------------------------------------------------
(* The connection *)

VARIABLES config,     \* the settings
          sock,       \* ib_async's socket: down, opening (no API session yet), up
          login,      \* accounts the gateway's present login manages
          hung,       \* the gateway is silent although its socket is open
          sup,        \* where the supervisor is
          state, connected, dropped, stopping,   \* as in the code
          link,       \* _ibkr_link_down: 0, 1100 or 2110
          managed, trading, readOnlyApi,         \* scope, _trading_allowed, 321 seen
          connects,   \* a session has been set up before (_connects > 0)
          timer,      \* ib_async's idle timer
          probe,      \* the idle probe: none, asked, or orphaned by a drop
          forced,     \* a _force_reconnect is scheduled (call_soon)
          resub,      \* a resubscribe task is scheduled
          dated       \* which outage last_disconnect_at dates

env == <<config, login, hung>>
trade == <<managed, trading, readOnlyApi>>
idle == <<timer, probe, forced, resub>>
vars == <<env, sock, sup, state, connected, dropped, stopping, link, trade,
          connects, idle, dated>>

Up == {"connected", "connectivity_lost"}

TypeOK ==
    /\ config \in Configs
    /\ sock \in {"down", "opening", "up"}
    /\ login \subseteq Account /\ managed \subseteq Account
    /\ hung \in BOOLEAN
    /\ sup \in {"none", "ready", "connecting", "syncing", "fetching", "waiting",
                "sleeping", "cancelled"}
    /\ state \in {"not_connected", "connecting", "not_accepting"} \cup Up
    /\ connected \in BOOLEAN /\ dropped \in BOOLEAN /\ stopping \in BOOLEAN
    /\ link \in {0, 1100, 2110}
    /\ trading \in BOOLEAN /\ readOnlyApi \in BOOLEAN /\ connects \in BOOLEAN
    /\ timer \in {"off", "idle", "degraded"}
    /\ probe \in {"none", "asked", "orphaned"}
    /\ forced \in BOOLEAN /\ resub \in BOOLEAN
    /\ dated \in {"never", "start", "latest", "earlier"}

Init ==
    /\ config \in Configs
    /\ sock = "down" /\ login = {} /\ hung = FALSE
    /\ sup = "none" /\ state = "not_connected"
    /\ connected = FALSE /\ dropped = FALSE /\ stopping = FALSE
    /\ link = 0 /\ managed = {} /\ trading = FALSE /\ readOnlyApi = FALSE
    /\ connects = FALSE /\ timer = "off" /\ probe = "none"
    /\ forced = FALSE /\ resub = FALSE /\ dated = "never"

-----------------------------------------------------------------------------
(* Shared parts of the handlers *)

\* is_connected.
IsConnected == state \in Up /\ sock = "up"

\* A read-only session skips the order sync at startup.
ReadOnly == ~(config.needsWrite /\ config.allowLive)

\* _evaluate_trading, for the accounts of a scope.
MayTrade(accounts) ==
    /\ config.needsWrite
    /\ accounts # {}
    /\ LiveInScope(config, accounts) # {} => config.allowLive
    /\ Allowed(config, accounts) # {}

\* trading_enabled, which is what require_trading asks for.
TradingEnabled == IsConnected /\ trading /\ ~readOnlyApi

\* _mark_down: only a session that was up starts a new outage.
MarkDown(s) ==
    /\ state' = s
    /\ connected' = FALSE
    /\ dated' = CASE state \in Up -> "latest"
                  [] state \notin Up /\ dated = "never" /\ ~stopping -> "start"
                  [] OTHER -> dated

\* The socket is gone, and ib_async's idle timer with it.
SocketGone ==
    /\ sock' = "down" /\ hung' = FALSE
    /\ dropped' = TRUE
    /\ timer' = "off"
    /\ probe' = IF probe = "asked" THEN "orphaned" ELSE probe

-----------------------------------------------------------------------------
(* The supervisor *)

\* start: the supervisor is created, unless there is one.
Start ==
    /\ sup = "none"
    /\ sup' = "ready" /\ stopping' = FALSE
    /\ state' = "connecting"
    /\ UNCHANGED <<env, sock, connected, dropped, link, trade, connects, idle, dated>>

\* _connect_once begins.  A probe orphaned by the drop has failed long before
\* the backoff ends (INITIAL_BACKOFF), and so has a scheduled reconnect run: what
\* they would do to the next session is not part of the model.
BeginAttempt ==
    /\ sup \in {"ready", "sleeping"}
    /\ probe # "orphaned" /\ ~forced
    /\ sup' = "connecting" /\ sock' = "opening"
    /\ state' = "connecting" /\ dropped' = FALSE /\ link' = 0
    /\ UNCHANGED <<env, connected, stopping, trade, connects, idle, dated>>

\* The handshake is done; connectAsync goes on to load its startup data.
ApiReady(accounts) ==
    /\ sup = "connecting" /\ sock = "opening"
    /\ sock' = "up" /\ login' = accounts
    /\ UNCHANGED <<config, hung, sup, state, connected, dropped, stopping, link, trade,
                   connects, idle, dated>>

\* connectAsync is refused, times out, or the peer closes the socket (which
\* ends the attempt at once), or it raises something unexpected.
ConnectFails(s) ==
    /\ sup = "connecting"
    /\ sup' = "sleeping"
    /\ sock' = "down" /\ hung' = FALSE /\ timer' = "off"
    /\ dropped' = (dropped \/ sock = "up")
    /\ MarkDown(s)
    /\ UNCHANGED <<config, login, stopping, link, trade, connects, probe, forced, resub>>

\* Slip: a drop that the set-up has seen is taken for dealt with.
DroppedAndCleared ==
    /\ dropped
    /\ MarkDown("not_connected")
    /\ sup' = "waiting" /\ dropped' = FALSE
    /\ UNCHANGED <<env, sock, stopping, link, trade, connects, idle>>

\* The session is dropped when a step of the set-up ends: the set-up gives up,
\* and the supervisor finds the drop.
DroppedMeanwhile ==
    /\ dropped
    /\ MarkDown("not_connected")
    /\ sup' = "waiting"
    /\ UNCHANGED <<env, sock, dropped, stopping, link, trade, connects, idle>>

\* The end of _on_connected.
Established ==
    /\ state' = IF link # 0 THEN "connectivity_lost" ELSE "connected"
    /\ connected' = TRUE
    /\ timer' = "idle"
    /\ resub' = (resub \/ connects)
    /\ connects' = TRUE
    /\ dated' = IF dated = "latest" THEN "earlier" ELSE dated
    /\ sup' = "waiting"

\* The set-up goes on: orders, then executions, then it is established.  Only
\* a read-only session needs either, and orders only where trading is allowed.
NextSetUpStep(mayTrade) ==
    \/ /\ ReadOnly /\ sup = "connecting"
       /\ sup' = IF mayTrade THEN "syncing" ELSE "fetching"
       /\ UNCHANGED <<state, connected, timer, resub, connects, dated>>
    \/ /\ ReadOnly /\ sup = "syncing"
       /\ sup' = "fetching"
       /\ UNCHANGED <<state, connected, timer, resub, connects, dated>>
    \/ /\ ~ReadOnly \/ sup = "fetching"
       /\ Established

\* Slip: the accounts of the last session decide whether trading is allowed.
SetUpWithOldScope ==
    /\ sup = "connecting" /\ sock = "up" /\ ~dropped
    /\ managed' = login /\ trading' = MayTrade(managed) /\ readOnlyApi' = FALSE
    /\ NextSetUpStep(MayTrade(managed))
    /\ UNCHANGED <<env, sock, dropped, stopping, link, probe, forced>>

\* _on_connected up to its first await: the accounts are refreshed before
\* trading is evaluated.
SetUp ==
    /\ sup = "connecting" /\ sock = "up" /\ ~dropped
    /\ managed' = login /\ trading' = MayTrade(login) /\ readOnlyApi' = FALSE
    /\ NextSetUpStep(MayTrade(login))
    /\ UNCHANGED <<env, sock, dropped, stopping, link, probe, forced>>

\* The connect finished on a session that has dropped since.
SetUpTooLate == sup = "connecting" /\ sock = "down" /\ DroppedMeanwhile

\* _on_connected raises: the session is closed again.
SetUpFails ==
    /\ sup = "connecting" /\ sock = "up" /\ ~dropped
    /\ sup' = "sleeping"
    /\ SocketGone
    /\ MarkDown("not_connected")
    /\ UNCHANGED <<config, login, stopping, link, trade, connects, forced, resub>>

\* Slip: the set-up does not look whether the session dropped meanwhile.
SetUpResumesRegardless ==
    /\ sup \in {"syncing", "fetching"}
    /\ NextSetUpStep(trading)
    /\ UNCHANGED <<env, sock, dropped, stopping, link, trade, probe, forced>>

\* The order sync, or the fetch of executions, has ended, loaded or not.
SetUpResumes ==
    /\ sup \in {"syncing", "fetching"}
    /\ \/ DroppedMeanwhile
       \/ /\ ~dropped
          /\ NextSetUpStep(trading)
          /\ UNCHANGED <<env, sock, dropped, stopping, link, trade, probe, forced>>

\* The supervisor waits for the drop, then sleeps before the next attempt.
DropSeen ==
    /\ sup = "waiting" /\ dropped
    /\ sup' = "sleeping"
    /\ UNCHANGED <<env, sock, state, connected, dropped, stopping, link, trade,
                   connects, idle, dated>>

\* stop cancels the supervisor and the background tasks (_abort does the same
\* in one step) ...
StopBegins ==
    /\ sup \notin {"none", "cancelled"}
    /\ stopping' = TRUE /\ sup' = "cancelled"
    /\ probe' = "none" /\ resub' = FALSE
    /\ UNCHANGED <<env, sock, state, connected, dropped, link, trade, connects,
                   timer, forced, dated>>

\* ... awaits them, and disconnects.
StopEnds ==
    /\ sup = "cancelled"
    /\ sup' = "none"
    /\ SocketGone
    /\ MarkDown("not_connected")
    /\ UNCHANGED <<config, login, stopping, link, trade, connects, forced, resub>>

-----------------------------------------------------------------------------
(* Events *)

\* The gateway closes the socket (_on_disconnected).
Drop ==
    /\ sock = "up"
    /\ SocketGone
    /\ \/ /\ stopping \/ state = "connecting"
          /\ UNCHANGED <<state, connected, dated>>
       \/ /\ ~stopping /\ state # "connecting"
          /\ MarkDown("not_connected")
    /\ UNCHANGED <<config, login, sup, stopping, link, trade, connects, forced, resub>>

\* _force_reconnect closes a session that is up.
ForceReconnect ==
    /\ SocketGone
    /\ MarkDown("not_connected")
    /\ UNCHANGED <<config, login, sup, stopping, link, trade, connects, resub>>

\* 1100, 2110: remembered while the session is being set up.
LinkLost(code) ==
    /\ sock = "up" /\ ~hung
    /\ link' = code
    /\ state' = IF IsConnected THEN "connectivity_lost" ELSE state
    /\ UNCHANGED <<env, sock, sup, connected, dropped, stopping, trade, connects, idle, dated>>

\* 1101 and 1102, and a farm that is back after a 2110 (code 2104).
LinkBack(code) ==
    /\ sock = "up" /\ ~hung
    /\ code \in {1101, 1102} \/ link = 2110
    /\ link' = 0
    /\ state' = IF state = "connectivity_lost" THEN "connected" ELSE state
    /\ resub' = (resub \/ code = 1101)
    /\ UNCHANGED <<env, sock, sup, connected, dropped, stopping, trade, connects,
                   timer, probe, forced, dated>>

\* 321: the gateway's API is read-only.
ReadOnlyCode ==
    /\ sock = "up" /\ ~hung
    /\ readOnlyApi' = TRUE
    /\ UNCHANGED <<env, sock, sup, state, connected, dropped, stopping, link, managed,
                   trading, connects, idle, dated>>

\* 502, 504: on an open session a reconnect is scheduled, outside the decoder.
NotConnectedCode ==
    /\ sock # "down" /\ ~hung
    /\ \/ /\ sock = "up"
          /\ forced' = TRUE
          /\ UNCHANGED <<state, connected, dated>>
       \/ /\ sock = "opening"
          /\ MarkDown("not_connected")
          /\ UNCHANGED forced
    /\ UNCHANGED <<env, sock, sup, dropped, stopping, link, trade, connects, timer, probe, resub>>

\* The scheduled reconnect runs; the session may be gone by itself.
ForcedRuns ==
    /\ forced
    /\ \/ /\ ~stopping /\ sock = "up"
          /\ forced' = FALSE
          /\ ForceReconnect
       \/ /\ stopping \/ sock # "up"
          /\ forced' = FALSE
          /\ UNCHANGED <<env, sock, sup, state, connected, dropped, stopping, link, trade,
                         connects, timer, probe, resub, dated>>

\* A resubscribe task starts (Subscriptions has what it does).
ResubscribeRuns ==
    /\ resub /\ resub' = FALSE
    /\ UNCHANGED <<env, sock, sup, state, connected, dropped, stopping, link, trade, connects,
                   timer, probe, forced, dated>>

\* The gateway goes silent, or answers again.
Hangs ==
    /\ sock = "up" /\ hung' = ~hung
    /\ UNCHANGED <<config, login, sock, sup, state, connected, dropped, stopping, link, trade,
                   connects, idle, dated>>

-----------------------------------------------------------------------------
(* The idle probe *)

\* Slip: silence is expected while IBKR is cut off, so nothing is asked.
OnIdleTrusting ==
    /\ timer # "off" /\ sock = "up"
    /\ \/ /\ stopping \/ probe # "none" \/ state = "connectivity_lost"
          /\ timer' = "off" /\ UNCHANGED probe
       \/ /\ ~stopping /\ probe = "none" /\ state \notin Up
          /\ timer' = "idle" /\ UNCHANGED probe
       \/ /\ ~stopping /\ probe = "none" /\ state = "connected"
          /\ timer' = "off" /\ probe' = "asked"
    /\ UNCHANGED <<env, sock, sup, state, connected, dropped, stopping, link, trade, connects,
                   forced, resub, dated>>

\* ib_async's timer fires, once, when nothing has come in (_on_idle).  While
\* IBKR is cut off the first silence only arms a longer timer.
OnIdle ==
    /\ timer # "off" /\ sock = "up"
    /\ \/ /\ stopping \/ probe # "none"
          /\ timer' = "off" /\ UNCHANGED probe
       \/ /\ ~stopping /\ probe = "none"
          /\ state = "connectivity_lost" /\ timer = "idle"
          /\ timer' = "degraded" /\ UNCHANGED probe
       \/ /\ ~stopping /\ probe = "none" /\ state \notin Up
          /\ timer' = "idle" /\ UNCHANGED probe
       \/ /\ ~stopping /\ probe = "none" /\ state \in Up
          /\ state = "connectivity_lost" => timer = "degraded"
          /\ timer' = "off" /\ probe' = "asked"
    /\ UNCHANGED <<env, sock, sup, state, connected, dropped, stopping, link, trade, connects,
                   forced, resub, dated>>

\* The server time arrives.
ProbeAnswered ==
    /\ probe = "asked" /\ ~hung
    /\ probe' = "none" /\ timer' = "idle"
    /\ UNCHANGED <<env, sock, sup, state, connected, dropped, stopping, link, trade, connects,
                   forced, resub, dated>>

\* No answer within LIVENESS_PROBE_TIMEOUT: the session is closed.
ProbeTimesOut ==
    /\ probe = "asked"
    /\ sock' = "down" /\ hung' = FALSE /\ dropped' = TRUE
    /\ timer' = "off" /\ probe' = "none"
    /\ MarkDown("not_connected")
    /\ UNCHANGED <<config, login, sup, stopping, link, trade, connects, forced, resub>>

\* The session dropped under the probe: its request fails with it.
ProbeFails ==
    /\ probe = "orphaned"
    /\ probe' = "none"
    /\ UNCHANGED <<env, sock, sup, state, connected, dropped, stopping, link, trade, connects,
                   timer, forced, resub, dated>>

-----------------------------------------------------------------------------
Supervisor ==
    \/ BeginAttempt
    \/ \E accounts \in SUBSET Account : ApiReady(accounts)
    \/ \E s \in {"not_accepting", "not_connected"} : ConnectFails(s)
    \/ SetUp \/ SetUpTooLate \/ SetUpFails \/ SetUpResumes \/ DropSeen

Next ==
    \/ Start \/ Supervisor \/ StopBegins \/ StopEnds
    \/ Drop
    \/ \E code \in {1100, 2110} : LinkLost(code)
    \/ \E code \in {1101, 1102, 2104} : LinkBack(code)
    \/ ReadOnlyCode \/ NotConnectedCode \/ ForcedRuns \/ ResubscribeRuns \/ Hangs
    \/ OnIdle \/ ProbeAnswered \/ ProbeTimesOut \/ ProbeFails

Spec == Init /\ [][Next]_vars

\* The event loop runs what is ready; every connect step and request of the
\* set-up has a timeout; a timer fires on a silent gateway.
Fairness ==
    /\ WF_vars(Supervisor) /\ WF_vars(ForcedRuns) /\ WF_vars(ProbeFails)
    /\ WF_vars(hung /\ OnIdle) /\ WF_vars(hung /\ ProbeTimesOut)

FairSpec == Spec /\ Fairness

-----------------------------------------------------------------------------
(* Properties *)

\* The state shown is that of the socket, outside a step of the set-up, also
\* when the drop came while the session was being set up, and a supervisor that
\* waits for a drop has an established session or finds the drop.
StateIsTheSockets ==
    /\ state \in Up /\ ~stopping => sock = "up" /\ sup = "waiting"
    /\ sup = "waiting" /\ sock = "up" => state \in Up /\ ~dropped
    /\ sup = "waiting" /\ sock # "up" => dropped
    /\ connected <=> state \in Up

\* Nobody is told that IBKR is reachable while it is known not to be, and the
\* other way round, whenever the notice came.
LinkIsShown ==
    /\ state = "connectivity_lost" => link # 0
    /\ state = "connected" => link = 0

\* last_disconnect_at dates the outage that is on: not a failed retry of it,
\* and not an earlier one.
OutageIsDated ==
    sup \in {"sleeping", "connecting", "syncing", "fetching"} /\ ~stopping =>
        /\ connects <=> dated = "latest"
        /\ sup = "sleeping" /\ ~connects => dated = "start"

\* An established session is always watched for silence.
SilenceIsWatched ==
    state \in Up /\ sock = "up" /\ ~stopping => (timer # "off" <=> probe # "asked")

\* What holds of the manager between any two steps (ConnectionProofs).
IInv == TypeOK /\ StateIsTheSockets /\ LinkIsShown /\ OutageIsDated /\ SilenceIsWatched

\* While trading is enabled, every account a write may resolve to is one the
\* gateway's present login manages, and none is live without
\* IBKR_MCP_ALLOW_LIVE; also right after a reconnect to another login.
TradingMatchesLogin ==
    TradingEnabled =>
        /\ config.needsWrite
        /\ \A a \in Account \cup {NoAccount} :
               LET chosen == Resolve(config, managed, a)
               IN  chosen # NoAccount =>
                       chosen \in login /\ (chosen \in Live => config.allowLive)

\* A gateway that goes silent on an open session does not stay unnoticed, also
\* while IBKR is cut off: it answers again, or the session is closed.
HungIsNoticed == (hung /\ state \in Up) ~> (~hung \/ sock # "up" \/ stopping)

\* Whatever the gateway does and whenever it drops the session, a manager that
\* is not stopped tries again.
KeepsTrying == (sup # "none" /\ sock = "down" /\ ~stopping) ~> (sup = "connecting" \/ stopping)
=============================================================================
