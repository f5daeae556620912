-------------------------- MODULE WalletLifecycle --------------------------
\* The wallet provider (wallet/src/providers/wallet.tsx): unlocking, the init
\* sessions that bind the page to the service worker, the status ping that heals
\* a dead worker, reloads of the wallet's data, lock and reset. The service
\* worker outlives the page and holds the keys; it is modelled as the provider
\* uses it. restartWallet is left out: no screen calls it.
EXTENDS Naturals

CONSTANTS MaxSessions,  \* bound: init sessions of one page
          MaxRetries    \* maxRetries of runInitAttempt

ASSUME SessionsAssumption == MaxSessions \in Nat \ {0} /\ MaxRetries \in Nat

VARIABLES
  storedWallet,    \* localStorage: the wallet (wallet.pubkey), and what opens its keys
  authState,
  session,         \* each init session: who asked, how far, who aborted it
  currentSession,  \* initAbortRef: the session in force, 0 for none
  worker,          \* the service worker: does it answer, does it hold keys
  svcWallet,       \* the session whose proxy the page uses, 0 for none
  pinger,          \* the session whose status interval runs, 0 for none
  pingFailures,
  listener,        \* the session whose service-worker listener is installed
  reload,          \* the reloadWallet call in flight for each session's proxy
  shown,           \* what the page shows: initialized, dataReady, loadError
  loadedOnce,      \* hasLoadedOnce
  thresholds,      \* a threshold computation is in flight
  closing          \* the lock or reset under way

walletVars == <<storedWallet, authState, session, currentSession, worker, svcWallet,
                pinger, pingFailures, listener, reload, shown, loadedOnce, thresholds, closing>>

Sessions == 1..MaxSessions
\* No wallet; one whose keys the default password opens, or only the user's; one
\* written back after a reset took its keys.
StoredWallets == {"none", "default", "password", "keyless"}
NoSession == [kind |-> "none", step |-> "unused", reason |-> "none", tries |-> 0]
Blank == [initialized |-> FALSE, dataReady |-> FALSE, loadError |-> FALSE]

WalletTypeOK ==
  /\ storedWallet \in StoredWallets
  /\ authState \in {"unknown", "passwordless", "locked", "authenticated"}
  /\ session \in [Sessions -> [kind : {"none", "create", "unlock", "reinit"},
       step : {"unused", "setup", "waiting", "prepared", "clearing", "serving", "over"},
       reason : {"none", "init", "lock-reset"}, tries : 0..MaxRetries]]
  /\ currentSession \in 0..MaxSessions
  /\ worker \in [up : BOOLEAN, keys : BOOLEAN]
  /\ svcWallet \in 0..MaxSessions
  /\ pinger \in 0..MaxSessions
  /\ pingFailures \in 0..3
  /\ listener \in 0..MaxSessions
  /\ reload \in [Sessions -> {"none", "reading", "updating"}]
  /\ shown \in [initialized : BOOLEAN, dataReady : BOOLEAN, loadError : BOOLEAN]
  /\ loadedOnce \in BOOLEAN
  /\ thresholds \in BOOLEAN
  /\ closing \in {"none", "locking", "resetting", "cleared"}

\* The auth effect as the page loads: without a wallet there is nothing to open.
LoadedAuth == IF storedWallet = "none" THEN "authenticated" ELSE "unknown"

WalletInit ==
  /\ storedWallet \in {"none", "default", "password"}
  /\ authState = LoadedAuth
  /\ session = [s \in Sessions |-> NoSession]
  /\ currentSession = 0
  /\ worker = [up |-> TRUE, keys |-> FALSE]
  /\ svcWallet = 0
  /\ pinger = 0
  /\ pingFailures = 0
  /\ listener = 0
  /\ reload = [s \in Sessions |-> "none"]
  /\ shown = Blank
  /\ loadedOnce = FALSE
  /\ thresholds = FALSE
  /\ closing = "none"

-----------------------------------------------------------------------------
Aborted(s) == session[s].reason # "none"

\* The next session to start; they start in order.
Fresh(s) == session[s] = NoSession /\ \A r \in 1..(s - 1) : session[r] # NoSession

\* The signal in force fires, once: an aborted signal keeps its first reason.
AbortCurrent(why) ==
  IF currentSession = 0 \/ Aborted(currentSession) THEN session
  ELSE [session EXCEPT ![currentSession].reason = why]

\* startInitSession and the first attempt.
StartInitSession(s, kind) ==
  /\ Fresh(s)
  /\ session' = [AbortCurrent("init") EXCEPT ![s] = [NoSession EXCEPT !.kind = kind, !.step = "setup"]]
  /\ currentSession' = s

\* location.reload(): the page starts over, the worker and the storage stay.
ReloadPage ==
  /\ authState' = LoadedAuth
  /\ session' = [s \in Sessions |-> IF session[s] = NoSession THEN NoSession
                                    ELSE [session[s] EXCEPT !.step = "over"]]
  /\ currentSession' = 0
  /\ svcWallet' = 0 /\ pinger' = 0 /\ pingFailures' = 0 /\ listener' = 0
  /\ reload' = [s \in Sessions |-> "none"]
  /\ shown' = Blank
  /\ loadedOnce' = FALSE /\ thresholds' = FALSE
  /\ closing' = "none"

-----------------------------------------------------------------------------
\* detectPasswordState answers.
DetectPassword ==
  /\ authState = "unknown"
  /\ authState' = IF storedWallet = "default" THEN "passwordless" ELSE "locked"
  /\ UNCHANGED <<storedWallet, session, currentSession, worker, svcWallet, pinger, pingFailures,
                 listener, reload, shown, loadedOnce, thresholds, closing>>

\* The onboarding: a page without a wallet stores new keys under the default
\* password and calls initWallet, which sets wallet.pubkey once it is through.
CreateWallet(s) ==
  /\ storedWallet = "none" /\ svcWallet = 0
  /\ StartInitSession(s, "create")
  /\ UNCHANGED <<storedWallet, authState, worker, svcWallet, pinger, pingFailures,
                 listener, reload, shown, loadedOnce, thresholds, closing>>

\* A wallet whose settings are within reach. The password check of a wallet just
\* created is taken to be over by the time its user gets there.
Open ==
  /\ authState \in {"passwordless", "authenticated"}
  /\ shown.initialized /\ shown.dataReady

\* saveNewPassword, from the settings: set, changed or removed.
SavePassword ==
  /\ Open
  /\ storedWallet \in {"default", "password"}
  /\ storedWallet' \in {"default", "password"}
  /\ UNCHANGED <<authState, session, currentSession, worker, svcWallet, pinger,
                 pingFailures, listener, reload, shown, loadedOnce, thresholds, closing>>

\* unlockWallet with the right password, from the unlock screen or, for a
\* passwordless wallet, from the boot effect.
UnlockWallet(s) ==
  /\ authState \in {"passwordless", "locked"}
  /\ ~ shown.initialized
  /\ StartInitSession(s, "unlock")
  /\ storedWallet # "keyless"
  /\ authState' = "authenticated"
  /\ UNCHANGED <<storedWallet, worker, svcWallet, pinger, pingFailures, listener, reload, shown,
                 loadedOnce, thresholds, closing>>

\* ServiceWorkerWallet.setup: a dead worker is unregistered first, and the new
\* one is handed the identity.
SetUpWorker(s) ==
  /\ session[s].step = "setup"
  /\ session' = [session EXCEPT ![s].step = "prepared"]
  /\ worker' = [up |-> TRUE, keys |-> TRUE]
  /\ UNCHANGED <<storedWallet, authState, currentSession, svcWallet, pinger, pingFailures,
                 listener, reload, shown, loadedOnce, thresholds, closing>>

\* An attempt fails before its checkpoint: an aborted one says nothing, a timeout
\* is retried, and any other failure is thrown: to the onboarding, which says so,
\* to unlockWallet, which locks again, or to reinitSvcWallet, which reloads the page.
AttemptFails(s) ==
  /\ session[s].step \in {"setup", "prepared"}
  /\ \/ /\ Aborted(s)
        /\ session' = [session EXCEPT ![s].step = "over"]
        /\ UNCHANGED <<authState, currentSession, svcWallet, pinger, pingFailures, listener,
                       reload, shown, loadedOnce, thresholds, closing>>
     \/ /\ ~ Aborted(s) /\ session[s].tries < MaxRetries
        /\ session' = [session EXCEPT ![s].step = "waiting"]
        /\ UNCHANGED <<authState, currentSession, svcWallet, pinger, pingFailures, listener,
                       reload, shown, loadedOnce, thresholds, closing>>
     \/ /\ ~ Aborted(s) /\ session[s].kind = "create"
        /\ session' = [session EXCEPT ![s].step = "over"]
        /\ UNCHANGED <<authState, currentSession, svcWallet, pinger, pingFailures,
                       listener, reload, shown, loadedOnce, thresholds, closing>>
     \/ /\ ~ Aborted(s) /\ session[s].kind = "unlock"
        /\ session' = [session EXCEPT ![s].step = "over"]
        /\ authState' = "locked"
        /\ UNCHANGED <<currentSession, svcWallet, pinger, pingFailures, listener,
                       reload, shown, loadedOnce, thresholds, closing>>
     \/ ~ Aborted(s) /\ session[s].kind = "reinit" /\ ReloadPage
  /\ UNCHANGED <<storedWallet, worker>>

\* The backoff is over: an aborted session gives up, any other tries again.
RetryAttempt(s) ==
  /\ session[s].step = "waiting"
  /\ session' = [session EXCEPT ![s] =
       IF Aborted(s) THEN [@ EXCEPT !.step = "over"]
       ELSE [@ EXCEPT !.step = "setup", !.tries = session[s].tries + 1]]
  /\ UNCHANGED <<storedWallet, authState, currentSession, worker, svcWallet, pinger, pingFailures,
                 listener, reload, shown, loadedOnce, thresholds, closing>>

\* Fault: the checkpoint is skipped.
CommitUnchecked(s) ==
  /\ session[s].step = "prepared"
  /\ session' = [session EXCEPT ![s].step = "serving"]
  /\ svcWallet' = s /\ listener' = s /\ pinger' = s /\ pingFailures' = 0
  /\ shown' = [shown EXCEPT !.initialized = TRUE]
  /\ reload' = [reload EXCEPT ![s] = "reading"]
  /\ UNCHANGED <<storedWallet, authState, currentSession, worker, loadedOnce, thresholds, closing>>

\* The checkpoint, once the worker has answered getStatus: a session nobody
\* aborted takes the page over, with its listener and its ping, and the new proxy
\* triggers a reload. A wallet just created changes wallet.pubkey, and the auth
\* effect runs again under the open page.
CommitSession(s) ==
  /\ session[s].step = "prepared" /\ ~ Aborted(s) /\ worker.up
  /\ session' = [session EXCEPT ![s].step = "serving"]
  /\ svcWallet' = s /\ listener' = s /\ pinger' = s /\ pingFailures' = 0
  /\ shown' = [shown EXCEPT !.initialized = session[s].kind # "reinit" \/ worker.keys,
                            !.loadError = @ /\ loadedOnce]
  /\ reload' = [reload EXCEPT ![s] = "reading"]
  /\ IF session[s].kind = "create"
     THEN storedWallet' = "default" /\ authState' = "unknown"
     ELSE UNCHANGED <<storedWallet, authState>>
  /\ UNCHANGED <<currentSession, worker, loadedOnce, thresholds, closing>>

\* An aborted session ends at the checkpoint: clearIfLockReset clears the worker
\* for a lock or a reset and leaves it to the session that replaced it otherwise.
YieldSession(s) ==
  /\ session[s].step = "prepared" /\ Aborted(s) /\ worker.up
  /\ session' = [session EXCEPT ![s].step =
       IF session[s].reason = "lock-reset" THEN "clearing" ELSE "over"]
  /\ UNCHANGED <<storedWallet, authState, currentSession, worker, svcWallet, pinger, pingFailures,
                 listener, reload, shown, loadedOnce, thresholds, closing>>

ClearStaleWorker(s) ==
  /\ session[s].step = "clearing"
  /\ session' = [session EXCEPT ![s].step = "over"]
  /\ worker' = [worker EXCEPT !.keys = @ /\ ~ worker.up]
  /\ UNCHANGED <<storedWallet, authState, currentSession, svcWallet, pinger, pingFailures,
                 listener, reload, shown, loadedOnce, thresholds, closing>>

-----------------------------------------------------------------------------
\* The browser kills an idle worker, keys and all.
WorkerDies ==
  /\ worker.up
  /\ worker' = [up |-> FALSE, keys |-> FALSE]
  /\ UNCHANGED <<storedWallet, authState, session, currentSession, svcWallet, pinger, pingFailures,
                 listener, reload, shown, loadedOnce, thresholds, closing>>

PingAnswered ==
  /\ pinger # 0 /\ worker.up
  /\ pingFailures' = 0
  /\ shown' = IF Aborted(pinger) THEN shown ELSE [shown EXCEPT !.initialized = worker.keys]
  /\ UNCHANGED <<storedWallet, authState, session, currentSession, worker, svcWallet, pinger,
                 listener, reload, loadedOnce, thresholds, closing>>

\* Fault: the count goes on after the worker was found dead.
PingFailsOn ==
  /\ pinger # 0
  /\ pingFailures' = pingFailures + 1
  /\ UNCHANGED <<storedWallet, authState, session, currentSession, worker, svcWallet,
                 pinger, listener, reload, shown, loadedOnce, thresholds, closing>>

\* The worker is dead, or takes more than three seconds.
PingFails ==
  /\ pinger # 0 /\ pingFailures < 3
  /\ pingFailures' = pingFailures + 1
  /\ UNCHANGED <<storedWallet, authState, session, currentSession, worker, svcWallet,
                 pinger, listener, reload, shown, loadedOnce, thresholds, closing>>

\* Fault: the interval is cleared and the worker is left for dead.
StopPinging(s) ==
  /\ pinger # 0 /\ pingFailures = 3 /\ ~ Aborted(pinger) /\ Fresh(s)
  /\ pinger' = 0 /\ pingFailures' = 0
  /\ UNCHANGED <<storedWallet, authState, session, currentSession, worker, svcWallet, listener,
                 reload, shown, loadedOnce, thresholds, closing>>

\* reinitInProgress: a reinit has not returned yet.
ReinitInProgress ==
  \E s \in Sessions : session[s].kind = "reinit" /\ session[s].step \notin {"serving", "over"}

\* Three failures in a row of the session in force: its interval is cleared and
\* reinitSvcWallet starts another session with the same identity, or returns if
\* an earlier reinit has not.
ReinitSvcWallet(s) ==
  /\ pinger # 0 /\ pingFailures = 3 /\ ~ Aborted(pinger)
  /\ pinger' = 0 /\ pingFailures' = 0
  /\ IF ReinitInProgress THEN UNCHANGED <<session, currentSession>>
     ELSE StartInitSession(s, "reinit")
  /\ UNCHANGED <<storedWallet, authState, worker, svcWallet, listener, reload, shown, loadedOnce,
                 thresholds, closing>>

-----------------------------------------------------------------------------
\* The worker announced a change, or the user retries a failed load.
StartReload(s) ==
  /\ s = listener \/ (s = svcWallet /\ shown.loadError)
  /\ reload[s] = "none"
  /\ reload' = [reload EXCEPT ![s] = "reading"]
  /\ shown' = [shown EXCEPT !.loadError = @ /\ loadedOnce]
  /\ UNCHANGED <<storedWallet, authState, session, currentSession, worker, svcWallet, pinger,
                 pingFailures, listener, loadedOnce, thresholds, closing>>

\* Coins, transactions and balance come from the worker.
ReadWallet(s) ==
  /\ reload[s] = "reading" /\ worker.up /\ worker.keys
  /\ reload' = [reload EXCEPT ![s] = "updating"]
  /\ UNCHANGED <<storedWallet, authState, session, currentSession, worker, svcWallet, pinger,
                 pingFailures, listener, shown, loadedOnce, thresholds, closing>>

ReloadFails(s) ==
  /\ reload[s] = "reading"
  /\ reload' = [reload EXCEPT ![s] = "none"]
  /\ shown' = [shown EXCEPT !.loadError = @ \/ ~ loadedOnce]
  /\ UNCHANGED <<storedWallet, authState, session, currentSession, worker, svcWallet, pinger,
                 pingFailures, listener, loadedOnce, thresholds, closing>>

\* The data is in: it is shown, whatever happened to the page meanwhile, and the
\* thresholds are computed from it.
FinishReload(s) ==
  /\ reload[s] = "updating"
  /\ reload' = [reload EXCEPT ![s] = "none"]
  /\ shown' = [shown EXCEPT !.dataReady = @ \/ ~ loadedOnce]
  /\ loadedOnce' = TRUE
  /\ thresholds' = (thresholds \/ shown.initialized)
  /\ UNCHANGED <<storedWallet, authState, session, currentSession, worker, svcWallet, pinger,
                 pingFailures, listener, closing>>

\* updateWallet writes the wallet to the storage, even to one that was cleared.
SaveThresholds ==
  /\ thresholds
  /\ thresholds' = FALSE
  /\ storedWallet' = IF storedWallet = "none" THEN "keyless" ELSE storedWallet
  /\ UNCHANGED <<authState, session, currentSession, worker, svcWallet, pinger, pingFailures,
                 listener, reload, shown, loadedOnce, closing>>

DismissLoadError ==
  /\ shown.loadError
  /\ shown' = [shown EXCEPT !.loadError = FALSE, !.dataReady = TRUE]
  /\ loadedOnce' = TRUE
  /\ UNCHANGED <<storedWallet, authState, session, currentSession, worker, svcWallet, pinger,
                 pingFailures, listener, reload, thresholds, closing>>

-----------------------------------------------------------------------------
\* Lock and reset are reached from the settings of an open wallet. Both abort
\* the init in flight, stop the ping and drop the listener before they await.
CloseSession(how) ==
  /\ Open
  /\ closing = "none" /\ svcWallet # 0
  /\ session' = AbortCurrent("lock-reset")
  /\ currentSession' = 0
  /\ pinger' = 0 /\ pingFailures' = 0 /\ listener' = 0
  /\ closing' = how
  /\ UNCHANGED <<storedWallet, authState, worker, svcWallet, reload, shown, loadedOnce, thresholds>>

LockWallet == CloseSession("locking")
ResetWallet == CloseSession("resetting")

\* The worker is cleared and the page locked; a worker that does not answer
\* leaves it as it is, with an error.
FinishLock ==
  /\ closing = "locking"
  /\ closing' = "none"
  /\ \/ /\ worker.up
        /\ worker' = [worker EXCEPT !.keys = FALSE]
        /\ authState' = "locked"
        /\ shown' = [shown EXCEPT !.initialized = FALSE, !.dataReady = FALSE]
        /\ loadedOnce' = FALSE
     \/ ~ worker.up /\ UNCHANGED <<worker, authState, shown, loadedOnce>>
  /\ UNCHANGED <<storedWallet, session, currentSession, svcWallet, pinger, pingFailures, listener,
                 reload, thresholds>>

ClearForReset ==
  /\ closing = "resetting"
  /\ closing' = "cleared"
  /\ storedWallet' = "none"
  /\ UNCHANGED <<authState, session, currentSession, worker, svcWallet, pinger, pingFailures,
                 listener, reload, shown, loadedOnce, thresholds>>

\* The worker and the repositories are cleared, and the reset screen reloads.
FinishReset ==
  /\ closing = "cleared"
  /\ \/ worker.up /\ worker' = [worker EXCEPT !.keys = FALSE] /\ ReloadPage
     \/ /\ ~ worker.up /\ closing' = "none"
        /\ UNCHANGED <<worker, authState, session, currentSession, svcWallet, pinger,
                       pingFailures, listener, reload, shown, loadedOnce, thresholds>>
  /\ UNCHANGED storedWallet

SessionStep(s) ==
  \/ SetUpWorker(s) \/ AttemptFails(s) \/ RetryAttempt(s) \/ CommitSession(s)
  \/ YieldSession(s) \/ ClearStaleWorker(s)

WalletNext ==
  \/ DetectPassword \/ SavePassword \/ WorkerDies \/ PingAnswered \/ PingFails
  \/ SaveThresholds \/ DismissLoadError
  \/ LockWallet \/ ResetWallet \/ FinishLock \/ ClearForReset \/ FinishReset
  \/ \E s \in Sessions :
       \/ CreateWallet(s) \/ UnlockWallet(s) \/ SessionStep(s) \/ ReinitSvcWallet(s)
       \/ StartReload(s) \/ ReadWallet(s) \/ ReloadFails(s) \/ FinishReload(s)

\* A ping of a dead worker.
DeadPing == ~ worker.up /\ PingFails

\* The interval ticks and promises settle; users and the browser owe nothing.
WalletFairness ==
  /\ WF_walletVars(DeadPing)
  /\ \A s \in Sessions : WF_walletVars(ReinitSvcWallet(s)) /\ WF_walletVars(SessionStep(s))

WalletSpec == WalletInit /\ [][WalletNext]_walletVars /\ WalletFairness

-----------------------------------------------------------------------------
\* A locked wallet stays shut until it is unlocked: no init that was in flight
\* when it was locked, and no ping that was, marks it initialized, listens to the
\* worker or pings it.
LockedIsShut ==
  authState = "locked" => ~ shown.initialized /\ pinger = 0 /\ listener = 0

\* A worker that dies under an open wallet is brought back, or the page starts
\* over or is locked: nobody is left with a wallet that looks open and answers
\* nothing. Left out are a ping that finds an earlier reinit still at work, which
\* clears its interval for nothing, and a page with no session left (the bound).
DeadWorkerIsHealed ==
  (shown.initialized /\ ~ worker.up /\ closing = "none" /\ pinger # 0 /\ ~ Aborted(pinger)
     /\ ~ ReinitInProgress /\ session[MaxSessions] = NoSession)
    ~> (worker.up \/ ~ shown.initialized \/ closing # "none")
=============================================================================
