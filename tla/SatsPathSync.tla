---------------------------- MODULE SatsPathSync ----------------------------
\* The wallet's SatsPath profile: the provider (wallet/src/providers/satspath.tsx)
\* that polls satspathd and shows the profile it answers with, and the screen
\* where an alias is registered and methods are published
\* (wallet/src/screens/Settings/SatsPathProfile.tsx). Requests are answered in
\* any order. The daemon answers with whatever profile it has, and a request that
\* named the wallet's key is checked against that key.
EXTENDS FiniteSets

VARIABLES
  wasm,           \* loading, ready or failed
  identity,       \* none, pending (the mnemonic came before the WASM) or derived
  connected,      \* daemonConnected
  localProfile,   \* localStorage: is an alias, are methods kept there
  daemonProfile,  \* what is shown: none, own, foreign
  requests,       \* in flight
  registration    \* the step of the registration form

satsPathVars == <<wasm, identity, connected, localProfile, daemonProfile, requests, registration>>

Refreshes == {"refresh anonymous", "refresh own"}
Saves == {"publish", "auto-sync"}

SatsPathTypeOK ==
  /\ wasm \in {"loading", "ready", "failed"}
  /\ identity \in {"none", "pending", "derived"}
  /\ connected \in BOOLEAN
  /\ localProfile \in [alias : BOOLEAN, methods : BOOLEAN]
  /\ daemonProfile \in {"none", "own", "foreign"}
  /\ requests \subseteq Refreshes \cup Saves \cup {"push", "challenge", "verify"}
  /\ registration \in {"idle", "challenge", "done"}

\* The storage may hold what this wallet kept in an earlier session.
SatsPathInit ==
  /\ wasm = "loading"
  /\ identity = "none"
  /\ connected = FALSE
  /\ localProfile \in [alias : BOOLEAN, methods : BOOLEAN]
  /\ daemonProfile = "none"
  /\ requests = {}
  /\ registration = "idle"

-----------------------------------------------------------------------------
\* refreshDaemonProfile asks for the key it knew when it was made.
Refresh(known) == IF known = "derived" THEN "refresh own" ELSE "refresh anonymous"

\* The identity arrives: the alias of its own is read and the profile asked for.
Derive ==
  /\ identity' = "derived"
  /\ requests' = requests \cup {"refresh own"}

InitWasm ==
  /\ wasm = "loading"
  /\ wasm' = "ready"
  /\ IF identity = "pending" THEN Derive ELSE UNCHANGED <<identity, requests>>
  /\ UNCHANGED <<connected, localProfile, daemonProfile, registration>>

\* Nothing runs the effect again.
InitWasmFails ==
  /\ wasm = "loading"
  /\ wasm' = "failed"
  /\ UNCHANGED <<identity, connected, localProfile, daemonProfile, requests, registration>>

\* deriveIdentity, at unlock; before the WASM is ready the mnemonic waits for it.
DeriveIdentity ==
  /\ identity = "none"
  /\ IF wasm = "ready" THEN Derive ELSE identity' = "pending" /\ UNCHANGED requests
  /\ UNCHANGED <<wasm, connected, localProfile, daemonProfile, registration>>

\* checkDaemonHealth, every 30 s, and the effect of what it finds: an answer
\* refreshes the profile, and after an outage pushes the methods kept meanwhile.
HealthAnswered ==
  /\ connected' = TRUE
  /\ requests' = requests \cup {Refresh(identity)} \cup
       (IF ~ connected /\ localProfile.alias /\ localProfile.methods THEN {"push"} ELSE {})
  /\ UNCHANGED <<wasm, identity, localProfile, daemonProfile, registration>>

HealthFails ==
  /\ connected' = FALSE
  /\ UNCHANGED <<wasm, identity, localProfile, daemonProfile, requests, registration>>

CheckDaemonHealth == HealthAnswered \/ HealthFails

\* Fault: a profile is shown whoever it belongs to.
ShownAsAnswered(request, answer) == answer

\* A refresh shows the profile it got, unless it asked for a key and got another's.
ShownAfterRefresh(request, answer) ==
  IF request = "refresh own" /\ answer = "foreign" THEN "none" ELSE answer

RefreshAnswered(request) ==
  /\ request \in requests
  /\ requests' = requests \ {request}
  /\ \E answer \in {"none", "own", "foreign"} : daemonProfile' = ShownAfterRefresh(request, answer)
  /\ UNCHANGED <<wasm, identity, connected, localProfile, registration>>

\* The push after an outage names neither alias nor key; its answer is shown as it
\* is, and a refused one is only logged.
PushAnswered ==
  /\ "push" \in requests
  /\ requests' = requests \ {"push"}
  /\ daemonProfile' \in {daemonProfile, "own", "foreign"}
  /\ UNCHANGED <<wasm, identity, connected, localProfile, registration>>

-----------------------------------------------------------------------------
\* activeAlias of the screen: the alias of a profile that is not another key's, or
\* the local one.
ActiveAlias ==
  \/ daemonProfile = "own" \/ (daemonProfile = "foreign" /\ identity # "derived")
  \/ localProfile.alias

\* registerAlias, from the form, which is there while no alias is: offline the
\* alias is kept locally and the challenge skipped.
RegisterAlias ==
  /\ wasm = "ready" /\ registration = "idle"
  /\ ~ ActiveAlias /\ "challenge" \notin requests
  /\ IF connected
     THEN requests' = requests \cup {"challenge"} /\ UNCHANGED <<localProfile, registration>>
     ELSE /\ localProfile' = [localProfile EXCEPT !.alias = TRUE]
          /\ registration' = "done"
          /\ UNCHANGED requests
  /\ UNCHANGED <<wasm, identity, connected, daemonProfile>>

ChallengeAnswered ==
  /\ "challenge" \in requests
  /\ requests' = requests \ {"challenge"}
  /\ registration' \in {registration, "challenge"}
  /\ UNCHANGED <<wasm, identity, connected, localProfile, daemonProfile>>

\* verifyAlias: offline the alias counts as verified.
VerifyAlias ==
  /\ registration = "challenge" /\ "verify" \notin requests
  /\ ~ ActiveAlias
  /\ IF connected
     THEN requests' = requests \cup {"verify"} /\ UNCHANGED <<localProfile, daemonProfile, registration>>
     ELSE /\ localProfile' = [localProfile EXCEPT !.alias = TRUE]
          /\ daemonProfile' = "own"
          /\ registration' = "done"
          /\ requests' = requests \cup {Refresh(identity)}
  /\ UNCHANGED <<wasm, identity, connected>>

VerifyAnswered ==
  /\ "verify" \in requests
  /\ \/ /\ localProfile' = [localProfile EXCEPT !.alias = TRUE]
        /\ daemonProfile' \in {"own", "foreign"}
        /\ registration' \in {registration, "done"}
        /\ requests' = (requests \ {"verify"}) \cup {Refresh(identity)}
     \/ /\ requests' = requests \ {"verify"}
        /\ UNCHANGED <<localProfile, daemonProfile, registration>>
  /\ UNCHANGED <<wasm, identity, connected>>

\* The screen is left and opened again; what it awaited is answered all the same.
ReopenProfileScreen ==
  /\ registration # "idle"
  /\ registration' = "idle"
  /\ UNCHANGED <<wasm, identity, connected, localProfile, daemonProfile, requests>>

\* updateProfileMethods, from the screen, and autoSyncMethods, from its button or
\* the wallet provider: both keep the methods locally first.
PublishMethods ==
  /\ wasm = "ready"
  /\ ActiveAlias \/ registration = "done"
  /\ localProfile' = [localProfile EXCEPT !.methods = TRUE]
  /\ IF connected
     THEN requests' = requests \cup {"publish"} /\ UNCHANGED daemonProfile
     ELSE daemonProfile' = "own" /\ requests' = requests \cup {Refresh(identity)}
  /\ UNCHANGED <<wasm, identity, connected, registration>>

AutoSyncMethods ==
  /\ localProfile' = [localProfile EXCEPT !.methods = TRUE]
  /\ requests' = requests \cup (IF connected /\ localProfile.alias THEN {"auto-sync"} ELSE {})
  /\ UNCHANGED <<wasm, identity, connected, daemonProfile, registration>>

SaveAnswered(request) ==
  /\ request \in requests
  /\ \/ /\ daemonProfile' \in {"own", "foreign"}
        /\ requests' = (requests \ {request}) \cup (IF request = "publish" THEN {Refresh(identity)} ELSE {})
     \/ requests' = requests \ {request} /\ UNCHANGED daemonProfile
  /\ UNCHANGED <<wasm, identity, connected, localProfile, registration>>

SatsPathNext ==
  \/ InitWasm \/ InitWasmFails \/ DeriveIdentity \/ CheckDaemonHealth
  \/ PushAnswered \/ RegisterAlias \/ ChallengeAnswered \/ VerifyAlias \/ VerifyAnswered
  \/ ReopenProfileScreen \/ PublishMethods \/ AutoSyncMethods
  \/ \E request \in Refreshes : RefreshAnswered(request)
  \/ \E request \in Saves : SaveAnswered(request)

\* The interval ticks and requests are answered or fail; users owe nothing.
SatsPathFairness ==
  /\ WF_satsPathVars(CheckDaemonHealth)
  /\ WF_satsPathVars(RefreshAnswered("refresh own"))

SatsPathSpec == SatsPathInit /\ [][SatsPathNext]_satsPathVars /\ SatsPathFairness

-----------------------------------------------------------------------------
\* The profile of another key that is shown is dropped once the wallet's key is
\* known, if the daemon stays reachable: it may come from a request made before,
\* from a push that named no key or from an answer that came late, and only the
\* next poll corrects it.
ForeignProfileIsDropped ==
  (identity = "derived" /\ connected /\ daemonProfile = "foreign")
    ~> (daemonProfile # "foreign" \/ ~ connected)
=============================================================================
