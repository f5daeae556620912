--------------------------- MODULE ProfileDaemon ---------------------------
(***************************************************************************)
(* The profile requests of satspathd (satspathd/src/main.rs): publishing a *)
(* profile, verifying an alias, updating receive methods and rotating the  *)
(* identity key.  Each request changes several files that no transaction   *)
(* joins: identity/<key>.key, wallet.json, profiles/<key>.json and the     *)
(* transparency store.  mutation_lock lets one request run at a time, but  *)
(* a request may fail, and the process may die, between any two writes;    *)
(* the next request starts from what they left.  One file is written       *)
(* atomically (write_owner_only_file).                                     *)
(*                                                                         *)
(* A wallet record keeps its alias, its key and whether it has a receive   *)
(* method to publish.  Of the store the model keeps the key of each event  *)
(* of each name: TransparencyStore models it in full, and other processes  *)
(* that write to it.                                                       *)
(***************************************************************************)
EXTENDS Integers, Sequences, Functions

CONSTANTS Aliases,      \* names
          ServerKeys,   \* identity keys the daemon may generate
          ClientKeys,   \* identity keys that clients hold and the daemon does not
          MaxEvents,    \* bound on the events of one name
          None

Keys == ServerKeys \cup ClientKeys

ASSUME KeysAreApart == ServerKeys \cap ClientKeys = {}
ASSUME NoneIsNothing == None \notin Keys \cup Aliases
ASSUME MaxEventsIsNat == MaxEvents \in Nat

VARIABLES
    keyFiles,       \* the keys whose file is in identity/
    wallet,         \* wallet.json
    profileFiles,   \* profiles/<key>.json, or None
    names,          \* the key of each event of a name, oldest first
    request         \* the request that holds mutation_lock

files == <<keyFiles, wallet, profileFiles>>
vars == <<keyFiles, wallet, profileFiles, names, request>>

WalletState == [alias : Aliases \cup {None}, key : Keys \cup {None},
                methods : BOOLEAN]

\* WalletState::default()
DefaultWallet == [alias |-> None, key |-> None, methods |-> FALSE]

Kinds == {"update", "verify", "methods", "rotate"}

Steps == {"idle", "create identity", "save identity", "apply", "identity key",
          "new key", "commit", "save profile", "save wallet"}

\* What a request says: the endpoint, the identity it names, the alias, and
\* whether it leaves the wallet with a method to publish.
Request == [step : Steps, kind : Kinds, pk : Keys \cup {None},
            alias : Aliases \cup {None}, methods : BOOLEAN,
            wallet : WalletState]

NoRequest == [step |-> "idle", kind |-> "update", pk |-> None, alias |-> None,
              methods |-> FALSE, wallet |-> DefaultWallet]

Owner(a) == names[a][Len(names[a])]

Step(step) == request' = [request EXCEPT !.step = step]

-----------------------------------------------------------------------------
Init ==
    /\ keyFiles = {}
    /\ wallet = DefaultWallet
    /\ profileFiles = [k \in Keys |-> None]
    /\ names = [a \in Aliases |-> <<>>]
    /\ request = NoRequest

\* load_profile_by_pubkey, and the wallet verify_challenge and
\* update_profile_methods start from when it finds none.
WalletFor(pk) ==
    IF profileFiles[pk] # None
    THEN profileFiles[pk]
    ELSE IF wallet.key = pk THEN wallet
    ELSE [DefaultWallet EXCEPT !.key = pk]

\* POST /v1/profile, /v1/profile/verify and /v1/profile/methods.  A request
\* that names no identity uses wallet.json, which gets a key if it has none.
\* Only the second and the third read an identity from the body, a key that
\* somebody has; only the first and the third may leave out the alias.
Receive(kind, pk, alias, methods) ==
    /\ request.step = "idle"
    /\ pk \in keyFiles \cup ClientKeys \cup {None}
    /\ kind = "update" => pk = None
    /\ kind = "verify" => alias # None
    /\ LET w == IF pk = None THEN wallet ELSE WalletFor(pk)
       IN  request' = [step |-> IF w.key = None THEN "create identity" ELSE "apply",
                       kind |-> kind, pk |-> pk, alias |-> alias,
                       methods |-> methods, wallet |-> w]
    /\ UNCHANGED <<files, names>>

\* load_or_create_identity: the key file first, then wallet.json.
CreateIdentity(k) ==
    /\ request.step = "create identity"
    /\ k \in ServerKeys \ keyFiles
    /\ keyFiles' = keyFiles \cup {k}
    /\ request' = [request EXCEPT !.step = "save identity", !.wallet.key = k]
    /\ UNCHANGED <<wallet, profileFiles, names>>

SaveIdentity ==
    /\ request.step = "save identity"
    /\ wallet' = request.wallet
    /\ Step("apply")
    /\ UNCHANGED <<keyFiles, profileFiles, names>>

\* The wallet as the request changes it, in memory.
Applied ==
    LET w == request.wallet
        alias == IF request.alias = None THEN w.alias ELSE request.alias
    IN  CASE request.kind = "update"  -> [w EXCEPT !.methods = request.methods]
          [] request.kind = "verify"  -> [w EXCEPT !.alias = alias]
          [] request.kind = "methods" -> [w EXCEPT !.alias = alias,
                                                   !.methods = request.methods]

\* A mutant: whatever was verified is saved, and published later.
ApplyUnpublished ==
    /\ request.step = "apply"
    /\ request.kind = "update" => request.alias \in {None, request.wallet.alias}
    /\ Applied.alias # None
    /\ request' = [request EXCEPT !.step = "save profile", !.wallet = Applied]
    /\ UNCHANGED <<files, names>>

\* update_profile only takes the alias the wallet has; sign_and_store needs an
\* alias and a method; verify_challenge signs only if there is a method.
Apply ==
    /\ request.step = "apply"
    /\ request.kind = "update" => request.alias \in {None, request.wallet.alias}
    /\ Applied.alias # None
    /\ request.kind # "verify" => Applied.methods
    /\ request' = [request EXCEPT
                     !.step = IF Applied.methods THEN "identity key" ELSE "save profile",
                     !.wallet = Applied]
    /\ UNCHANGED <<files, names>>

\* sign_and_store's load_identity_key: whatever the reason the key cannot be
\* read, a new one takes its place, in its file and in the wallet.
LoadIdentityKey ==
    /\ request.step = "identity key"
    /\ \/ /\ request.wallet.key \in keyFiles
          /\ Step("commit")
          /\ UNCHANGED keyFiles
       \/ /\ request.wallet.key \notin keyFiles
          /\ \E k \in ServerKeys \ keyFiles :
               /\ keyFiles' = keyFiles \cup {k}
               /\ request' = [request EXCEPT !.step = "commit", !.wallet.key = k]
    /\ UNCHANGED <<wallet, profileFiles, names>>

\* POST /v1/profile/rotate-key rotates the key of wallet.json if it is the
\* owner's.
ReceiveRotation ==
    /\ request.step = "idle"
    /\ wallet.alias # None
    /\ wallet.key \in keyFiles
    /\ names[wallet.alias] # <<>>
    /\ Owner(wallet.alias) = wallet.key
    /\ request' = [NoRequest EXCEPT !.step = "new key", !.kind = "rotate",
                                    !.wallet = wallet]
    /\ UNCHANGED <<files, names>>

\* A mutant: the new key is saved with the wallet, after the commit.
KeepNewKeyInMemory(k) ==
    /\ request.step = "new key"
    /\ k \in ServerKeys \ keyFiles
    /\ request' = [request EXCEPT !.step = "commit", !.wallet.key = k]
    /\ UNCHANGED <<files, names>>

\* rotate_profile_key saves the new key before it commits the rotation.
SaveNewKey(k) ==
    /\ request.step = "new key"
    /\ k \in ServerKeys \ keyFiles
    /\ keyFiles' = keyFiles \cup {k}
    /\ request' = [request EXCEPT !.step = "commit", !.wallet.key = k]
    /\ UNCHANGED <<wallet, profileFiles, names>>

\* The log accepts the event: its first, one under the owner's key, or a
\* rotation that the owner's key authorised (see NameHistory).
Accepts(a) ==
    names[a] # <<>> =>
        Owner(a) = IF request.kind = "rotate" THEN wallet.key
                                              ELSE request.wallet.key

\* A mutant: the event carries the identity the request named.
CommitForIdentity ==
    LET a == request.wallet.alias IN
    /\ request.step = "commit"
    /\ Len(names[a]) < MaxEvents
    /\ Accepts(a)
    /\ names' = [names EXCEPT ![a] = Append(@, request.pk)]
    /\ Step(IF request.kind \in {"verify", "methods"} THEN "save profile"
                                                      ELSE "save wallet")
    /\ UNCHANGED files

\* commit_profile_event_checkpoint
Commit ==
    LET a == request.wallet.alias IN
    /\ request.step = "commit"
    /\ Len(names[a]) < MaxEvents
    /\ Accepts(a)
    /\ names' = [names EXCEPT ![a] = Append(@, request.wallet.key)]
    /\ Step(IF request.kind \in {"verify", "methods"} THEN "save profile"
                                                      ELSE "save wallet")
    /\ UNCHANGED files

\* save_profile_by_pubkey
SaveProfile ==
    /\ request.step = "save profile"
    /\ profileFiles' = [profileFiles EXCEPT ![request.wallet.key] = request.wallet]
    /\ Step("save wallet")
    /\ UNCHANGED <<keyFiles, wallet, names>>

\* save_wallet, the last step of every request.
SaveWallet ==
    /\ request.step = "save wallet"
    /\ wallet' = request.wallet
    /\ request' = NoRequest
    /\ UNCHANGED <<keyFiles, profileFiles, names>>

\* A check or a write fails, or the process dies and is started again.
Fail ==
    /\ request.step # "idle"
    /\ request' = NoRequest
    /\ UNCHANGED <<files, names>>

Next ==
    \/ \E kind \in Kinds \ {"rotate"}, pk \in Keys \cup {None},
          alias \in Aliases \cup {None}, methods \in BOOLEAN :
         Receive(kind, pk, alias, methods)
    \/ ReceiveRotation
    \/ \E k \in ServerKeys : CreateIdentity(k) \/ SaveNewKey(k)
    \/ SaveIdentity
    \/ Apply
    \/ LoadIdentityKey
    \/ Commit
    \/ SaveProfile
    \/ SaveWallet
    \/ Fail

Spec == Init /\ [][Next]_vars

-----------------------------------------------------------------------------
(* Properties.                                                             *)

TypeOK ==
    /\ keyFiles \subseteq ServerKeys
    /\ wallet \in WalletState
    /\ profileFiles \in [Keys -> WalletState \cup {None}]
    /\ names \in [Aliases -> Seq(Keys)]
    /\ request \in Request

\* No key that a committed event carries is ever without its file, wherever a
\* request stopped: the owner's key of every name can sign (the comment in
\* rotate_profile_key, "Store a recoverable key backup before commit").
OwnerKeysOnDisk == \A a \in Aliases : Range(names[a]) \subseteq keyFiles

\* The files never run ahead of the log: a wallet or profile file that has a
\* method to publish names a name that was published under its very key.
Published(w) == w.methods => /\ w.alias # None
                             /\ w.key \in Range(names[w.alias])

FilesFollowTheLog ==
    /\ Published(wallet)
    /\ \A k \in Keys : profileFiles[k] # None => Published(profileFiles[k])

\* A request that published a name can be made again: the wallet that the
\* next request of the same identity starts from has the owner's key.  A
\* client names one identity_pubkey in all its requests (satspath.tsx pushes
\* its receive methods under it at every change of address).
Updatable(pk, a) == (IF pk = None THEN wallet ELSE WalletFor(pk)).key = Owner(a)

Completes(pk, a) ==
    /\ request.step = "save wallet" /\ wallet' = request.wallet
    /\ request.wallet.methods
    /\ request.pk = pk /\ request.wallet.alias = a

RequestRepeatable ==
    [][\A pk \in Keys \cup {None}, a \in Aliases :
         Completes(pk, a) => Updatable(pk, a)']_vars

=============================================================================
