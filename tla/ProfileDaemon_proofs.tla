------------------------ MODULE ProfileDaemon_proofs ------------------------
(***************************************************************************)
(* Proofs about ProfileDaemon.  The inductive invariant says what the      *)
(* request holds at each step: before the commit its key is on disk, and   *)
(* what it will save has been published by the time it is saved.           *)
(***************************************************************************)
EXTENDS ProfileDaemon, TLAPS

Before == {"create identity", "save identity", "apply"}
After == {"save profile", "save wallet"}

RequestInv ==
    /\ request.step = "save identity" => ~ request.wallet.methods
    /\ request.step \notin {"idle", "create identity"} => request.wallet.key \in Keys
    /\ request.step \in {"identity key", "new key", "commit"} \cup After =>
          request.wallet.alias \in Aliases
    /\ request.step = "create identity" => request.wallet.key = None
    /\ request.step = "commit" => request.wallet.key \in keyFiles
    /\ request.step \in Before \cup After => Published(request.wallet)
    /\ request.step \in Before => request.kind # "rotate"

IInv == TypeOK /\ OwnerKeysOnDisk /\ FilesFollowTheLog /\ RequestInv

-----------------------------------------------------------------------------
\* Appending an event adds its key to the keys of a name.
LEMMA RangeOfAppend ==
    ASSUME NEW S, NEW s \in Seq(S), NEW e \in S
    PROVE  /\ Append(s, e) \in Seq(S)
           /\ Range(Append(s, e)) = Range(s) \cup {e}
           /\ Append(s, e)[Len(Append(s, e))] = e
<1>1. /\ Append(s, e) \in Seq(S)
      /\ Len(Append(s, e)) = Len(s) + 1
      /\ \A i \in 1 .. Len(s) : Append(s, e)[i] = s[i]
      /\ Append(s, e)[Len(s) + 1] = e
  OBVIOUS
<1>2. /\ DOMAIN s = 1 .. Len(s)
      /\ DOMAIN Append(s, e) = 1 .. Len(s) + 1
      /\ Len(s) \in Nat
  BY <1>1
<1>3. \A i \in 1 .. Len(s) + 1 : i \in 1 .. Len(s) \/ i = Len(s) + 1
  BY <1>2
<1>4. Range(Append(s, e)) \subseteq Range(s) \cup {e}
  BY <1>1, <1>2, <1>3 DEF Range
<1>5. Range(s) \cup {e} \subseteq Range(Append(s, e))
  BY <1>1, <1>2 DEF Range
<1>. QED
  BY <1>1, <1>4, <1>5

\* A wallet record that is published keeps being published as names grow.
LEMMA PublishedStays ==
    ASSUME NEW w \in WalletState, Published(w), None \notin Aliases,
           \A a \in Aliases : Range(names[a]) \subseteq Range(names'[a])
    PROVE  Published(w)'
BY DEF Published, WalletState

\* The default wallet and the wallet of any identity are wallet records, and
\* published if the files are.
LEMMA WalletForType ==
    ASSUME TypeOK, FilesFollowTheLog, NEW pk \in Keys
    PROVE  /\ WalletFor(pk) \in WalletState
           /\ Published(WalletFor(pk))
<1>1. CASE profileFiles[pk] # None
  BY <1>1 DEF WalletFor, TypeOK, FilesFollowTheLog
<1>2. CASE profileFiles[pk] = None /\ wallet.key = pk
  BY <1>2, NoneIsNothing DEF WalletFor, TypeOK, FilesFollowTheLog
<1>3. CASE profileFiles[pk] = None /\ wallet.key # pk
  <2>1. WalletFor(pk) = [alias |-> None, key |-> pk, methods |-> FALSE]
    BY <1>3 DEF WalletFor, DefaultWallet
  <2>. QED
    BY <2>1, NoneIsNothing DEF WalletState, Published
<1>. QED
  BY <1>1, <1>2, <1>3

\* The initial states satisfy the inductive invariant.
LEMMA InitInvariant == Init => IInv
<1>. SUFFICES ASSUME Init PROVE IInv
  OBVIOUS
<1>1. DefaultWallet \in WalletState /\ ~ DefaultWallet.methods
  BY DEF DefaultWallet, WalletState
<1>2. NoRequest \in Request /\ NoRequest.step = "idle"
  BY <1>1 DEF NoRequest, Request, Steps, Kinds
<1>3. TypeOK
  BY <1>1, <1>2 DEF Init, TypeOK
<1>4. OwnerKeysOnDisk
  BY DEF Init, OwnerKeysOnDisk, Range
<1>5. FilesFollowTheLog
  BY <1>1 DEF Init, FilesFollowTheLog, Published
<1>6. RequestInv
  BY <1>2 DEF Init, RequestInv, Before, After
<1>. QED
  BY <1>3, <1>4, <1>5, <1>6 DEF IInv

\* Every step that appends no event and saves no file keeps what the three
\* first parts of the invariant say of the log and the files.
LEMMA FilesStay ==
    ASSUME IInv, UNCHANGED <<wallet, profileFiles, names>>,
           keyFiles \subseteq keyFiles', keyFiles' \subseteq ServerKeys,
           request' \in Request
    PROVE  TypeOK' /\ OwnerKeysOnDisk' /\ FilesFollowTheLog'
<1>1. TypeOK'
  BY DEF IInv, TypeOK
<1>2. OwnerKeysOnDisk'
  BY DEF IInv, OwnerKeysOnDisk
<1>3. FilesFollowTheLog'
  BY DEF IInv, FilesFollowTheLog, Published
<1>. QED
  BY <1>1, <1>2, <1>3

\* Receiving a request.
LEMMA ReceiveInvariant ==
    ASSUME IInv, NEW kind \in Kinds \ {"rotate"}, NEW pk \in Keys \cup {None},
           NEW alias \in Aliases \cup {None}, NEW methods \in BOOLEAN,
           Receive(kind, pk, alias, methods)
    PROVE  IInv'
<1>. DEFINE w == IF pk = None THEN wallet ELSE WalletFor(pk)
<1>1. w \in WalletState /\ Published(w)
  BY WalletForType, NoneIsNothing DEF IInv, TypeOK, FilesFollowTheLog
<1>2. /\ UNCHANGED <<keyFiles, wallet, profileFiles, names>>
      /\ request' = [step |-> IF w.key = None THEN "create identity" ELSE "apply",
                     kind |-> kind, pk |-> pk, alias |-> alias,
                     methods |-> methods, wallet |-> w]
  BY DEF Receive, files
<1>. HIDE DEF w
<1>3. request' \in Request
  BY <1>1, <1>2 DEF Request, Steps
<1>4. TypeOK' /\ OwnerKeysOnDisk' /\ FilesFollowTheLog'
  BY <1>2, <1>3, FilesStay DEF IInv, TypeOK
<1>5. /\ request'.wallet = w
      /\ \/ request'.step = "create identity" /\ w.key = None
         \/ request'.step = "apply" /\ w.key \in Keys
  BY <1>1, <1>2 DEF WalletState
<1>6. RequestInv'
  BY <1>1, <1>2, <1>5 DEF RequestInv, Before, After, Published
<1>. QED
  BY <1>4, <1>6 DEF IInv

\* Receiving a rotation.
LEMMA ReceiveRotationInvariant == ASSUME IInv, ReceiveRotation PROVE IInv'
<1>1. /\ UNCHANGED <<keyFiles, wallet, profileFiles, names>>
      /\ request' = [step |-> "new key", kind |-> "rotate", pk |-> None,
                     alias |-> None, methods |-> FALSE, wallet |-> wallet]
      /\ wallet \in WalletState /\ wallet.alias # None /\ wallet.key \in Keys
  BY DEF ReceiveRotation, NoRequest, files, IInv, TypeOK, Keys
<1>2. request' \in Request
  BY <1>1 DEF Request, Steps, Kinds
<1>3. TypeOK' /\ OwnerKeysOnDisk' /\ FilesFollowTheLog'
  BY <1>1, <1>2, FilesStay DEF IInv, TypeOK
<1>4. RequestInv'
  BY <1>1 DEF RequestInv, Before, After, WalletState
<1>. QED
  BY <1>3, <1>4 DEF IInv

\* A key is saved and the request goes on with it: a new identity, or the key
\* a rotation rotates to.
LEMMA CreateIdentityInvariant ==
    ASSUME IInv, NEW k \in ServerKeys, CreateIdentity(k) PROVE IInv'
<1>. DEFINE w == [request.wallet EXCEPT !.key = k]
<1>1. /\ request.step = "create identity"
      /\ request' = [request EXCEPT !.step = "save identity", !.wallet = w]
      /\ keyFiles' = keyFiles \cup {k}
      /\ UNCHANGED <<wallet, profileFiles, names>>
      /\ request \in Request /\ k \in Keys
  BY DEF CreateIdentity, IInv, TypeOK, Keys, Request
<1>2. w \in WalletState /\ w.key = k /\ w.methods = request.wallet.methods
  BY <1>1 DEF Request, WalletState
<1>3. ~ request.wallet.methods
  <2>1. request.wallet.key = None /\ Published(request.wallet)
    BY <1>1 DEF IInv, RequestInv, Before
  <2>2. request.wallet.alias # None =>
          None \notin Range(names[request.wallet.alias])
    BY <1>1, NoneIsNothing
       DEF IInv, OwnerKeysOnDisk, TypeOK, Request, WalletState, Keys
  <2>. QED
    BY <2>1, <2>2 DEF Published
<1>. HIDE DEF w
<1>4. /\ request' \in Request
      /\ request'.step = "save identity" /\ request'.wallet = w
      /\ request'.kind # "rotate"
  BY <1>1, <1>2 DEF Request, Steps, IInv, RequestInv, Before
<1>5. TypeOK' /\ OwnerKeysOnDisk' /\ FilesFollowTheLog'
  BY <1>1, <1>4, FilesStay DEF IInv, TypeOK
<1>6. w.key \in Keys /\ ~ w.methods
  BY <1>1, <1>2, <1>3
<1>7. RequestInv'
  BY <1>4, <1>6 DEF RequestInv, Before, After, Published
<1>. QED
  BY <1>5, <1>7 DEF IInv

LEMMA SaveNewKeyInvariant ==
    ASSUME IInv, NEW k \in ServerKeys, SaveNewKey(k) PROVE IInv'
<1>. DEFINE w == [request.wallet EXCEPT !.key = k]
<1>1. /\ request.step = "new key"
      /\ request' = [request EXCEPT !.step = "commit", !.wallet = w]
      /\ keyFiles' = keyFiles \cup {k}
      /\ UNCHANGED <<wallet, profileFiles, names>>
      /\ request \in Request /\ k \in Keys
      /\ request.wallet.alias \in Aliases
  BY DEF SaveNewKey, IInv, TypeOK, Keys, Request, RequestInv
<1>2. w \in WalletState /\ w.key = k /\ w.alias = request.wallet.alias
  BY <1>1 DEF Request, WalletState
<1>. HIDE DEF w
<1>3. /\ request' \in Request
      /\ request'.step = "commit" /\ request'.wallet = w
  BY <1>1, <1>2 DEF Request, Steps
<1>4. TypeOK' /\ OwnerKeysOnDisk' /\ FilesFollowTheLog'
  BY <1>1, <1>3, FilesStay DEF IInv, TypeOK
<1>5. /\ request'.step = "commit"
      /\ request'.wallet.key = k /\ k \in keyFiles' /\ k \in Keys
      /\ request'.wallet.alias \in Aliases
  BY <1>1, <1>2, <1>3
<1>6. RequestInv'
  BY <1>5 DEF RequestInv, Before, After
<1>. QED
  BY <1>4, <1>6 DEF IInv

\* wallet.json gets its identity.
LEMMA SaveIdentityInvariant == ASSUME IInv, SaveIdentity PROVE IInv'
<1>. DEFINE w == request.wallet
<1>1. /\ request.step = "save identity" /\ wallet' = w
      /\ request' = [request EXCEPT !.step = "apply"]
      /\ UNCHANGED <<keyFiles, profileFiles, names>>
      /\ request \in Request /\ w \in WalletState
      /\ Published(w) /\ w.key \in Keys
  BY DEF SaveIdentity, Step, IInv, TypeOK, RequestInv, Before, Request
<1>2. /\ request' \in Request
      /\ request'.step = "apply" /\ request'.wallet = w
      /\ request'.kind # "rotate"
  BY <1>1 DEF Request, Steps, IInv, RequestInv, Before
<1>. HIDE DEF w
<1>3. TypeOK'
  BY <1>1, <1>2 DEF IInv, TypeOK
<1>4. OwnerKeysOnDisk'
  BY <1>1 DEF IInv, OwnerKeysOnDisk
<1>5. FilesFollowTheLog'
  BY <1>1 DEF IInv, FilesFollowTheLog, Published
<1>6. RequestInv'
  BY <1>1, <1>2 DEF RequestInv, Before, After, Published
<1>. QED
  BY <1>3, <1>4, <1>5, <1>6 DEF IInv

\* The request's changes are made in memory.
LEMMA ApplyInvariant == ASSUME IInv, Apply PROVE IInv'
<1>. DEFINE w == Applied
<1>1. /\ request.step = "apply" /\ request \in Request
      /\ request.wallet \in WalletState /\ request.wallet.key \in Keys
      /\ Published(request.wallet)
      /\ request.kind \in {"update", "verify", "methods", "rotate"}
  BY DEF Apply, IInv, TypeOK, RequestInv, Before, Request, Kinds
<1>2. request.kind # "rotate"
  BY <1>1 DEF IInv, RequestInv, Before
<1>3. /\ w \in WalletState /\ w.key = request.wallet.key /\ w.alias # None
  BY <1>1, <1>2 DEF Apply, Applied, WalletState, Request
<1>4. /\ request' = [request EXCEPT
                       !.step = IF w.methods THEN "identity key" ELSE "save profile",
                       !.wallet = w]
      /\ UNCHANGED <<keyFiles, wallet, profileFiles, names>>
  BY DEF Apply, files
<1>. HIDE DEF w
<1>5. /\ request' \in Request /\ request'.wallet = w
      /\ \/ request'.step = "identity key"
         \/ request'.step = "save profile" /\ ~ w.methods
  BY <1>1, <1>3, <1>4 DEF Request, Steps
<1>6. TypeOK' /\ OwnerKeysOnDisk' /\ FilesFollowTheLog'
  BY <1>4, <1>5, FilesStay DEF IInv, TypeOK
<1>7. w.key \in Keys /\ w.alias \in Aliases
  BY <1>1, <1>3 DEF WalletState
<1>8. RequestInv'
  BY <1>5, <1>7 DEF RequestInv, Before, After, Published
<1>. QED
  BY <1>6, <1>8 DEF IInv

\* The signing key is on disk, if it was not before.
LEMMA LoadIdentityKeyInvariant == ASSUME IInv, LoadIdentityKey PROVE IInv'
<1>1. /\ request.step = "identity key" /\ request \in Request
      /\ request.wallet \in WalletState
      /\ request.wallet.key \in Keys /\ request.wallet.alias \in Aliases
      /\ UNCHANGED <<wallet, profileFiles, names>>
      /\ keyFiles \subseteq ServerKeys
  BY DEF LoadIdentityKey, IInv, TypeOK, RequestInv, Request
<1>2. \E w \in WalletState :
        /\ w.key \in keyFiles' /\ w.key \in Keys /\ w.alias \in Aliases
        /\ keyFiles \subseteq keyFiles' /\ keyFiles' \subseteq ServerKeys
        /\ request' \in Request
        /\ request'.step = "commit" /\ request'.wallet = w
  <2>1. CASE request.wallet.key \in keyFiles
    BY <1>1, <2>1 DEF LoadIdentityKey, Step, Request, Steps
  <2>2. CASE request.wallet.key \notin keyFiles
    <3>1. PICK k \in ServerKeys \ keyFiles :
            /\ keyFiles' = keyFiles \cup {k}
            /\ request' = [request EXCEPT !.step = "commit", !.wallet.key = k]
      BY <1>1, <2>2 DEF LoadIdentityKey
    <3>. DEFINE w == [request.wallet EXCEPT !.key = k]
    <3>2. w \in WalletState /\ w.key = k /\ w.alias \in Aliases /\ k \in Keys
      BY <1>1 DEF WalletState, Keys
    <3>3. request' = [request EXCEPT !.step = "commit", !.wallet = w]
      BY <1>1, <3>1 DEF Request
    <3>. HIDE DEF w
    <3>4. request' \in Request /\ request'.step = "commit" /\ request'.wallet = w
      BY <1>1, <3>2, <3>3 DEF Request, Steps
    <3>. QED
      BY <1>1, <3>1, <3>2, <3>4
  <2>. QED
    BY <2>1, <2>2
<1>3. TypeOK' /\ OwnerKeysOnDisk' /\ FilesFollowTheLog'
  BY <1>1, <1>2, FilesStay DEF IInv, TypeOK
<1>4. RequestInv'
  BY <1>2 DEF RequestInv, Before, After
<1>. QED
  BY <1>3, <1>4 DEF IInv

\* What a commit changes: one name, whose keys gain the request's.
LEMMA CommitEffect ==
    ASSUME IInv, Commit
    PROVE  /\ request.wallet.alias \in Aliases /\ request.wallet.key \in keyFiles
           /\ names' = [names EXCEPT ![request.wallet.alias] =
                          Append(@, request.wallet.key)]
           /\ names' \in [Aliases -> Seq(Keys)]
           /\ \A a \in Aliases :
                Range(names'[a]) = Range(names[a]) \cup
                    (IF a = request.wallet.alias THEN {request.wallet.key} ELSE {})
           /\ names'[request.wallet.alias][Len(names'[request.wallet.alias])]
                = request.wallet.key
<1>1. /\ request.wallet.alias \in Aliases /\ request.wallet.key \in keyFiles
      /\ request.wallet.key \in Keys
      /\ names \in [Aliases -> Seq(Keys)]
      /\ names' = [names EXCEPT ![request.wallet.alias] =
                          Append(names[request.wallet.alias], request.wallet.key)]
  BY DEF Commit, IInv, TypeOK, RequestInv
<1>2. \A a \in Aliases :
        names'[a] = IF a = request.wallet.alias
                    THEN Append(names[a], request.wallet.key) ELSE names[a]
  BY <1>1
<1>3. \A a \in Aliases :
        LET t == Append(names[a], request.wallet.key)
        IN  /\ t \in Seq(Keys)
            /\ Range(t) = Range(names[a]) \cup {request.wallet.key}
            /\ t[Len(t)] = request.wallet.key
  BY <1>1, RangeOfAppend
<1>4. names' \in [Aliases -> Seq(Keys)]
  BY <1>1, <1>2, <1>3
<1>. QED
  BY <1>1, <1>2, <1>3, <1>4

LEMMA CommitInvariant == ASSUME IInv, Commit PROVE IInv'
<1>. DEFINE w == request.wallet
<1>1. /\ request.step = "commit" /\ request \in Request /\ w \in WalletState
      /\ UNCHANGED <<keyFiles, wallet, profileFiles>>
      /\ request' = [request EXCEPT !.step = IF request.kind \in {"verify", "methods"}
                                             THEN "save profile" ELSE "save wallet"]
  BY DEF Commit, Step, files, IInv, TypeOK, Request
<1>2. /\ w.alias \in Aliases /\ w.key \in keyFiles /\ w.key \in Keys
      /\ names' \in [Aliases -> Seq(Keys)]
      /\ \A a \in Aliases : Range(names[a]) \subseteq Range(names'[a])
      /\ \A a \in Aliases : Range(names'[a]) \subseteq Range(names[a]) \cup {w.key}
      /\ w.key \in Range(names'[w.alias])
  BY CommitEffect, <1>1 DEF IInv, RequestInv
<1>3. /\ request' \in Request /\ request'.wallet = w
      /\ request'.step \in {"save profile", "save wallet"}
  BY <1>1 DEF Request, Steps
<1>. HIDE DEF w
<1>4. TypeOK'
  BY <1>1, <1>2, <1>3 DEF IInv, TypeOK
<1>5. OwnerKeysOnDisk'
  BY <1>1, <1>2 DEF IInv, OwnerKeysOnDisk
<1>6. FilesFollowTheLog'
  <2>1. Published(wallet)'
    BY <1>1, <1>2, PublishedStays, NoneIsNothing, Published(wallet), wallet \in WalletState
       DEF IInv, TypeOK, FilesFollowTheLog, Published, WalletState
  <2>2. ASSUME NEW k \in Keys, profileFiles'[k] # None PROVE Published(profileFiles[k])'
    <3>1. profileFiles[k] \in WalletState /\ Published(profileFiles[k])
      BY <1>1, <2>2 DEF IInv, TypeOK, FilesFollowTheLog
    <3>. QED
      BY <1>1, <1>2, <3>1, NoneIsNothing DEF Published, WalletState
  <2>. QED
    BY <1>1, <2>1, <2>2 DEF FilesFollowTheLog
<1>7. Published(request.wallet)'
  BY <1>2, <1>3, NoneIsNothing DEF Published
<1>8. RequestInv'
  BY <1>2, <1>3, <1>7 DEF RequestInv, Before, After
<1>. QED
  BY <1>4, <1>5, <1>6, <1>8 DEF IInv

\* The two saves after a commit.
LEMMA SaveProfileInvariant == ASSUME IInv, SaveProfile PROVE IInv'
<1>. DEFINE w == request.wallet
<1>1. /\ request.step = "save profile" /\ request \in Request
      /\ w \in WalletState /\ Published(w)
      /\ w.key \in Keys /\ w.alias \in Aliases
      /\ profileFiles' = [profileFiles EXCEPT ![w.key] = w]
      /\ request' = [request EXCEPT !.step = "save wallet"]
      /\ UNCHANGED <<keyFiles, wallet, names>>
  BY DEF SaveProfile, Step, IInv, TypeOK, RequestInv, After, Request
<1>2. /\ request' \in Request
      /\ request'.step = "save wallet" /\ request'.wallet = w
  BY <1>1 DEF Request, Steps
<1>. HIDE DEF w
<1>3. TypeOK'
  BY <1>1, <1>2 DEF IInv, TypeOK
<1>4. OwnerKeysOnDisk'
  BY <1>1 DEF IInv, OwnerKeysOnDisk
<1>5. FilesFollowTheLog'
  BY <1>1 DEF IInv, TypeOK, FilesFollowTheLog, Published
<1>6. RequestInv'
  BY <1>1, <1>2 DEF RequestInv, Before, After, Published
<1>. QED
  BY <1>3, <1>4, <1>5, <1>6 DEF IInv

LEMMA SaveWalletInvariant == ASSUME IInv, SaveWallet PROVE IInv'
<1>1. /\ request.wallet \in WalletState /\ Published(request.wallet)
      /\ wallet' = request.wallet
      /\ UNCHANGED <<keyFiles, profileFiles, names>>
      /\ request' = NoRequest
  BY DEF SaveWallet, IInv, TypeOK, RequestInv, After, Request
<1>2. request' \in Request /\ request'.step = "idle"
  BY <1>1 DEF NoRequest, DefaultWallet, Request, Steps, Kinds, WalletState
<1>3. TypeOK'
  BY <1>1, <1>2 DEF IInv, TypeOK
<1>4. OwnerKeysOnDisk'
  BY <1>1 DEF IInv, OwnerKeysOnDisk
<1>5. FilesFollowTheLog'
  BY <1>1 DEF IInv, FilesFollowTheLog, Published
<1>6. RequestInv'
  BY <1>2 DEF RequestInv, Before, After
<1>. QED
  BY <1>3, <1>4, <1>5, <1>6 DEF IInv

LEMMA FailInvariant == ASSUME IInv, Fail PROVE IInv'
<1>1. /\ UNCHANGED <<keyFiles, wallet, profileFiles, names>>
      /\ request' = NoRequest
  BY DEF Fail, files
<1>2. request' \in Request /\ request'.step = "idle"
  BY <1>1 DEF NoRequest, DefaultWallet, Request, Steps, Kinds, WalletState
<1>3. TypeOK' /\ OwnerKeysOnDisk' /\ FilesFollowTheLog'
  BY <1>1, <1>2, FilesStay DEF IInv, TypeOK
<1>4. RequestInv'
  BY <1>2 DEF RequestInv, Before, After
<1>. QED
  BY <1>3, <1>4 DEF IInv

-----------------------------------------------------------------------------
\* The inductive invariant holds in every reachable state.
THEOREM InductiveInvariant == Spec => []IInv
<1>1. Init => IInv
  BY InitInvariant
<1>2. IInv /\ [Next]_vars => IInv'
  <2>. SUFFICES ASSUME IInv, [Next]_vars PROVE IInv'
    OBVIOUS
  <2>1. ASSUME NEW kind \in Kinds \ {"rotate"}, NEW pk \in Keys \cup {None},
               NEW alias \in Aliases \cup {None}, NEW methods \in BOOLEAN,
               Receive(kind, pk, alias, methods)
        PROVE IInv'
    BY <2>1, ReceiveInvariant
  <2>2. CASE ReceiveRotation
    BY <2>2, ReceiveRotationInvariant
  <2>3. ASSUME NEW k \in ServerKeys, CreateIdentity(k) PROVE IInv'
    BY <2>3, CreateIdentityInvariant
  <2>4. ASSUME NEW k \in ServerKeys, SaveNewKey(k) PROVE IInv'
    BY <2>4, SaveNewKeyInvariant
  <2>5. CASE SaveIdentity
    BY <2>5, SaveIdentityInvariant
  <2>6. CASE Apply
    BY <2>6, ApplyInvariant
  <2>7. CASE LoadIdentityKey
    BY <2>7, LoadIdentityKeyInvariant
  <2>8. CASE Commit
    BY <2>8, CommitInvariant
  <2>9. CASE SaveProfile
    BY <2>9, SaveProfileInvariant
  <2>10. CASE SaveWallet
    BY <2>10, SaveWalletInvariant
  <2>11. CASE Fail
    BY <2>11, FailInvariant
  <2>12. CASE UNCHANGED vars
    BY <2>12 DEF vars, IInv, TypeOK, OwnerKeysOnDisk, FilesFollowTheLog,
                 RequestInv, Published
  <2>. QED
    BY <2>1, <2>2, <2>3, <2>4, <2>5, <2>6, <2>7, <2>8, <2>9, <2>10, <2>11,
       <2>12 DEF Next
<1>. QED
  BY <1>1, <1>2, PTL DEF Spec

\* Every variable has its type, in every reachable state.
THEOREM TypeCorrectness == Spec => []TypeOK
<1>1. IInv => TypeOK
  BY DEF IInv
<1>. QED
  BY <1>1, InductiveInvariant, PTL

\* No owner's key is ever without its file, wherever requests stop.
THEOREM NoOwnerKeyLost == Spec => []OwnerKeysOnDisk
<1>1. IInv => OwnerKeysOnDisk
  BY DEF IInv
<1>. QED
  BY <1>1, InductiveInvariant, PTL

\* wallet.json and the profile files never run ahead of the log.
THEOREM FilesNeverAhead == Spec => []FilesFollowTheLog
<1>1. IInv => FilesFollowTheLog
  BY DEF IInv
<1>. QED
  BY <1>1, InductiveInvariant, PTL

=============================================================================
