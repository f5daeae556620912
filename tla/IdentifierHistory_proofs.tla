---------------------- MODULE IdentifierHistory_proofs ----------------------
(***************************************************************************)
(* Proofs about IdentifierHistory, for any sets of keys and identifiers    *)
(* and histories of any length.                                            *)
(***************************************************************************)
EXTENDS IdentifierHistory, WellFoundedInduction, TLAPS

\* The history replays, and every event in it is well formed.
IInv ==
    /\ history \in Seq(NameEvent)
    /\ history # <<>> => VerifyIdentifierHistory(history)

-----------------------------------------------------------------------------
(* The key in authority.                                                   *)

LEMMA Least ==
    ASSUME NEW T, T \subseteq Nat, T # {}
    PROVE  \E x \in T : \A y \in T : x <= y
  <1> DEFINE R == OpToRel(<, Nat)
  <1>1. IsWellFoundedOn(R, Nat)
    BY NatLessThanWellFounded
  <1>2. \A x, y \in Nat : y < x => <<y, x>> \in R
    BY DEF OpToRel
  <1> HIDE DEF R
  <1>3. PICK x \in T : \A y \in T : ~ (<<y, x>> \in R)
    BY <1>1, WFMin
  <1>4. \A y \in T : x <= y
    <2> SUFFICES ASSUME NEW y \in T
                 PROVE  x <= y
      OBVIOUS
    <2>1. x \in Nat /\ y \in Nat /\ ~ (y < x)
      BY <1>2, <1>3
    <2> QED
      BY <2>1
  <1> QED
    BY <1>4

\* One more event adds itself to the rotations before, or nothing.
LEMMA LastRotation ==
    ASSUME NEW h, NEW i \in Nat, i > 1, h[i - 1].action = "RotateKey"
    PROVE  AuthorizedKey(h, i) = h[i - 1].key
  <1> DEFINE rotations == RotationsBefore(h, i)
             IsLast(j) == \A k \in rotations : k <= j
  <1>1. i - 1 \in rotations /\ IsLast(i - 1)
    BY DEF RotationsBefore
  <1>2. \A j \in rotations : IsLast(j) => j = i - 1
    BY <1>1 DEF RotationsBefore
  <1>3. (CHOOSE j \in rotations : IsLast(j)) = i - 1
    BY <1>1, <1>2
  <1> QED
    BY <1>1, <1>3 DEF AuthorizedKey

LEMMA NoRotation ==
    ASSUME NEW h, NEW i \in Nat, i > 1, h[i - 1].action # "RotateKey"
    PROVE  AuthorizedKey(h, i) = AuthorizedKey(h, i - 1)
  <1>1. RotationsBefore(h, i) = RotationsBefore(h, i - 1)
    BY DEF RotationsBefore
  <1> QED
    BY <1>1 DEF AuthorizedKey

\* In a history that replays, the loop's authorized_key is the key of the
\* event just read.
LEMMA AuthorityIsLastKey ==
    ASSUME NEW h, NEW i \in Nat, i > 1, HistoryStep(h, i - 1)
    PROVE  AuthorizedKey(h, i) = h[i - 1].key
  <1>1. CASE h[i - 1].action = "RotateKey"
    BY <1>1, LastRotation
  <1>2. CASE h[i - 1].action # "RotateKey"
    BY <1>2, NoRotation DEF HistoryStep, Authorised
  <1> QED
    BY <1>1, <1>2

LEMMA LatestRotation ==
    ASSUME NEW h, NEW i \in Nat, RotationsBefore(h, i) # {}
    PROVE  \E j \in RotationsBefore(h, i) :
             \A k \in RotationsBefore(h, i) : k <= j
  <1> DEFINE T == {i - j : j \in RotationsBefore(h, i)}
  <1>1. \A j \in RotationsBefore(h, i) : j \in Nat /\ j < i
    BY DEF RotationsBefore
  <1>2. T \subseteq Nat /\ T # {}
    BY <1>1
  <1>3. PICK x \in T : \A y \in T : x <= y
    BY <1>2, Least
  <1>4. PICK j \in RotationsBefore(h, i) : x = i - j
    BY <1>3
  <1>5. \A k \in RotationsBefore(h, i) : i - j <= i - k
    BY <1>3, <1>4
  <1> QED
    BY <1>1, <1>5

\* What the loop sees of a history's first i events does not depend on what
\* follows them.
LEMMA StepOfPrefix ==
    ASSUME NEW h \in Seq(NameEvent), NEW e, NEW i \in 1 .. Len(h)
    PROVE  HistoryStep(Append(h, e), i) <=> HistoryStep(h, i)
  <1> DEFINE g == Append(h, e)
  <1>1. \A j \in 1 .. i : g[j] = h[j]
    OBVIOUS
  <1> HIDE DEF g
  <1>2. RotationsBefore(g, i) = RotationsBefore(h, i)
    BY <1>1 DEF RotationsBefore
  <1>3. \A j \in RotationsBefore(h, i) : j \in 1 .. i
    BY DEF RotationsBefore
  <1>4. AuthorizedKey(g, i) = AuthorizedKey(h, i)
    <2>1. CASE RotationsBefore(h, i) = {}
      BY <1>1, <1>2, <2>1 DEF AuthorizedKey
    <2>2. CASE RotationsBefore(h, i) # {}
      <3> DEFINE IsLast(j) == \A k \in RotationsBefore(h, i) : k <= j
                 last == CHOOSE j \in RotationsBefore(h, i) : IsLast(j)
      <3>1. \E j \in RotationsBefore(h, i) : IsLast(j)
        BY <2>2, LatestRotation
      <3>2. last \in RotationsBefore(h, i)
        BY <3>1
      <3>3. AuthorizedKey(g, i) = g[last].key /\ AuthorizedKey(h, i) = h[last].key
        BY <1>2, <2>2 DEF AuthorizedKey
      <3> QED
        BY <1>1, <1>3, <3>2, <3>3
    <2> QED
      BY <2>1, <2>2
  <1>5. i > 1 => i - 1 \in 1 .. i
    OBVIOUS
  <1> QED
    BY <1>1, <1>4, <1>5 DEF HistoryStep, g

\* A history that replays still does with an event at its end exactly when
\* the event is a valid successor of its head.
LEMMA ReplayIsSuccessor ==
    ASSUME NEW h \in Seq(NameEvent), NEW e, VerifyIdentifierHistory(h),
           e.id = h[1].id
    PROVE  VerifyIdentifierHistory(Append(h, e)) <=> Successor(h[Len(h)], e)
  <1> DEFINE g == Append(h, e)
             n == Len(h)
  <1>1. /\ n \in Nat /\ n > 0 /\ Len(g) = n + 1 /\ g[n + 1] = e /\ g[n] = h[n]
        /\ g[1] = h[1]
    BY DEF VerifyIdentifierHistory
  <1>2. h[1].action = "Register" /\ h[1].seq = 0 /\ HistoryStep(h, n)
    BY <1>1 DEF VerifyIdentifierHistory
  <1>3. \A i \in 1 .. n : HistoryStep(g, i)
    BY StepOfPrefix DEF VerifyIdentifierHistory
  <1> HIDE DEF g, n
  <1>4. VerifyIdentifierHistory(g) <=> HistoryStep(g, n + 1)
    <2>1. \A i \in 1 .. n + 1 : i \in 1 .. n \/ i = n + 1
      BY <1>1
    <2>2. n + 1 \in 1 .. n + 1
      BY <1>1
    <2> QED
      BY <1>1, <1>2, <1>3, <2>1, <2>2 DEF VerifyIdentifierHistory
  <1>5. AuthorizedKey(g, n + 1) = h[n].key
    <2>1. HistoryStep(g, n)
      BY <1>1, <1>3
    <2>2. n + 1 \in Nat /\ n + 1 > 1 /\ (n + 1) - 1 = n
      BY <1>1
    <2> QED
      BY <1>1, <2>1, <2>2, AuthorityIsLastKey
  <1>6. h[n].id = h[1].id /\ h[n].seq = n - 1
    BY <1>2 DEF HistoryStep
  <1>7. HistoryStep(g, n + 1) <=>
          /\ e.id = h[1].id
          /\ e.seq = n
          /\ e.prev = h[n].hash
          /\ h[n].action # "Revoke"
          /\ e.action # "RecoverKey"
          /\ Authorised(e, h[n].key)
    <2>1. (n + 1) - 1 = n /\ n + 1 > 1 /\ n + 1 # 1
      BY <1>1
    <2> QED
      BY <1>1, <1>5, <2>1 DEF HistoryStep
  <1>8. Successor(h[n], e) <=>
          /\ e.id = h[1].id
          /\ e.seq = n
          /\ e.prev = h[n].hash
          /\ h[n].action # "Revoke"
          /\ e.action # "RecoverKey"
          /\ Authorised(e, h[n].key)
    BY <1>1, <1>6 DEF Successor
  <1> QED
    BY <1>4, <1>7, <1>8 DEF g, n

LEMMA ReplayIsGenesis ==
    ASSUME NEW e
    PROVE  VerifyIdentifierHistory(<<e>>) <=> Genesis(e)
  <1> DEFINE g == <<e>>
  <1>1. Len(g) = 1 /\ g[1] = e /\ 1 .. 1 = {1}
    OBVIOUS
  <1> HIDE DEF g
  <1>2. RotationsBefore(g, 1) = {}
    BY DEF RotationsBefore
  <1>3. AuthorizedKey(g, 1) = e.key
    BY <1>1, <1>2 DEF AuthorizedKey
  <1>4. HistoryStep(g, 1) <=> /\ e.seq = 0
                              /\ e.prev = None
                              /\ e.action # "RecoverKey"
                              /\ Authorised(e, e.key)
    BY <1>1, <1>3 DEF HistoryStep
  <1> QED
    BY <1>1, <1>4 DEF VerifyIdentifierHistory, Genesis, Authorised, g

-----------------------------------------------------------------------------
LEMMA ProposedType ==
    ASSUME IInv, Len(history) < MaxHistory, NEW e \in Proposals
    PROVE  e \in NameEvent
  <1>1. Len(history) \in Nat /\ Len(history) + 1 \in Hashes
    BY MaxHistoryIsNat DEF IInv
  <1>2. Prevs \subseteq Hashes \cup {None}
    <2> SUFFICES ASSUME NEW i \in DOMAIN history
                 PROVE  history[i].hash \in Hashes
      BY DEF Prevs
    <2>1. history[i] \in NameEvent
      BY DEF IInv
    <2> QED
      BY <2>1 DEF NameEvent
  <1>3. Seqs \subseteq Nat
    BY MaxHistoryIsNat DEF Seqs
  <1>4. CASE e \in Proposed(Actions \ {"RotateKey"}, {None})
    BY <1>1, <1>2, <1>3, <1>4 DEF Proposed, NameEvent
  <1>. DEFINE made == [old : Keys, new : Keys, id : Ids, prev : Prevs, seq : Seqs]
  <1>5. made \subseteq Rotation
    BY <1>2, <1>3 DEF Rotation
  <1>. HIDE DEF made
  <1>6. CASE e \in Proposed({"RotateKey"}, {None} \cup made)
    BY <1>1, <1>2, <1>3, <1>5, <1>6 DEF Proposed, NameEvent, Actions
  <1> QED
    BY <1>4, <1>6 DEF Proposals, made

\* Whatever is proposed, the history that was accepted replays.
THEOREM InductiveInvariant == Spec => []IInv
  <1>1. Init => IInv
    BY DEF Init, IInv
  <1>2. IInv /\ [Next]_history => IInv'
    <2> SUFFICES ASSUME IInv, Next
                 PROVE  IInv'
      BY DEF IInv
    <2>1. PICK e \in Proposals : AppendEvent(e)
      BY DEF Next
    <2>2. e \in NameEvent
      BY ProposedType DEF Next
    <2> QED
      BY <2>1, <2>2 DEF IInv, AppendEvent, Accepts
  <1> QED
    BY <1>1, <1>2, PTL DEF Spec

\* A history holds only well-formed events.
THEOREM TypeCorrectness == Spec => []TypeOK
  <1>1. IInv => TypeOK
    BY DEF IInv, TypeOK
  <1> QED
    BY <1>1, InductiveInvariant, PTL

\* A server that keeps only heads and a client that replays whole histories
\* accept the same events.
THEOREM IncrementalIsReplay == Spec => []VerifiersAgree
  <1>1. IInv => VerifiersAgree
    <2> SUFFICES ASSUME IInv, NEW e \in Proposals,
                        history # <<>> => e.id = history[1].id
                 PROVE  VerifyIdentifierHistory(Append(history, e)) <=>
                          IF history = <<>> THEN Genesis(e)
                                            ELSE Successor(history[Len(history)], e)
      BY DEF VerifiersAgree
    <2>1. CASE history = <<>>
      <3>1. Append(history, e) = <<e>>
        BY <2>1
      <3> QED
        BY <2>1, <3>1, ReplayIsGenesis
    <2>2. CASE history # <<>>
      BY <2>2, ReplayIsSuccessor DEF IInv
    <2> QED
      BY <2>1, <2>2
  <1> QED
    BY <1>1, InductiveInvariant, PTL

\* Nothing can be appended to a history that holds a revocation.
THEOREM RevocationIsTerminal == Spec => []RevocationTerminal
  <1>1. IInv => RevocationTerminal
    <2> SUFFICES ASSUME IInv, NEW i \in DOMAIN history,
                        history[i].action = "Revoke",
                        NEW e \in Proposals, Accepts(e)
                 PROVE  FALSE
      BY DEF RevocationTerminal
    <2>1. /\ Len(history) \in Nat /\ i \in 1 .. Len(history) /\ history # <<>>
          /\ history \in Seq(NameEvent)
      BY DEF IInv
    <2>2. VerifyIdentifierHistory(history)
      BY <2>1 DEF IInv
    <2>3. Successor(history[Len(history)], e)
      BY <2>1, <2>2, ReplayIsSuccessor DEF Accepts
    <2>4. CASE i = Len(history)
      BY <2>3, <2>4 DEF Successor
    <2>5. CASE i < Len(history)
      <3>1. HistoryStep(history, i + 1)
        BY <2>1, <2>2, <2>5 DEF VerifyIdentifierHistory
      <3> QED
        BY <2>1, <3>1 DEF HistoryStep
    <2> QED
      BY <2>1, <2>4, <2>5
  <1> QED
    BY <1>1, InductiveInvariant, PTL

\* Every key of a history descends from the registered one by rotations that
\* the key then in authority signed, and it signed the event after its own.
THEOREM OwnershipIsTraceable == Spec => []OwnershipTraceable
  <1>1. IInv => OwnershipTraceable
    <2> SUFFICES ASSUME IInv, NEW i \in DOMAIN history
                 PROVE  /\ history[i].key \in Heirs(i)
                        /\ i > 1 => history[i].signer = history[i - 1].key
      BY DEF OwnershipTraceable
    <2> DEFINE h == history
               rotations == RotationsBefore(h, i + 1)
               IsLast(j) == \A k \in rotations : k <= j
               last == CHOOSE j \in rotations : IsLast(j)
    <2>1. Len(h) \in Nat /\ i \in 1 .. Len(h) /\ h # <<>>
      BY DEF IInv
    <2>2. /\ h[1].action = "Register"
          /\ \A j \in 1 .. i : HistoryStep(h, j)
      BY <2>1 DEF IInv, VerifyIdentifierHistory
    <2>3. \A j \in 2 .. i : AuthorizedKey(h, j) = h[j - 1].key
      <3> SUFFICES ASSUME NEW j \in 2 .. i
                   PROVE  AuthorizedKey(h, j) = h[j - 1].key
        OBVIOUS
      <3>1. j \in Nat /\ j > 1 /\ j - 1 \in 1 .. i
        BY <2>1
      <3> QED
        BY <2>2, <3>1, AuthorityIsLastKey
    <2>4. AuthorizedKey(h, i + 1) = h[i].key
      <3>1. i + 1 \in Nat /\ i + 1 > 1 /\ (i + 1) - 1 = i /\ HistoryStep(h, i)
        BY <2>1, <2>2
      <3> QED
        BY <3>1, AuthorityIsLastKey
    <2>5. i > 1 => h[i].signer = h[i - 1].key
      <3>1. i > 1 => i \in 2 .. i
        BY <2>1
      <3>2. HistoryStep(h, i)
        BY <2>1, <2>2
      <3> QED
        BY <2>3, <3>1, <3>2 DEF HistoryStep, Authorised
    <2>6. h[i].key \in Heirs(i)
      <3>1. CASE rotations = {}
        BY <2>4, <3>1 DEF AuthorizedKey, Heirs
      <3>2. CASE rotations # {}
        <4>1. last \in rotations
          <5>1. \E j \in rotations : IsLast(j)
            BY <2>1, <3>2, LatestRotation
          <5> QED
            BY <5>1
        <4>2. h[i].key = h[last].key
          BY <2>4, <3>2 DEF AuthorizedKey
        <4> HIDE DEF last
        <4>3. last \in 1 .. i /\ h[last].action = "RotateKey"
          BY <2>1, <4>1 DEF RotationsBefore
        <4>4. last \in 2 .. i
          BY <2>1, <2>2, <4>3
        <4>5. /\ h[last].rotation.new = h[last].key
              /\ h[last].rotation.old = h[last - 1].key
          BY <2>2, <2>3, <4>3, <4>4 DEF HistoryStep, Authorised, RotationProof
        <4> QED
          BY <4>2, <4>3, <4>4, <4>5 DEF Heirs
      <3> QED
        BY <3>1, <3>2
    <2> QED
      BY <2>5, <2>6
  <1> QED
    BY <1>1, InductiveInvariant, PTL

=============================================================================
