------------------------ MODULE CheckpointPins_proofs ------------------------
(***************************************************************************)
(* Proofs about CheckpointPins.  What a resolve accepts is a fact about    *)
(* sequences, for logs of any length.  That the pins file stays readable   *)
(* and never goes back holds while one resolve runs at a time; the runs    *)
(* pins_race and pins_torn show that it does not otherwise, and the last   *)
(* section but one proves what still holds then.                           *)
(***************************************************************************)
EXTENDS CheckpointPins, FiniteSetTheorems, SequenceTheorems, WellFoundedInduction, TLAPS

Resolves == [step : Steps, cp : Seq(Entry), pin : Seq(Entry) \cup {None}, handle : Inodes \cup {None}]

\* A resolve under way holds a checkpoint, and a pin when it has loaded one.
HoldsInv ==
    \A r \in Resolvers :
        /\ resolver[r].step # "idle" => resolver[r].cp # <<>>
        /\ resolver[r].step = "verify" => resolver[r].pin \in Seq(Entry) /\ resolver[r].pin # <<>>

PinsInv == TypeOK /\ HoldsInv

LEMMA IdleIsTyped == Idle \in Resolves /\ Idle.step = "idle"
BY DEF Idle, Resolves, Steps

-----------------------------------------------------------------------------
(* The step of one resolve.                                                *)

LEMMA OneResolves ==
    ASSUME PinsInv, NEW r \in Resolvers, NEW to \in Resolves, resolver' = [resolver EXCEPT ![r] = to],
           to.step # "idle" => to.cp # <<>>,
           to.step = "verify" => to.pin \in Seq(Entry) /\ to.pin # <<>>
    PROVE  resolver' \in [Resolvers -> Resolves] /\ HoldsInv'
<1>1. resolver \in [Resolvers -> Resolves]
  BY DEF PinsInv, TypeOK, Resolves
<1>. QED
  BY <1>1 DEF PinsInv, HoldsInv

\* While every resolve holds at most one inode, one is left for the next.
LEMMA InodeIsFree ==
    ASSUME PinsInv, tmp = None
    PROVE  FreeInodes # {}
<1>. DEFINE handles == {resolver[r].handle : r \in Resolvers}
            f == [r \in Resolvers |-> resolver[r].handle]
<1>1. IsFiniteSet(handles) /\ Cardinality(handles) <= Cardinality(Resolvers)
  <2>1. f \in Surjection(Resolvers, handles)
    BY DEF Surjection
  <2>2. IsFiniteSet(Resolvers)
    BY InodesSuffice
  <2>. HIDE DEF f, handles
  <2>. QED
    BY <2>1, <2>2, FS_Surjection
<1>. HIDE DEF handles
<1>2. IsFiniteSet(handles \cup {path}) /\ Cardinality(handles \cup {path}) <= Cardinality(Resolvers) + 1
  <2>1. Cardinality(handles) \in Nat /\ Cardinality(Resolvers) \in Nat
    BY <1>1, InodesSuffice, FS_CardinalityType
  <2>2. /\ IsFiniteSet(handles \cup {path})
        /\ Cardinality(handles \cup {path}) = IF path \in handles THEN Cardinality(handles)
                                              ELSE Cardinality(handles) + 1
    BY <1>1, FS_AddElement
  <2>. QED
    BY <1>1, <2>1, <2>2
<1>3. ~ (Inodes \subseteq handles \cup {path})
  <2>1. SUFFICES ASSUME Inodes \subseteq handles \cup {path} PROVE FALSE
    OBVIOUS
  <2>2. Cardinality(Inodes) <= Cardinality(handles \cup {path})
    BY <1>2, <2>1, FS_Subset
  <2>3. /\ Cardinality(Inodes) \in Nat /\ Cardinality(Resolvers) \in Nat
        /\ Cardinality(handles \cup {path}) \in Nat
    BY <1>2, InodesSuffice, FS_CardinalityType
  <2>. QED
    BY <1>2, <2>2, <2>3, InodesSuffice
<1>4. FreeInodes = Inodes \ ({path, None} \cup handles)
  BY DEF FreeInodes, handles
<1>. QED
  BY <1>3, <1>4, InodesSuffice

\* The inode that is opened.
LEMMA OpensInode ==
    ASSUME PinsInv, NEW r \in Resolvers, OpenTmp(r)
    PROVE  /\ tmp' \in Inodes /\ data' = [data EXCEPT ![tmp'] = Empty]
           /\ resolver' = [resolver EXCEPT ![r] = [resolver[r] EXCEPT !.step = "write", !.handle = tmp']]
           /\ path # None /\ path # tmp => path # tmp'
           /\ UNCHANGED <<log, path>>
<1>. DEFINE i == IF tmp # None THEN tmp ELSE CHOOSE j \in FreeInodes : TRUE
<1>1. tmp' = i /\ data' = [data EXCEPT ![i] = Empty] /\ UNCHANGED <<log, path>>
  BY DEF OpenTmp
<1>2. i \in Inodes /\ (path # None /\ path # tmp => path # i)
  <2>1. CASE tmp # None
    BY <2>1 DEF PinsInv, TypeOK
  <2>2. CASE tmp = None
    BY <2>2, InodeIsFree DEF FreeInodes
  <2>. QED
    BY <2>1, <2>2
<1>3. resolver' = [resolver EXCEPT ![r].step = "write", ![r].handle = i]
  BY DEF OpenTmp
<1>4. resolver \in [Resolvers -> Resolves]
  BY DEF PinsInv, TypeOK, Resolves
<1>. HIDE DEF i
<1>5. resolver' = [resolver EXCEPT ![r] = [resolver[r] EXCEPT !.step = "write", !.handle = i]]
  BY <1>3, <1>4 DEF Resolves
<1>. QED
  BY <1>1, <1>2, <1>5

LEMMA InitPins == Init => PinsInv
<1>1. ASSUME Init PROVE resolver \in [Resolvers -> Resolves] /\ \A r \in Resolvers : resolver[r].step = "idle"
  BY <1>1, IdleIsTyped DEF Init
<1>. QED
  BY <1>1 DEF Init, PinsInv, TypeOK, Resolves, HoldsInv, Contents, Empty

LEMMA StepPins == PinsInv /\ [Next]_vars => PinsInv'
<1>. SUFFICES ASSUME PinsInv, [Next]_vars PROVE PinsInv'
  OBVIOUS
<1>0. /\ log \in Seq(Entry) /\ path \in Inodes \cup {None} /\ tmp \in Inodes \cup {None}
      /\ data \in [Inodes -> Contents] /\ resolver \in [Resolvers -> Resolves]
  BY DEF PinsInv, TypeOK, Resolves
<1>1. CASE UNCHANGED vars
  BY <1>1 DEF vars, PinsInv, TypeOK, HoldsInv
<1>2. ASSUME NEW e \in Entry, AppendEntry(e) PROVE PinsInv'
  BY <1>0, <1>2 DEF AppendEntry, files, PinsInv, TypeOK, HoldsInv
<1>3. CASE Restore
  <2>1. PICK n \in 1 .. Len(log) - 1 : log' = SubSeq(log, 1, n)
    BY <1>3 DEF Restore
  <2>2. log' \in Seq(Entry)
    BY <1>0, <2>1, SubSeqProperties
  <2>. QED
    BY <1>3, <2>2 DEF Restore, files, PinsInv, TypeOK, HoldsInv
<1>4. ASSUME NEW r \in Resolvers, Resolve(r) PROVE PinsInv'
  <2>0. /\ resolver[r] \in Resolves
        /\ resolver[r].step # "idle" => resolver[r].cp # <<>>
    BY <1>0 DEF PinsInv, HoldsInv
  <2>1. ASSUME NEW step \in Steps, resolver' = [resolver EXCEPT ![r].step = step],
               step # "verify", resolver[r].step # "idle",
               UNCHANGED <<log, path, tmp, data>>
        PROVE  PinsInv'
    <3>1. /\ [resolver[r] EXCEPT !.step = step] \in Resolves
          /\ [resolver[r] EXCEPT !.step = step].step = step
          /\ [resolver[r] EXCEPT !.step = step].cp = resolver[r].cp
      BY <2>0 DEF Resolves
    <3>2. resolver' \in [Resolvers -> Resolves] /\ HoldsInv'
      BY <2>0, <2>1, <3>1, OneResolves
    <3>. QED
      BY <1>0, <2>1, <3>2 DEF PinsInv, TypeOK, Resolves
  <2>2. CASE LoadLog(r)
    <3>. DEFINE to == [Idle EXCEPT !.step = "pins", !.cp = log]
    <3>1. to \in Resolves /\ to.step = "pins" /\ to.cp = log /\ log # <<>>
      BY <1>0, <2>2, IdleIsTyped DEF Resolves, Steps, LoadLog
    <3>2. resolver' = [resolver EXCEPT ![r] = to] /\ UNCHANGED <<log, files>>
      BY <2>2 DEF LoadLog
    <3>. HIDE DEF to
    <3>3. resolver' \in [Resolvers -> Resolves] /\ HoldsInv'
      BY <3>1, <3>2, OneResolves
    <3>. QED
      BY <1>0, <3>2, <3>3 DEF PinsInv, TypeOK, Resolves, files
  <2>3. CASE LoadPins(r)
    <3>1. CASE path = None
      BY <2>1, <2>3, <3>1 DEF LoadPins, files, Steps
    <3>2. CASE path # None
      <4>. DEFINE to == [resolver[r] EXCEPT !.step = "verify", !.pin = data[path]]
      <4>1. data[path] \in Seq(Entry) /\ data[path] # <<>>
        BY <1>0, <2>3, <3>2 DEF LoadPins, Readable, Contents, Empty
      <4>2. resolver' = [resolver EXCEPT ![r] = to]
        BY <1>0, <2>0, <2>3, <3>2 DEF LoadPins, Resolves
      <4>3. to \in Resolves /\ to.step = "verify" /\ to.cp = resolver[r].cp /\ to.pin = data[path]
        BY <2>0, <4>1 DEF Resolves, Steps
      <4>4. resolver[r].step # "idle"
        BY <2>3 DEF LoadPins
      <4>. HIDE DEF to
      <4>5. resolver' \in [Resolvers -> Resolves] /\ HoldsInv'
        BY <2>0, <4>1, <4>2, <4>3, <4>4, OneResolves
      <4>. QED
        BY <1>0, <2>3, <4>5 DEF LoadPins, files, PinsInv, TypeOK, Resolves
    <3>. QED
      BY <3>1, <3>2
  <2>4. CASE VerifyTransition(r)
    BY <2>1, <2>4 DEF VerifyTransition, files, Steps
  <2>5. CASE ReloadPins(r)
    BY <2>1, <2>5 DEF ReloadPins, files, Steps
  <2>6. CASE OpenTmp(r)
    <3>. DEFINE to == [resolver[r] EXCEPT !.step = "write", !.handle = tmp']
    <3>1. /\ tmp' \in Inodes /\ data' = [data EXCEPT ![tmp'] = Empty]
          /\ resolver' = [resolver EXCEPT ![r] = to] /\ UNCHANGED <<log, path>>
      BY <2>6, OpensInode
    <3>2. to \in Resolves /\ to.step = "write" /\ to.cp = resolver[r].cp
      BY <2>0, <3>1 DEF Resolves, Steps
    <3>3. resolver[r].step # "idle"
      BY <2>6 DEF OpenTmp
    <3>. HIDE DEF to
    <3>4. resolver' \in [Resolvers -> Resolves] /\ HoldsInv'
      BY <2>0, <3>1, <3>2, <3>3, OneResolves
    <3>5. data' \in [Inodes -> Contents]
      BY <1>0, <3>1 DEF Contents, Empty
    <3>. QED
      BY <1>0, <3>1, <3>4, <3>5 DEF PinsInv, TypeOK, Resolves
  <2>7. CASE WriteTmp(r)
    <3>1. /\ resolver' = [resolver EXCEPT ![r].step = "rename"] /\ resolver[r].step = "write"
          /\ UNCHANGED <<log, path, tmp>>
      BY <2>7 DEF WriteTmp
    <3>2. data' \in [Inodes -> Contents]
      <4>1. PICK text \in {Torn, resolver[r].cp} : data' = [data EXCEPT ![resolver[r].handle] = text]
        BY <2>7 DEF WriteTmp
      <4>2. text \in Contents
        BY <2>0 DEF Contents, Resolves
      <4>. QED
        BY <1>0, <4>1, <4>2
    <3>3. /\ [resolver[r] EXCEPT !.step = "rename"] \in Resolves
          /\ [resolver[r] EXCEPT !.step = "rename"].step = "rename"
          /\ [resolver[r] EXCEPT !.step = "rename"].cp = resolver[r].cp
      BY <2>0 DEF Resolves, Steps
    <3>4. resolver' \in [Resolvers -> Resolves] /\ HoldsInv'
      BY <2>0, <3>1, <3>3, OneResolves
    <3>. QED
      BY <1>0, <3>1, <3>2, <3>4 DEF PinsInv, TypeOK, Resolves
  <2>8. CASE RenameTmp(r) \/ Fail(r)
    <3>1. resolver' \in [Resolvers -> Resolves] /\ HoldsInv'
      BY <2>8, IdleIsTyped, OneResolves DEF RenameTmp, Fail
    <3>2. /\ path' \in Inodes \cup {None} /\ tmp' \in Inodes \cup {None}
          /\ UNCHANGED <<log, data>>
      BY <1>0, <2>8 DEF RenameTmp, Fail, files
    <3>. QED
      BY <1>0, <3>1, <3>2 DEF PinsInv, TypeOK, Resolves
  <2>. QED
    BY <1>4, <2>2, <2>3, <2>4, <2>5, <2>6, <2>7, <2>8 DEF Resolve
<1>. QED
  BY <1>1, <1>2, <1>3, <1>4 DEF Next

LEMMA PinsInvariant == Spec => []PinsInv
BY InitPins, StepPins, PTL DEF Spec

\* Log, files and resolves keep their types, and an inode is left for a resolve
\* that opens a temporary file, however many run at once.
THEOREM PinsTypeCorrectness == Spec => []TypeOK
BY PinsInvariant, PTL DEF PinsInv

-----------------------------------------------------------------------------
(* One resolve at a time.                                                  *)

\* The resolve under way compared its checkpoint with the pin that is still in
\* force, and the temporary file is its own.
SoloInv ==
    /\ PinsInv
    /\ \A r, q \in Resolvers : resolver[r].step # "idle" /\ resolver[q].step # "idle" => r = q
    /\ path # None => Readable(data[path]) /\ path # tmp
    /\ \A r \in Resolvers :
         /\ resolver[r].step = "verify" => path # None /\ resolver[r].pin = data[path]
         /\ resolver[r].step \in {"pin", "open", "write", "rename"} /\ path # None =>
              Extends(data[path], resolver[r].cp)
         /\ resolver[r].step = "write" => tmp # None /\ resolver[r].handle = tmp /\ data[tmp] = Empty
         /\ resolver[r].step = "rename" => tmp # None /\ data[tmp] = resolver[r].cp

LEMMA ExtendsItself == \A pin \in Seq(Entry) : Extends(pin, pin)
BY SubSeqFull DEF Extends

\* What follows the pin extends it.
LEMMA FollowsExtends ==
    ASSUME NEW pin \in Seq(Entry), NEW cp \in Seq(Entry), Follows(pin, cp)
    PROVE  Extends(pin, cp)
<1>1. Len(pin) \in Nat /\ Len(cp) \in Nat
  OBVIOUS
<1>. QED
  BY <1>1, ExtendsItself DEF Follows, Extends

\* A resolve goes on while the others are idle.
LEMMA SoloGoesOn ==
    ASSUME SoloInv, NEW r \in Resolvers, NEW to \in Resolves, resolver' = [resolver EXCEPT ![r] = to],
           resolver[r].step # "idle" \/ \A q \in Resolvers : resolver[q].step = "idle"
    PROVE  /\ resolver'[r] = to
           /\ \A q \in Resolvers : q # r => resolver'[q] = resolver[q] /\ resolver[q].step = "idle"
           /\ \A s, q \in Resolvers : resolver'[s].step # "idle" /\ resolver'[q].step # "idle" => s = q
<1>1. resolver \in [Resolvers -> Resolves]
  BY DEF SoloInv, PinsInv, TypeOK, Resolves
<1>. QED
  BY <1>1 DEF SoloInv

\* A step that leaves the files alone and keeps what is known of the checkpoint.
LEMMA SoloRead ==
    ASSUME SoloInv, PinsInv', NEW r \in Resolvers, NEW step \in Steps \ {"write", "rename"},
           resolver' = [resolver EXCEPT ![r].step = step], UNCHANGED <<path, tmp, data>>,
           resolver[r].step # "idle", step # "verify",
           step \in {"pin", "open"} /\ path # None => Extends(data[path], resolver[r].cp)
    PROVE  SoloInv'
<1>0. resolver[r] \in Resolves
  BY DEF SoloInv, PinsInv, TypeOK, Resolves
<1>. DEFINE to == [resolver[r] EXCEPT !.step = step]
<1>1. to \in Resolves /\ to.step = step /\ to.cp = resolver[r].cp
  BY <1>0 DEF Resolves
<1>2. resolver' = [resolver EXCEPT ![r] = to]
  OBVIOUS
<1>. HIDE DEF to
<1>. QED
  BY <1>1, <1>2, SoloGoesOn DEF SoloInv, Steps

LEMMA InitSolo == Init => SoloInv
<1>1. ASSUME Init PROVE \A r \in Resolvers : resolver[r].step = "idle"
  BY <1>1, IdleIsTyped DEF Init
<1>. QED
  BY <1>1, InitPins DEF Init, SoloInv

LEMMA StepSolo == ~ Concurrent /\ SoloInv /\ [Next]_vars => SoloInv'
<1>. SUFFICES ASSUME ~ Concurrent, SoloInv, [Next]_vars PROVE SoloInv'
  OBVIOUS
<1>0. /\ PinsInv' /\ path \in Inodes \cup {None} /\ tmp \in Inodes \cup {None}
      /\ data \in [Inodes -> Contents] /\ resolver \in [Resolvers -> Resolves]
      /\ log \in Seq(Entry)
  BY StepPins DEF SoloInv, PinsInv, TypeOK, Resolves
<1>1. CASE UNCHANGED <<files, resolver>>
  BY <1>0, <1>1 DEF files, SoloInv
<1>2. ASSUME NEW r \in Resolvers, Resolve(r) PROVE SoloInv'
  <2>0. resolver[r] \in Resolves
    BY <1>0
  <2>1. CASE LoadLog(r)
    <3>. DEFINE to == [Idle EXCEPT !.step = "pins", !.cp = log]
    <3>1. to \in Resolves /\ to.step = "pins"
      BY <1>0, IdleIsTyped DEF Resolves, Steps
    <3>2. /\ resolver' = [resolver EXCEPT ![r] = to] /\ UNCHANGED <<path, tmp, data>>
          /\ \A q \in Resolvers : resolver[q].step = "idle"
      BY <2>1 DEF LoadLog, files
    <3>. HIDE DEF to
    <3>. QED
      BY <1>0, <3>1, <3>2, SoloGoesOn DEF SoloInv
  <2>2. CASE LoadPins(r)
    <3>1. CASE path = None
      BY <1>0, <2>2, <3>1, SoloRead DEF LoadPins, files, Steps
    <3>2. CASE path # None
      <4>. DEFINE to == [resolver[r] EXCEPT !.step = "verify", !.pin = data[path]]
      <4>1. data[path] \in Seq(Entry) \cup {None}
        BY <1>0, <2>2, <3>2 DEF LoadPins, Readable, Contents, Empty
      <4>2. resolver' = [resolver EXCEPT ![r] = to] /\ UNCHANGED <<path, tmp, data>>
        BY <1>0, <2>0, <2>2, <3>2 DEF LoadPins, Resolves, files
      <4>3. to \in Resolves /\ to.step = "verify" /\ to.pin = data[path]
        BY <2>0, <4>1 DEF Resolves, Steps
      <4>4. resolver[r].step # "idle"
        BY <2>2 DEF LoadPins
      <4>. HIDE DEF to
      <4>. QED
        BY <1>0, <3>2, <4>2, <4>3, <4>4, SoloGoesOn DEF SoloInv
    <3>. QED
      BY <3>1, <3>2
  <2>3. CASE VerifyTransition(r)
    <3>1. resolver[r].pin \in Seq(Entry) /\ resolver[r].cp \in Seq(Entry) /\ resolver[r].pin = data[path]
      BY <2>0, <2>3 DEF VerifyTransition, SoloInv, PinsInv, HoldsInv, Resolves
    <3>2. Extends(data[path], resolver[r].cp)
      BY <2>3, <3>1, FollowsExtends DEF VerifyTransition
    <3>. QED
      BY <1>0, <2>3, <3>2, SoloRead DEF VerifyTransition, files, Steps
  <2>4. CASE ReloadPins(r)
    BY <1>0, <2>4, SoloRead DEF ReloadPins, files, Steps, SoloInv
  <2>5. CASE OpenTmp(r)
    <3>. DEFINE to == [resolver[r] EXCEPT !.step = "write", !.handle = tmp']
    <3>1. /\ tmp' \in Inodes /\ data' = [data EXCEPT ![tmp'] = Empty]
          /\ resolver' = [resolver EXCEPT ![r] = to] /\ UNCHANGED <<log, path>>
          /\ path # None => path # tmp'
      BY <2>5, OpensInode DEF SoloInv
    <3>2. to \in Resolves /\ to.step = "write" /\ to.cp = resolver[r].cp /\ to.handle = tmp'
      BY <2>0, <3>1 DEF Resolves, Steps
    <3>3. resolver[r].step = "open"
      BY <2>5 DEF OpenTmp
    <3>4. /\ data'[tmp'] = Empty /\ tmp' # None
          /\ path # None => data'[path] = data[path]
      BY <1>0, <3>1, InodesSuffice
    <3>. HIDE DEF to
    <3>. QED
      BY <1>0, <3>1, <3>2, <3>3, <3>4, SoloGoesOn DEF SoloInv
  <2>6. CASE WriteTmp(r)
    <3>. DEFINE to == [resolver[r] EXCEPT !.step = "rename"]
    <3>1. /\ resolver[r].step = "write" /\ resolver[r].handle = tmp /\ tmp # None /\ data[tmp] = Empty
          /\ resolver[r].cp \in Seq(Entry) /\ resolver[r].cp # <<>>
      BY <2>0, <2>6 DEF WriteTmp, SoloInv, PinsInv, HoldsInv, Resolves
    <3>2. data' = [data EXCEPT ![tmp] = resolver[r].cp]
      <4>1. Empty # Torn /\ Len(Empty) = 0 /\ Len(resolver[r].cp) \in Nat
        <5>1. <<>> \in Seq(Entry) /\ Len(<<>>) = 0
          BY EmptySeq
        <5>. QED
          BY <3>1, <5>1, TornIsNoPin, LenProperties DEF Empty
      <4>2. ~ Wide(resolver[r].cp) => ~ (data[tmp] = Torn \/ Wide(data[tmp]))
        BY <3>1, <4>1, SizesAssumption DEF Wide
      <4>. QED
        BY <2>6, <3>1, <4>2 DEF WriteTmp
    <3>3. resolver' = [resolver EXCEPT ![r] = to] /\ UNCHANGED <<path, tmp>>
      BY <2>6 DEF WriteTmp
    <3>4. to \in Resolves /\ to.step = "rename" /\ to.cp = resolver[r].cp
      BY <2>0 DEF Resolves, Steps
    <3>5. /\ data'[tmp] = resolver[r].cp
          /\ path # None => data'[path] = data[path]
      BY <1>0, <3>1, <3>2 DEF SoloInv
    <3>. HIDE DEF to
    <3>. QED
      BY <1>0, <3>1, <3>3, <3>4, <3>5, SoloGoesOn DEF SoloInv
  <2>7. CASE RenameTmp(r)
    <3>1. /\ path' = tmp /\ tmp' = None /\ data' = data /\ resolver' = [resolver EXCEPT ![r] = Idle]
          /\ resolver[r].step = "rename"
      BY <2>7 DEF RenameTmp
    <3>2. Readable(data[tmp])
      BY <2>0, <3>1, TornIsNoPin DEF SoloInv, PinsInv, HoldsInv, Resolves, Readable, Empty
    <3>. QED
      BY <1>0, <3>1, <3>2, IdleIsTyped, SoloGoesOn DEF SoloInv
  <2>8. CASE Fail(r)
    BY <1>0, <2>8, IdleIsTyped, SoloGoesOn DEF Fail, files, SoloInv
  <2>. QED
    BY <1>2, <2>1, <2>2, <2>3, <2>4, <2>5, <2>6, <2>7, <2>8 DEF Resolve
<1>. QED
  BY <1>1, <1>2 DEF Next, vars, files, AppendEntry, Restore

\* What is renamed over the pin extends it.
LEMMA RenameExtends ==
    ASSUME SoloInv, [Next]_vars, path # None, path' # None,
           Readable(data[path]), Readable(data[path])'
    PROVE  Extends(data[path], data'[path'])
<1>0. /\ path \in Inodes /\ data \in [Inodes -> Contents] /\ data[path] \in Seq(Entry)
      /\ path # tmp
  BY DEF SoloInv, PinsInv, TypeOK, Readable, Contents
<1>1. CASE path' = path /\ data'[path] = data[path]
  BY <1>0, <1>1, ExtendsItself
<1>2. ASSUME NEW r \in Resolvers, Resolve(r) PROVE Extends(data[path], data'[path'])
  <2>1. CASE OpenTmp(r)
    <3>1. path' = path /\ path # tmp' /\ data' = [data EXCEPT ![tmp'] = Empty]
      BY <1>0, <2>1, OpensInode DEF SoloInv
    <3>. QED
      BY <1>0, <1>1, <3>1
  <2>2. CASE WriteTmp(r)
    <3>1. resolver[r].handle = tmp
      BY <2>2 DEF WriteTmp, SoloInv
    <3>2. path' = path /\ data'[path] = data[path]
      BY <1>0, <2>2, <3>1 DEF WriteTmp
    <3>. QED
      BY <1>1, <3>2
  <2>3. CASE RenameTmp(r)
    BY <2>3 DEF RenameTmp, SoloInv
  <2>4. CASE UNCHANGED files
    BY <1>1, <2>4 DEF files
  <2>. QED
    BY <1>2, <2>1, <2>2, <2>3, <2>4
       DEF Resolve, LoadLog, LoadPins, VerifyTransition, ReloadPins, Fail
<1>3. CASE UNCHANGED files
  BY <1>1, <1>3 DEF files
<1>. QED
  BY <1>2, <1>3 DEF Next, vars, files, AppendEntry, Restore

\* The pins file can always be read while resolves run one at a time, wherever
\* each of them stops and whatever happens to the log.
THEOREM PinsStayReadable == ~ Concurrent /\ Spec => []PinsReadable
<1>. SUFFICES ASSUME ~ Concurrent PROVE Spec => []PinsReadable
  OBVIOUS
<1>1. SoloInv /\ [Next]_vars => SoloInv'
  BY StepSolo
<1>2. SoloInv => PinsReadable
  BY DEF SoloInv, PinsReadable
<1>. QED
  BY <1>1, <1>2, InitSolo, PTL DEF Spec

\* A pin is only replaced by a checkpoint that extends it while resolves run one
\* at a time, for logs of any length, rolled back and forked at will.
THEOREM PinIsMonotone == ~ Concurrent /\ Spec => PinNeverRollsBack
<1>. SUFFICES ASSUME ~ Concurrent PROVE Spec => PinNeverRollsBack
  OBVIOUS
<1>1. SoloInv /\ [Next]_vars => SoloInv'
  BY StepSolo
<1>2. SoloInv /\ [Next]_vars =>
        [path # None /\ path' # None /\ Readable(data[path]) /\ Readable(data[path])' =>
           Extends(data[path], data'[path'])]_vars
  BY RenameExtends
<1>. QED
  BY <1>1, <1>2, InitSolo, PTL DEF Spec, PinNeverRollsBack

-----------------------------------------------------------------------------
(* Resolves that overlap.                                                  *)

\* What a resolve that has verified knows, whatever the others do to the files.
VerifiedInv ==
    \A r \in Resolvers :
        /\ resolver[r].step = "pins" => resolver[r].pin = None
        /\ resolver[r].step \in {"pin", "open", "write", "rename"} /\ resolver[r].pin # None =>
             Extends(resolver[r].pin, resolver[r].cp)

RaceInv == PinsInv /\ VerifiedInv /\ (path # None => path # tmp)

\* The step of one resolve, as far as it concerns what resolves have verified.
LEMMA VerifiedStill ==
    ASSUME RaceInv, NEW r \in Resolvers, NEW to \in Resolves, resolver' = [resolver EXCEPT ![r] = to],
           to.step = "pins" => to.pin = None,
           to.step \in {"pin", "open", "write", "rename"} /\ to.pin # None => Extends(to.pin, to.cp)
    PROVE  VerifiedInv'
<1>1. resolver \in [Resolvers -> Resolves]
  BY DEF RaceInv, PinsInv, TypeOK, Resolves
<1>. QED
  BY <1>1 DEF RaceInv, VerifiedInv

LEMMA StepVerified ==
    ASSUME RaceInv, NEW r \in Resolvers, Resolve(r)
    PROVE  VerifiedInv'
<1>0. /\ resolver \in [Resolvers -> Resolves] /\ resolver[r] \in Resolves
      /\ data \in [Inodes -> Contents] /\ path \in Inodes \cup {None}
  BY DEF RaceInv, PinsInv, TypeOK, Resolves
<1>1. ASSUME NEW to \in Resolves, resolver' = [resolver EXCEPT ![r] = to],
             to.step \in {"pin", "open", "write", "rename"},
             to.pin = resolver[r].pin, to.cp = resolver[r].cp,
             to.pin # None => Extends(to.pin, to.cp)
      PROVE  VerifiedInv'
  BY <1>1, VerifiedStill
<1>2. CASE LoadLog(r)
  <2>. DEFINE to == [Idle EXCEPT !.step = "pins", !.cp = log]
  <2>1. to \in Resolves /\ to.step = "pins" /\ to.pin = None
    BY <1>2 DEF RaceInv, PinsInv, TypeOK, Idle, Resolves, Steps
  <2>2. resolver' = [resolver EXCEPT ![r] = to]
    BY <1>2 DEF LoadLog
  <2>. HIDE DEF to
  <2>. QED
    BY <2>1, <2>2, VerifiedStill
<1>3. CASE LoadPins(r)
  <2>1. CASE path = None
    <3>. DEFINE to == [resolver[r] EXCEPT !.step = "pin"]
    <3>1. to \in Resolves /\ to.step = "pin" /\ to.pin = resolver[r].pin
      BY <1>0 DEF Resolves, Steps
    <3>2. resolver' = [resolver EXCEPT ![r] = to] /\ resolver[r].pin = None
      BY <1>3, <2>1 DEF LoadPins, RaceInv, VerifiedInv
    <3>. HIDE DEF to
    <3>. QED
      BY <3>1, <3>2, VerifiedStill
  <2>2. CASE path # None
    <3>. DEFINE to == [resolver[r] EXCEPT !.step = "verify", !.pin = data[path]]
    <3>1. data[path] \in Seq(Entry)
      BY <1>0, <1>3, <2>2 DEF LoadPins, Readable, Contents, Empty
    <3>2. to \in Resolves /\ to.step = "verify"
      BY <1>0, <3>1 DEF Resolves, Steps
    <3>3. resolver' = [resolver EXCEPT ![r] = to]
      BY <1>0, <1>3, <2>2 DEF LoadPins, Resolves
    <3>. HIDE DEF to
    <3>. QED
      BY <3>2, <3>3, VerifiedStill
  <2>. QED
    BY <2>1, <2>2
<1>4. CASE VerifyTransition(r)
  <2>. DEFINE to == [resolver[r] EXCEPT !.step = "pin"]
  <2>1. /\ to \in Resolves /\ to.step = "pin"
        /\ to.pin = resolver[r].pin /\ to.cp = resolver[r].cp
    BY <1>0 DEF Resolves, Steps
  <2>2. resolver' = [resolver EXCEPT ![r] = to]
    BY <1>4 DEF VerifyTransition
  <2>3. resolver[r].pin \in Seq(Entry) /\ resolver[r].cp \in Seq(Entry)
    BY <1>0, <1>4 DEF VerifyTransition, RaceInv, PinsInv, HoldsInv, Resolves
  <2>4. Extends(to.pin, to.cp)
    BY <1>4, <2>1, <2>3, FollowsExtends DEF VerifyTransition
  <2>. HIDE DEF to
  <2>. QED
    BY <1>1, <2>1, <2>2, <2>4
<1>5. ASSUME NEW step \in {"open", "rename"}, resolver' = [resolver EXCEPT ![r].step = step],
             resolver[r].step \in {"pin", "write"}
      PROVE  VerifiedInv'
  <2>. DEFINE to == [resolver[r] EXCEPT !.step = step]
  <2>1. /\ to \in Resolves /\ to.step = step
        /\ to.pin = resolver[r].pin /\ to.cp = resolver[r].cp
    BY <1>0 DEF Resolves, Steps
  <2>2. resolver' = [resolver EXCEPT ![r] = to]
    BY <1>5
  <2>3. to.pin # None => Extends(to.pin, to.cp)
    BY <1>5, <2>1 DEF RaceInv, VerifiedInv
  <2>. HIDE DEF to
  <2>. QED
    BY <1>1, <2>1, <2>2, <2>3
<1>6. CASE ReloadPins(r)
  BY <1>5, <1>6 DEF ReloadPins
<1>7. CASE OpenTmp(r)
  <2>. DEFINE to == [resolver[r] EXCEPT !.step = "write", !.handle = tmp']
  <2>0. tmp' \in Inodes /\ resolver' = [resolver EXCEPT ![r] = to]
    BY <1>7, OpensInode DEF RaceInv
  <2>1. /\ to \in Resolves /\ to.step = "write"
        /\ to.pin = resolver[r].pin /\ to.cp = resolver[r].cp
    BY <1>0, <2>0 DEF Resolves, Steps
  <2>2. to.pin # None => Extends(to.pin, to.cp)
    BY <1>7, <2>1 DEF OpenTmp, RaceInv, VerifiedInv
  <2>. HIDE DEF to
  <2>. QED
    BY <1>1, <2>0, <2>1, <2>2
<1>8. CASE WriteTmp(r)
  BY <1>5, <1>8 DEF WriteTmp
<1>9. CASE RenameTmp(r) \/ Fail(r)
  <2>1. resolver' = [resolver EXCEPT ![r] = Idle]
    BY <1>9 DEF RenameTmp, Fail
  <2>. QED
    BY <2>1, IdleIsTyped, VerifiedStill
<1>. QED
  BY <1>2, <1>3, <1>4, <1>6, <1>7, <1>8, <1>9 DEF Resolve

LEMMA StepRace == RaceInv /\ [Next]_vars => RaceInv'
<1>. SUFFICES ASSUME RaceInv, [Next]_vars PROVE RaceInv'
  OBVIOUS
<1>1. PinsInv'
  BY StepPins DEF RaceInv
<1>2. CASE UNCHANGED <<files, resolver>>
  BY <1>1, <1>2 DEF files, RaceInv, VerifiedInv
<1>3. ASSUME NEW r \in Resolvers, Resolve(r) PROVE path' # None => path' # tmp'
  <2>1. CASE OpenTmp(r)
    BY <2>1, OpensInode DEF RaceInv
  <2>2. CASE RenameTmp(r)
    BY <2>2 DEF RenameTmp
  <2>3. CASE UNCHANGED <<path, tmp>>
    BY <2>3 DEF RaceInv
  <2>. QED
    BY <1>3, <2>1, <2>2, <2>3
       DEF Resolve, LoadLog, LoadPins, VerifyTransition, ReloadPins, WriteTmp, Fail, files
<1>4. ASSUME NEW r \in Resolvers, Resolve(r) PROVE RaceInv'
  BY <1>1, <1>3, <1>4, StepVerified DEF RaceInv
<1>. QED
  BY <1>2, <1>4 DEF Next, vars, files, AppendEntry, Restore

LEMMA InitRace == Init => RaceInv
<1>1. ASSUME Init PROVE \A r \in Resolvers : resolver[r].step = "idle"
  BY <1>1, IdleIsTyped DEF Init
<1>. QED
  BY <1>1, InitPins DEF Init, RaceInv, VerifiedInv

\* A rename over what its resolve had verified against, of what it had written.
LEMMA RenameKnowingly ==
    ASSUME RaceInv, NEW r \in Resolvers, RenameTmp(r), data[tmp] = resolver[r].cp
    PROVE  /\ Readable(data'[path'])
           /\ path # None /\ resolver[r].pin # None /\ data[path] = resolver[r].pin =>
                Extends(data[path], data'[path'])
<1>1. data'[path'] = resolver[r].cp /\ resolver[r].step = "rename"
  BY DEF RenameTmp
<1>2. resolver[r].cp \in Seq(Entry) /\ resolver[r].cp # <<>>
  BY <1>1 DEF RaceInv, PinsInv, HoldsInv, TypeOK
<1>3. Readable(resolver[r].cp)
  BY <1>2, TornIsNoPin DEF Readable, Empty
<1>4. resolver[r].pin # None => Extends(resolver[r].pin, resolver[r].cp)
  BY <1>1 DEF RaceInv, VerifiedInv
<1>. QED
  BY <1>1, <1>3, <1>4

\* However many resolves overlap, and whatever happens to the log: a pin that
\* goes back or cannot be read was spoiled by a resolve that another one had
\* overtaken after it verified.
THEOREM PinsSpoiledByRacesOnly == Spec => OnlyARaceSpoilsThePin
<1>. DEFINE Spoiled ==
              path' # path \/ (path # None /\ data'[path] # data[path])
            Spoils(r) ==
              \/ /\ RenameTmp(r)
                 /\ data[tmp] = resolver[r].cp =>
                      /\ Readable(data'[path'])
                      /\ path # None /\ resolver[r].pin # None /\ data[path] = resolver[r].pin =>
                           Extends(data[path], data'[path'])
              \/ WriteTmp(r) /\ resolver[r].handle = path
<1>1. ASSUME RaceInv, [Next]_vars, Spoiled PROVE \E r \in Resolvers : Spoils(r)
  <2>1. ~ UNCHANGED files
    BY <1>1 DEF files
  <2>2. PICK r \in Resolvers : Resolve(r)
    BY <1>1, <2>1 DEF Next, vars, files, AppendEntry, Restore
  <2>3. ~ OpenTmp(r)
    <3>1. SUFFICES ASSUME OpenTmp(r) PROVE FALSE
      OBVIOUS
    <3>2. path' = path /\ data' = [data EXCEPT ![tmp'] = Empty] /\ (path # None => path # tmp')
      BY <1>1, <3>1, OpensInode DEF RaceInv
    <3>3. data \in [Inodes -> Contents] /\ path \in Inodes \cup {None}
      BY <1>1 DEF RaceInv, PinsInv, TypeOK
    <3>. QED
      BY <1>1, <3>2, <3>3
  <2>4. CASE WriteTmp(r)
    <3>1. /\ data \in [Inodes -> Contents] /\ path \in Inodes \cup {None}
          /\ path' = path
      BY <1>1, <2>4 DEF RaceInv, PinsInv, TypeOK, WriteTmp
    <3>2. resolver[r].handle = path
      BY <1>1, <2>4, <3>1 DEF WriteTmp
    <3>. QED
      BY <2>4, <3>2
  <2>5. CASE RenameTmp(r)
    BY <1>1, <2>5, RenameKnowingly
  <2>. QED
    BY <2>1, <2>2, <2>3, <2>4, <2>5
       DEF Resolve, LoadLog, LoadPins, VerifyTransition, ReloadPins, Fail, files
<1>2. RaceInv /\ [Next]_vars => [Spoiled => \E r \in Resolvers : Spoils(r)]_vars
  BY <1>1
<1>. QED
  BY <1>2, InitRace, StepRace, PTL DEF Spec, OnlyARaceSpoilsThePin

-----------------------------------------------------------------------------
(* What a resolve accepts.                                                 *)

\* A set of numbers up to n has a greatest one.
LEMMA Greatest ==
    ASSUME NEW n \in Nat, NEW T, T \subseteq 1 .. n, T # {}
    PROVE  \E x \in T : \A y \in T : y <= x
<1>. DEFINE R == OpToRel(<, Nat)
            Below == {n - x : x \in T}
<1>1. IsWellFoundedOn(R, Nat)
  BY NatLessThanWellFounded
<1>2. \A x, y \in Nat : y < x => <<y, x>> \in R
  BY DEF OpToRel
<1>3. Below \subseteq Nat /\ Below # {}
  <2>1. \A x \in T : n - x \in Nat
    OBVIOUS
  <2>. QED
    BY <2>1
<1>. HIDE DEF R
<1>4. PICK x \in Below : \A y \in Below : ~ (<<y, x>> \in R)
  <2>. HIDE DEF Below
  <2>. QED
    BY <1>1, <1>3, WFMin
<1>5. PICK z \in T : x = n - z
  BY <1>4
<1>6. ASSUME NEW y \in T PROVE y <= z
  <2>1. n - y \in Nat /\ n - z \in Nat /\ ~ (n - y < n - z)
    BY <1>2, <1>3, <1>4, <1>5
  <2>. QED
    BY <2>1
<1>. QED
  BY <1>5, <1>6

LEMMA RotationsAreFinite ==
    ASSUME NEW cp \in Seq(Entry)
    PROVE  /\ IsFiniteSet(Rotations(cp)) /\ Rotations(cp) \subseteq 1 .. Len(cp)
           /\ Len(cp) \in Nat
<1>1. Len(cp) \in Nat /\ Rotations(cp) \subseteq 1 .. Len(cp)
  BY LenProperties DEF Rotations
<1>2. IsFiniteSet(1 .. Len(cp))
  BY <1>1, FS_Interval
<1>. QED
  BY <1>1, <1>2, FS_Subset

\* The operator key is the log up to the last rotation.
LEMMA OperatorIsLast ==
    ASSUME NEW cp \in Seq(Entry), Rotations(cp) # {}
    PROVE  \E last \in Rotations(cp) :
             /\ \A j \in Rotations(cp) : j <= last
             /\ Operator(cp) = SubSeq(cp, 1, last) /\ Len(Operator(cp)) = last
<1>. DEFINE IsLast(i) == \A j \in Rotations(cp) : j <= i
            last == CHOOSE i \in Rotations(cp) : IsLast(i)
<1>1. Rotations(cp) \subseteq 1 .. Len(cp) /\ Len(cp) \in Nat
  BY RotationsAreFinite
<1>2. \E i \in Rotations(cp) : IsLast(i)
  BY <1>1, Greatest
<1>3. last \in Rotations(cp) /\ IsLast(last)
  BY <1>2
<1>4. Operator(cp) = SubSeq(cp, 1, last)
  BY DEF Operator
<1>. HIDE DEF last
<1>5. Len(SubSeq(cp, 1, last)) = last
  BY <1>1, <1>3, SubSeqProperties
<1>. QED
  BY <1>3, <1>4, <1>5

\* A checkpoint that extends the pin without a rotation has the pin's operator.
LEMMA SameOperator ==
    ASSUME NEW pin \in Seq(Entry), NEW cp \in Seq(Entry), Extends(pin, cp),
           Rotations(cp) = Rotations(pin)
    PROVE  Operator(cp) = Operator(pin) /\ OperatorSequence(cp) = OperatorSequence(pin)
<1>1. CASE Rotations(pin) = {}
  BY <1>1 DEF Operator, OperatorSequence
<1>2. CASE Rotations(pin) # {}
  <2>1. PICK last \in Rotations(cp) :
          (\A j \in Rotations(cp) : j <= last) /\ Operator(cp) = SubSeq(cp, 1, last)
    BY <1>2, OperatorIsLast
  <2>2. PICK late \in Rotations(pin) :
          (\A j \in Rotations(pin) : j <= late) /\ Operator(pin) = SubSeq(pin, 1, late)
    BY <1>2, OperatorIsLast
  <2>3. Rotations(pin) \subseteq 1 .. Len(pin) /\ Len(pin) \in Nat /\ Len(cp) \in Nat
    BY RotationsAreFinite
  <2>4. last = late /\ last \in 1 .. Len(pin)
    BY <2>1, <2>2, <2>3
  <2>5. SubSeq(cp, 1, last) = SubSeq(pin, 1, last)
    <3>1. pin = SubSeq(cp, 1, Len(pin)) /\ Len(pin) <= Len(cp)
      BY DEF Extends
    <3>2. \A i \in 1 .. last : pin[i] = cp[i]
      <4>1. \A i \in 1 .. Len(pin) : SubSeq(cp, 1, Len(pin))[i] = cp[i]
        BY <2>3, <3>1, SubSeqProperties
      <4>. QED
        BY <2>3, <2>4, <3>1, <4>1
    <3>. QED
      BY <2>3, <2>4, <3>1, <3>2
  <2>. QED
    BY <2>1, <2>2, <2>4, <2>5 DEF OperatorSequence
<1>. QED
  BY <1>1, <1>2

\* The rotations of a checkpoint that extends the pin: the pin's and later ones.
LEMMA RotationsSplit ==
    ASSUME NEW pin \in Seq(Entry), NEW cp \in Seq(Entry), Extends(pin, cp)
    PROVE  Rotations(cp) = Rotations(pin) \cup {i \in Rotations(cp) : i > Len(pin)}
<1>1. Len(pin) \in Nat /\ Len(cp) \in Nat /\ DOMAIN pin = 1 .. Len(pin) /\ DOMAIN cp = 1 .. Len(cp)
  BY LenProperties
<1>2. pin = SubSeq(cp, 1, Len(pin)) /\ Len(pin) <= Len(cp)
  BY DEF Extends
<1>3. \A i \in 1 .. Len(pin) : pin[i] = cp[i]
  <2>1. \A i \in 1 .. Len(pin) : SubSeq(cp, 1, Len(pin))[i] = cp[i]
    BY <1>1, <1>2, SubSeqProperties
  <2>. QED
    BY <1>2, <2>1
<1>. QED
  BY <1>1, <1>2, <1>3 DEF Rotations

\* Follows judges a pin and a checkpoint as the log does.
LEMMA FollowsTheLog ==
    ASSUME NEW pin \in Seq(Entry), NEW cp \in Seq(Entry), pin # <<>>, cp # <<>>
    PROVE  LET later == {i \in Rotations(cp) : i > Len(pin)}
           IN  Follows(pin, cp) <=> /\ Extends(pin, cp)
                                    /\ later # {} => Len(cp) = Len(pin) + 1
                                    /\ cp = pin => ~ HasRotation(cp)
<1>. DEFINE later == {i \in Rotations(cp) : i > Len(pin)}
<1>0. Len(pin) \in Nat /\ Len(cp) \in Nat /\ Len(cp) > 0 /\ DOMAIN cp = 1 .. Len(cp)
  <2>1. cp # <<>> => Len(cp) \in Nat \ {0}
    BY EmptySeq
  <2>2. Len(pin) \in Nat /\ DOMAIN cp = 1 .. Len(cp)
    BY LenProperties
  <2>. QED
    BY <2>1, <2>2
<1>1. Extends(pin, cp) /\ later = {} => Operator(cp) = Operator(pin) /\ OperatorSequence(cp) = OperatorSequence(pin)
  <2>1. ASSUME Extends(pin, cp), later = {} PROVE Rotations(cp) = Rotations(pin)
    <3>1. Rotations(cp) = Rotations(pin) \cup later
      BY <2>1, RotationsSplit
    <3>. QED
      BY <2>1, <3>1
  <2>. QED
    BY <2>1, SameOperator
<1>2. Extends(pin, cp) /\ later # {} => Operator(cp) # Operator(pin)
  <2>. SUFFICES ASSUME Extends(pin, cp), later # {}, Operator(cp) = Operator(pin) PROVE FALSE
    OBVIOUS
  <2>1. PICK last \in Rotations(cp) :
          (\A j \in Rotations(cp) : j <= last) /\ Len(Operator(cp)) = last
    BY OperatorIsLast
  <2>2. last > Len(pin)
    BY <1>0, <2>1, RotationsAreFinite
  <2>3. Len(Operator(pin)) <= Len(pin)
    <3>1. CASE Rotations(pin) = {}
      BY <1>0, <3>1, EmptySeq DEF Operator
    <3>2. CASE Rotations(pin) # {}
      BY <1>0, <3>2, OperatorIsLast, RotationsAreFinite
    <3>. QED
      BY <3>1, <3>2
  <2>. QED
    BY <1>0, <2>1, <2>2, <2>3
<1>3. HasRotation(cp) <=> Len(cp) \in Rotations(cp)
  BY <1>0 DEF HasRotation, Rotations
<1>. HIDE DEF later
<1>4. ASSUME Follows(pin, cp)
      PROVE  /\ Extends(pin, cp) /\ (later # {} => Len(cp) = Len(pin) + 1)
             /\ cp = pin => ~ HasRotation(cp)
  <2>1. Extends(pin, cp)
    BY <1>4, FollowsExtends
  <2>2. ASSUME later # {} PROVE Len(cp) = Len(pin) + 1
    <3>1. Previous(cp) = pin
      BY <1>2, <1>4, <2>1, <2>2 DEF Follows, RotatedFrom
    <3>2. Len(Previous(cp)) = Len(cp) - 1
      BY <1>0, SubSeqProperties DEF Previous
    <3>. QED
      BY <1>0, <3>1, <3>2
  <2>3. cp = pin => ~ HasRotation(cp)
    BY <1>4 DEF Follows
  <2>. QED
    BY <2>1, <2>2, <2>3
<1>5. ASSUME Extends(pin, cp), later # {} => Len(cp) = Len(pin) + 1, cp = pin => ~ HasRotation(cp)
      PROVE  Follows(pin, cp)
  <2>1. /\ Len(cp) >= Len(pin) /\ (Len(cp) = Len(pin) => cp = pin)
        /\ Len(cp) > Len(pin) => SubSeq(cp, 1, Len(pin)) = pin
    <3>1. SubSeq(cp, 1, Len(cp)) = cp
      BY SubSeqFull
    <3>. QED
      BY <1>0, <1>5, <3>1 DEF Extends
  <2>2. CASE later = {}
    <3>1. ~ HasRotation(cp)
      <4>1. SUFFICES ASSUME HasRotation(cp) PROVE FALSE
        OBVIOUS
      <4>2. ~ (Len(cp) > Len(pin))
        BY <1>3, <2>2, <4>1 DEF later
      <4>3. cp = pin
        BY <1>0, <2>1, <4>2
      <4>. QED
        BY <1>5, <4>1, <4>3
    <3>. QED
      BY <1>1, <1>5, <2>1, <2>2, <3>1 DEF Follows
  <2>3. CASE later # {}
    <3>1. Len(cp) = Len(pin) + 1 /\ later = {Len(cp)} /\ Len(cp) \notin Rotations(pin)
      <4>1. Len(cp) = Len(pin) + 1
        BY <1>5, <2>3
      <4>2. Rotations(cp) \subseteq 1 .. Len(cp) /\ Rotations(pin) \subseteq 1 .. Len(pin)
        BY RotationsAreFinite
      <4>. QED
        BY <1>0, <2>3, <4>1, <4>2 DEF later
    <3>2. Previous(cp) = pin
      BY <1>0, <1>5, <3>1 DEF Previous, Extends
    <3>3. HasRotation(cp)
      BY <1>3, <3>1 DEF later
    <3>4. OperatorSequence(cp) = OperatorSequence(pin) + 1
      <4>1. Rotations(cp) = Rotations(pin) \cup {Len(cp)}
        BY <1>5, <3>1, RotationsSplit DEF later
      <4>2. IsFiniteSet(Rotations(pin))
        BY RotationsAreFinite
      <4>. QED
        BY <3>1, <4>1, <4>2, FS_AddElement DEF OperatorSequence
    <3>. QED
      BY <1>2, <1>5, <2>1, <2>3, <3>2, <3>3, <3>4 DEF Follows, RotatedFrom
  <2>. QED
    BY <2>2, <2>3, SMTT(30)
<1>. QED
  BY <1>4, <1>5 DEF later

\* A resolve accepts exactly the checkpoints that the log's own history allows
\* after its pin, for logs of any length and any number of resolves at once.
THEOREM ResolvesJudgeByTheLog == Spec => []JudgedByTheLog
<1>1. PinsInv => JudgedByTheLog
  <2>. SUFFICES ASSUME PinsInv, NEW r \in Resolvers, resolver[r].step = "verify"
                PROVE  LET pin == resolver[r].pin
                           cp == resolver[r].cp
                           later == {i \in Rotations(cp) : i > Len(pin)}
                       IN  Follows(pin, cp) <=>
                             /\ Extends(pin, cp)
                             /\ later # {} => Len(cp) = Len(pin) + 1
                             /\ cp = pin => ~ HasRotation(cp)
    BY DEF JudgedByTheLog
  <2>1. resolver[r] \in Resolves
    BY DEF PinsInv, TypeOK, Resolves
  <2>2. /\ resolver[r].pin \in Seq(Entry) /\ resolver[r].cp \in Seq(Entry)
        /\ resolver[r].pin # <<>> /\ resolver[r].cp # <<>>
    BY <2>1 DEF PinsInv, HoldsInv, Resolves
  <2>. QED
    BY <2>2, FollowsTheLog
<1>. QED
  BY <1>1, PinsInvariant, PTL
=============================================================================
