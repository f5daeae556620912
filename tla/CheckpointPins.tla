--------------------------- MODULE CheckpointPins ---------------------------
(***************************************************************************)
(* The pinned checkpoint of satspathd: resolve_profile (satspathd/src/     *)
(* main.rs), verify_checkpoint_transition and the file CheckpointStore     *)
(* keeps the pin in (satspath-core/src/transparency/store.rs).             *)
(*                                                                         *)
(* A resolve loads the log, loads the pin, verifies that the log's latest  *)
(* checkpoint follows the pinned one and pins it: loads the pin again,     *)
(* writes a temporary file and renames it over the old one.  Requests are  *)
(* served by several threads and a resolve takes no lock, so two resolves  *)
(* may interleave at every system call; a constant says whether they do.   *)
(*                                                                         *)
(* The log may lose its end and grow another: its database is a file that  *)
(* can be replaced by a backup, which is what pins are kept to notice.     *)
(*                                                                         *)
(* A checkpoint commits to all the events before it and, by its            *)
(* predecessor's hash, to all the checkpoints before it, so it is modelled *)
(* by the sequence of entries it covers; so is a pin, whose fields are all *)
(* copied from one checkpoint.  An entry says which event it is and        *)
(* whether the operator key was rotated in its checkpoint.  A rotation     *)
(* draws a fresh key, modelled by the log that ends with it.               *)
(***************************************************************************)
EXTENDS Integers, Sequences, FiniteSets

CONSTANTS Resolvers,    \* requests that resolve a name
          Branches,     \* events that may be appended at the same place
          Inodes,       \* files, by what an open handle refers to
          None,
          Torn,         \* the content of a file that is no JSON
          MaxSize,      \* bound on the length of the log
          WideFrom,     \* the first tree size with one more decimal digit
          Concurrent,   \* whether several resolves run at once
          MayRestore    \* whether the log's database may be replaced

Entry == [event : Branches, rotates : BOOLEAN]

ASSUME SizesAssumption == MaxSize \in Nat /\ WideFrom \in Nat
ASSUME FlagsAssumption == Concurrent \in BOOLEAN /\ MayRestore \in BOOLEAN
ASSUME InodesSuffice ==
    /\ IsFiniteSet(Inodes) /\ IsFiniteSet(Resolvers)
    /\ Cardinality(Inodes) >= Cardinality(Resolvers) + 2
    /\ None \notin Inodes
ASSUME TornIsNoPin == Torn \notin Seq(Entry)

VARIABLES log,      \* the log as the database holds it
          path,     \* the inode of transparency-pins.json, or None
          tmp,      \* the inode of transparency-pins.json.tmp, or None
          data,     \* what each inode holds
          resolver  \* what each resolve is doing, and what it holds

vars == <<log, path, tmp, data, resolver>>
files == <<path, tmp, data>>

\* A file holds a pin, which covers at least one entry, or nothing yet, or
\* text that is no JSON.
Empty == <<>>
Contents == {Torn} \cup Seq(Entry)

Steps == {"idle", "pins", "verify", "pin", "open", "write", "rename"}

Idle == [step |-> "idle", cp |-> <<>>, pin |-> None, handle |-> None]

Readable(content) == content \notin {Empty, Torn}

-----------------------------------------------------------------------------
(* Checkpoints.                                                            *)

Rotations(cp) == {i \in DOMAIN cp : cp[i].rotates}

OperatorSequence(cp) == Cardinality(Rotations(cp))

\* The operator key a checkpoint is signed with.
Operator(cp) ==
    IF Rotations(cp) = {}
    THEN <<>>
    ELSE LET last == CHOOSE i \in Rotations(cp) : \A j \in Rotations(cp) : j <= i
         IN  SubSeq(cp, 1, last)

\* The checkpoint carries an OperatorKeyRotation.
HasRotation(cp) == cp[Len(cp)].rotates

Previous(cp) == SubSeq(cp, 1, Len(cp) - 1)

\* What both verify_checkpoint_transition and pin_verified require of an
\* operator key that is not the pinned one.
RotatedFrom(pin, cp) ==
    /\ HasRotation(cp)
    /\ Operator(Previous(cp)) = Operator(pin)
    /\ Previous(cp) = pin
    /\ OperatorSequence(cp) = OperatorSequence(pin) + 1

\* A mutant: the pinned size is not compared.
FollowsAnySize(pin, cp) ==
    /\ IF Operator(cp) # Operator(pin)
       THEN RotatedFrom(pin, cp)
       ELSE /\ OperatorSequence(cp) = OperatorSequence(pin)
            /\ ~ HasRotation(cp)
    /\ Len(cp) = Len(pin) => cp = pin
    /\ Len(cp) > Len(pin) => SubSeq(cp, 1, Len(pin)) = pin

\* A mutant: an older operator key is not looked at.
FollowsAnyOperator(pin, cp) ==
    /\ Len(cp) >= Len(pin)
    /\ Len(cp) = Len(pin) => cp = pin
    /\ Len(cp) > Len(pin) => SubSeq(cp, 1, Len(pin)) = pin

\* verify_checkpoint_transition, with the consistency proof of the two trees.
Follows(pin, cp) ==
    /\ IF Operator(cp) # Operator(pin)
       THEN RotatedFrom(pin, cp)
       ELSE /\ OperatorSequence(cp) = OperatorSequence(pin)
            /\ ~ HasRotation(cp)
    /\ Len(cp) >= Len(pin)
    /\ Len(cp) = Len(pin) => cp = pin
    /\ Len(cp) > Len(pin) => SubSeq(cp, 1, Len(pin)) = pin

-----------------------------------------------------------------------------
Init ==
    /\ log = <<>>
    /\ path = None
    /\ tmp = None
    /\ data = [i \in Inodes |-> Empty]
    /\ resolver = [r \in Resolvers |-> Idle]

\* A commit appends an event and its checkpoint.  The first one has no
\* operator key to rotate.
AppendEntry(e) ==
    /\ Len(log) < MaxSize
    /\ e.rotates => log # <<>>
    /\ log' = Append(log, e)
    /\ UNCHANGED <<files, resolver>>

\* The database is replaced by an earlier copy of itself.
Restore ==
    /\ MayRestore
    /\ \E n \in 1 .. Len(log) - 1 : log' = SubSeq(log, 1, n)
    /\ UNCHANGED <<files, resolver>>

\* A mutant: an empty log is resolved with its last checkpoint, None.
LoadAnyLog(r) ==
    /\ resolver[r].step = "idle"
    /\ Concurrent \/ \A q \in Resolvers : resolver[q].step = "idle"
    /\ resolver' = [resolver EXCEPT ![r] =
                      [Idle EXCEPT !.step = "pins",
                                   !.cp = IF log = <<>> THEN None ELSE log]]
    /\ UNCHANGED <<log, files>>

\* resolve_profile loads the log (a snapshot, see TransparencyStore).
LoadLog(r) ==
    /\ resolver[r].step = "idle"
    /\ Concurrent \/ \A q \in Resolvers : resolver[q].step = "idle"
    /\ log # <<>>
    /\ resolver' = [resolver EXCEPT ![r] = [Idle EXCEPT !.step = "pins", !.cp = log]]
    /\ UNCHANGED <<log, files>>

\* CheckpointStore::load, by resolve_profile.
LoadPins(r) ==
    /\ resolver[r].step = "pins"
    /\ IF path = None
       THEN resolver' = [resolver EXCEPT ![r].step = "pin"]
       ELSE /\ Readable(data[path])
            /\ resolver' = [resolver EXCEPT ![r].step = "verify",
                                            ![r].pin = data[path]]
    /\ UNCHANGED <<log, files>>

VerifyTransition(r) ==
    /\ resolver[r].step = "verify"
    /\ Follows(resolver[r].pin, resolver[r].cp)
    /\ resolver' = [resolver EXCEPT ![r].step = "pin"]
    /\ UNCHANGED <<log, files>>

\* pin_verified loads the pins again.  It compares the operator keys, as the
\* verification did, and nothing else.
ReloadPins(r) ==
    /\ resolver[r].step = "pin"
    /\ path # None =>
         /\ Readable(data[path])
         /\ Operator(resolver[r].cp) # Operator(data[path]) =>
               RotatedFrom(data[path], resolver[r].cp)
    /\ resolver' = [resolver EXCEPT ![r].step = "open"]
    /\ UNCHANGED <<log, files>>

\* A mutant: the pins are written in place.
OpenInPlace(r) ==
    /\ resolver[r].step = "open"
    /\ LET i == IF path # None THEN path ELSE CHOOSE j \in Inodes : j # tmp
       IN  /\ path' = i
           /\ data' = [data EXCEPT ![i] = Empty]
           /\ resolver' = [resolver EXCEPT ![r].step = "write", ![r].handle = i]
    /\ UNCHANGED <<log, tmp>>

\* fs::write opens the temporary file, the same for every resolve: creates it
\* or truncates the one another resolve is still using.
FreeInodes == Inodes \ ({path, tmp} \cup {resolver[r].handle : r \in Resolvers})

OpenTmp(r) ==
    /\ resolver[r].step = "open"
    /\ LET i == IF tmp # None THEN tmp ELSE CHOOSE j \in FreeInodes : TRUE
       IN  /\ tmp' = i
           /\ data' = [data EXCEPT ![i] = Empty]
           /\ resolver' = [resolver EXCEPT ![r].step = "write", ![r].handle = i]
    /\ UNCHANGED <<log, path>>

\* The JSON text of a pin grows with the digits of its tree size.
Wide(content) == Len(content) >= WideFrom

\* fs::write writes from the start of the file it opened: over the text that
\* another resolve has written there since, and if that was the longer one its
\* end stays behind.
WriteTmp(r) ==
    LET i == resolver[r].handle
        cp == resolver[r].cp
        longer == data[i] = Torn \/ Wide(data[i])
    IN  /\ resolver[r].step = "write"
        /\ data' = [data EXCEPT ![i] = IF ~ Wide(cp) /\ longer THEN Torn ELSE cp]
        /\ resolver' = [resolver EXCEPT ![r].step = "rename"]
        /\ UNCHANGED <<log, path, tmp>>

\* fs::rename moves whatever now has the temporary file's name.
RenameTmp(r) ==
    /\ resolver[r].step = "rename"
    /\ tmp # None
    /\ path' = tmp
    /\ tmp' = None
    /\ resolver' = [resolver EXCEPT ![r] = Idle]
    /\ UNCHANGED <<log, data>>

\* A check or a system call fails (a rename whose file another resolve has
\* already moved does), or the process dies: the resolve ends where it is.
Fail(r) ==
    /\ resolver[r].step # "idle"
    /\ resolver' = [resolver EXCEPT ![r] = Idle]
    /\ UNCHANGED <<log, files>>

Resolve(r) ==
    \/ LoadLog(r)
    \/ LoadPins(r)
    \/ VerifyTransition(r)
    \/ ReloadPins(r)
    \/ OpenTmp(r)
    \/ WriteTmp(r)
    \/ RenameTmp(r)
    \/ Fail(r)

Next ==
    \/ \E e \in Entry : AppendEntry(e)
    \/ Restore
    \/ \E r \in Resolvers : Resolve(r)

Spec == Init /\ [][Next]_vars

-----------------------------------------------------------------------------
(* Properties.                                                             *)

TypeOK ==
    /\ log \in Seq(Entry)
    /\ path \in Inodes \cup {None}
    /\ tmp \in Inodes \cup {None}
    /\ data \in [Inodes -> Contents]
    /\ resolver \in [Resolvers -> [step : Steps, cp : Seq(Entry),
                                   pin : Seq(Entry) \cup {None},
                                   handle : Inodes \cup {None}]]

\* The pins file, once it exists, can always be read: the pin of an earlier
\* resolve survives whatever later ones do and wherever they stop
\* (key_transparency.md:78, "Atomic pin update").  An unreadable file would
\* refuse every later resolve, for nothing ever removes it.
PinsReadable == path # None => Readable(data[path])

\* A pin is only ever replaced by a checkpoint that extends it: never by one
\* of a smaller tree or of another branch (key_transparency.md:75-77).
Extends(old, new) == Len(old) <= Len(new) /\ SubSeq(new, 1, Len(old)) = old

PinNeverRollsBack ==
    [][path # None /\ path' # None /\ Readable(data[path]) /\ Readable(data[path])' =>
         Extends(data[path], data'[path'])]_vars

\* Also while resolves overlap, the pins file changes by a rename only, and a
\* rename leaves a readable file that extends the pin its resolve had verified
\* against, unless another resolve has since replaced that pin or written the
\* temporary file; or by a resolve that goes on writing a file which another one
\* has moved over the pins meanwhile.
OnlyARaceSpoilsThePin ==
    [][path' # path \/ (path # None /\ data'[path] # data[path]) =>
         \E r \in Resolvers :
           \/ /\ RenameTmp(r)
              /\ data[tmp] = resolver[r].cp =>
                   /\ Readable(data'[path'])
                   /\ path # None /\ resolver[r].pin # None /\ data[path] = resolver[r].pin =>
                        Extends(data[path], data'[path'])
           \/ WriteTmp(r) /\ resolver[r].handle = path]_vars

\* A resolve accepts exactly the checkpoints that extend the pinned one and
\* rotate the operator key at most in their first step after it.  A checkpoint
\* that carries a rotation is accepted once, when the pin is its predecessor.
JudgedByTheLog ==
    \A r \in Resolvers : resolver[r].step = "verify" =>
        LET pin == resolver[r].pin
            cp == resolver[r].cp
            later == {i \in Rotations(cp) : i > Len(pin)}
        IN  Follows(pin, cp) <=>
              /\ Extends(pin, cp)
              /\ later # {} => Len(cp) = Len(pin) + 1
              /\ cp = pin => ~ HasRotation(cp)

=============================================================================
