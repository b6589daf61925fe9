------------------------- MODULE ClientData_proofs -------------------------
(***************************************************************************)
(* What the client holds of R: the ids of its source files, the indices of *)
(* its values, and the previews of its plots.                              *)
(***************************************************************************)
EXTENDS VirtualFiles, PersistentRefs, PlotPreview, SequenceTheorems, FiniteSetTheorems,
        WellFoundedInduction, TLAPS

\* A set of numbers that is not empty has a least.
LEMMA Least ==
    ASSUME NEW S \in SUBSET Nat, S # {}
    PROVE  \E m \in S : \A i \in S : m <= i
<1> DEFINE below == {0..(m - 1) : m \in S}
<1>1. below \subseteq FiniteSubsetsOf(Nat) /\ below # {}
  <2>1. \A m \in S : 0..(m - 1) \subseteq Nat /\ IsFiniteSet(0..(m - 1))
    BY FS_Interval
  <2> QED
    BY <2>1 DEF FiniteSubsetsOf
<1>2. PICK B \in below : \A R \in below : ~(<<R, B>> \in StrictSubsetOrdering(Nat))
  <2> HIDE DEF below
  <2> QED
    BY <1>1, FS_StrictSubsetOrderingWellFounded, WFMin
<1>3. PICK m \in S : B = 0..(m - 1)
  BY <1>2
<1>4. ASSUME NEW i \in S, i < m PROVE FALSE
  <2> DEFINE R == 0..(i - 1)
  <2>1. i \in Nat /\ m \in Nat
    OBVIOUS
  <2>2. R \in below /\ R \subseteq Nat /\ B \subseteq Nat
    BY <1>3, <2>1
  <2>3. i \in B /\ i \notin R
    BY <1>3, <1>4, <2>1
  <2>4. R \subseteq B
    BY <1>3, <1>4, <2>1
  <2> HIDE DEF R, below
  <2> QED
    BY <1>2, <2>2, <2>3, <2>4 DEF StrictSubsetOrdering
<1> QED
  BY <1>4
----------------------------------------------------------------------------
(***************************************************************************)
(* Source files, for any number of srcfiles, pointers, ids and sessions.   *)
(* First, the registry and the infos are each other's inverse (IInv).      *)
(* What carries it over a restart is that the saved pairs are one to one,  *)
(* since saveState copies them in one go; what carries it over a late      *)
(* finalizer is that a marked pointer still has its info.                  *)
(* Then, who has which id (OwnInv).  Every id is its srcfile's path or was *)
(* generated, and an id is generated only when the registry does not have  *)
(* it: among as many numbers as there are pointers and one more one is     *)
(* free.  The image keeps the same of the srcfiles it brings back.         *)
(* Last, a srcfile with a marked pointer was given it when it was marked   *)
(* (StaleInv), for the collector marks none that a srcfile has.            *)
(***************************************************************************)

IsRegistry(r, i) ==
    /\ \A id \in DOMAIN r : r[id] \in Ptrs /\ i[r[id]] = id /\ id # NoId
    /\ \A p \in Ptrs : i[p] # NoId => i[p] \in DOMAIN r /\ r[i[p]] = p

\* What is saved is one to one.
OneToOne(files) ==
    /\ \A f \in files : f[1] \in Ptrs /\ f[2] # NoId
    /\ \A f, g \in files : f[1] = g[1] \/ f[2] = g[2] => f = g

IInv ==
    /\ info = [p \in Ptrs |-> info[p]]
    /\ IsRegistry(registry, info)
    /\ \A p \in marked : p \in Ptrs /\ info[p] # NoId
    /\ OneToOne(saving.files) /\ OneToOne(image.files)
----------------------------------------------------------------------------
LEMMA Start == Init => IInv
BY DEF Init, IInv, IsRegistry, OneToOne, Idle, NoImage

(* An id gets a new pointer only when it has none.                         *)
LEMMA GetKeeps ==
    ASSUME IInv, NEW id, id # NoId, NEW p \in Ptrs, GetVirtualFileById(id, p)
    PROVE  /\ info' = [q \in Ptrs |-> info'[q]] /\ IsRegistry(registry, info)'
           /\ \A q \in Ptrs : info[q] # NoId => info'[q] = info[q]
<1>1. CASE id \in DOMAIN registry
  BY <1>1 DEF GetVirtualFileById, IInv, IsRegistry
<1>2. CASE id \notin DOMAIN registry
  <2>1. info[p] = NoId /\ \A k \in DOMAIN registry : registry[k] # p
    BY <1>2 DEF GetVirtualFileById, Unused, Range
  <2>2. info' = [info EXCEPT ![p] = id]
    BY <1>2 DEF GetVirtualFileById
  <2>3. /\ DOMAIN registry' = DOMAIN registry \cup {id} /\ registry'[id] = p
        /\ \A k \in DOMAIN registry : registry'[k] = registry[k]
    BY <1>2 DEF GetVirtualFileById, Insert
  <2> QED
    BY <1>2, <2>1, <2>2, <2>3 DEF IInv, IsRegistry
<1> QED
  BY <1>1, <1>2

(* The finalizers take the ids out of the registry with their infos.       *)
LEMMA CollectKeeps ==
    ASSUME IInv, RunFinalizers
    PROVE  IInv'
<1> DEFINE S == marked
<1>1. Collect(S) /\ marked' = {} /\ \A p \in S : p \in Ptrs /\ info[p] # NoId
  BY DEF RunFinalizers, IInv
<1> HIDE DEF S
<1>2. /\ info' = [p \in Ptrs |-> IF p \in S THEN NoId ELSE info[p]]
      /\ DOMAIN registry' = DOMAIN registry \ {info[p] : p \in S}
      /\ \A id \in DOMAIN registry' : registry'[id] = registry[id]
  BY <1>1 DEF Collect, Erase, Restrict
<1>3. IsRegistry(registry, info)'
  <2>1. ASSUME NEW id \in DOMAIN registry'
        PROVE  registry'[id] \in Ptrs /\ info'[registry'[id]] = id /\ id # NoId
    <3>1. registry[id] \in Ptrs /\ info[registry[id]] = id /\ id # NoId
      BY <1>2 DEF IInv, IsRegistry
    <3> QED
      BY <1>2, <3>1
  <2>2. ASSUME NEW p \in Ptrs, info'[p] # NoId
        PROVE  info'[p] \in DOMAIN registry' /\ registry'[info'[p]] = p
    <3>1. p \notin S /\ info'[p] = info[p]
      BY <1>2, <2>2
    <3>2. info[p] \in DOMAIN registry /\ registry[info[p]] = p
      BY <2>2, <3>1 DEF IInv, IsRegistry
    <3>3. \A q \in S : q \in Ptrs /\ info[q] # NoId /\ info[q] # info[p]
      BY <1>1, <2>2, <3>1, <3>2 DEF IInv, IsRegistry
    <3> QED
      BY <1>2, <3>1, <3>2, <3>3
  <2> QED
    BY <2>1, <2>2 DEF IsRegistry
<1> QED
  BY <1>1, <1>2, <1>3 DEF IInv, RunFinalizers, OneToOne

LEMMA MarkKeeps ==
    ASSUME IInv, MarkUnreachable
    PROVE  IInv'
BY DEF MarkUnreachable, IInv, IsRegistry, OneToOne

LEMMA RegisterKeeps ==
    ASSUME IInv, RegisterSrcfile \/ AddBreakpoint
    PROVE  IInv'
<1>1. \E id, p : id # NoId /\ p \in Ptrs /\ GetVirtualFileById(id, p)
  <2>1. CASE RegisterSrcfile
    <3>1. \A n : Generated(n) # NoId
      BY DEF Generated, NoId
    <3>2. PICK s \in alive :
               \E n \in {IF PathOf[s] = NoId THEN FreshFileId ELSE 0} :
                  \E id \in {IF PathOf[s] = NoId THEN Generated(n) ELSE PathOf[s]} :
                     \E p \in Ptrs : GetVirtualFileById(id, p)
      BY <2>1, Zenon DEF RegisterSrcfile
    <3>3. PICK n : \E id \in {IF PathOf[s] = NoId THEN Generated(n) ELSE PathOf[s]} :
                     \E p \in Ptrs : GetVirtualFileById(id, p)
      BY <3>2, Zenon
    <3>4. (IF PathOf[s] = NoId THEN Generated(n) ELSE PathOf[s]) # NoId
      BY <3>1
    <3> QED
      BY <3>3, <3>4, Zenon
  <2>2. CASE AddBreakpoint
    BY <2>2 DEF AddBreakpoint
  <2> QED
    BY <2>1, <2>2
<1>2. saving' = saving /\ image' = image /\ marked' = marked
  BY DEF RegisterSrcfile, AddBreakpoint
<1>3. PICK id, p : id # NoId /\ p \in Ptrs /\ GetVirtualFileById(id, p)
  BY <1>1
<1>4. /\ info' = [q \in Ptrs |-> info'[q]] /\ IsRegistry(registry, info)'
      /\ \A q \in Ptrs : info[q] # NoId => info'[q] = info[q]
  BY <1>3, GetKeeps
<1> QED
  BY <1>2, <1>4 DEF IInv, OneToOne

(* Saving copies pairs of the pointers that live.                          *)
LEMMA SaveKeeps ==
    ASSUME IInv, SaveState
    PROVE  IInv'
<1>1. OneToOne(Entries)
  BY DEF OneToOne, Entries, IInv, IsRegistry, Range
<1>2. saving'.files = Entries
  BY DEF SaveState
<1> QED
  BY <1>1, <1>2 DEF SaveState, IInv, IsRegistry, OneToOne

LEMMA RestartKeeps ==
    ASSUME IInv, SaveAndRestart \/ Crash
    PROVE  IInv'
<1>1. OneToOne(image'.files)
  BY DEF SaveAndRestart, Crash, IInv
<1>2. NewSession
  BY DEF SaveAndRestart, Crash
<1> QED
  BY <1>1, <1>2 DEF NewSession, IInv, IsRegistry, OneToOne, Idle

(* The pairs whose ids are new join a registry that knows none of them.    *)
Joins(f) == f \in image.files /\ f[2] \notin DOMAIN registry \cup {NoId}

LEMMA LoadFacts ==
    ASSUME IInv, LoadWorkspace
    PROVE  /\ info' = [p \in Ptrs |-> info'[p]]
           /\ DOMAIN registry \subseteq DOMAIN registry'
           /\ \A id \in DOMAIN registry : registry'[id] = registry[id]
           /\ \A id \in DOMAIN registry' : id \in DOMAIN registry \/ \E f : Joins(f) /\ f[2] = id
           /\ \A f : Joins(f) => /\ f[2] \in DOMAIN registry' /\ registry'[f[2]] = f[1]
                                /\ f[1] \in Ptrs /\ info'[f[1]] = f[2] /\ info[f[1]] = NoId
           /\ \A p \in Ptrs : (\E f : Joins(f) /\ f[1] = p) \/ info'[p] = info[p]
           /\ \A p \in Ptrs : info[p] # NoId => info'[p] = info[p]
           /\ \A f \in image.files : \A id \in DOMAIN registry : registry[id] # f[1]
<1> DEFINE fresh == {f \in image.files : f[2] \notin DOMAIN registry \cup {NoId}}
           At(p) == CHOOSE f \in fresh : f[1] = p
           For(id) == CHOOSE f \in fresh : f[2] = id
<1>1. /\ info' = [p \in Ptrs |-> IF \E f \in fresh : f[1] = p THEN At(p)[2] ELSE info[p]]
      /\ registry' = Insert([id \in {f[2] : f \in fresh} |-> For(id)[1]], registry)
      /\ \A f \in image.files : \A id \in DOMAIN registry : registry[id] # f[1]
  <2>1. \A f \in image.files : f[1] \notin Range(registry)
    <3>1. \A f \in image.files : f[1] \in Ptrs /\ f[1] # NoPtr
      BY VirtualFilesAssumption DEF IInv, OneToOne
    <3> QED
      BY <3>1 DEF LoadWorkspace, ImagePtrs
  <2>2. \A f \in image.files : \A id \in DOMAIN registry : registry[id] # f[1]
    BY <2>1 DEF Range
  <2>3. /\ info' = [p \in Ptrs |-> IF \E f \in fresh : f[1] = p THEN At(p)[2] ELSE info[p]]
        /\ registry' = Insert([id \in {f[2] : f \in fresh} |-> For(id)[1]], registry)
    BY DEF LoadWorkspace
  <2> QED
    BY <2>2, <2>3
<1>2. \A f \in fresh : At(f[1]) = f /\ For(f[2]) = f
  <2> SUFFICES ASSUME NEW f \in fresh PROVE At(f[1]) = f /\ For(f[2]) = f
    OBVIOUS
  <2>1. At(f[1]) \in fresh /\ At(f[1])[1] = f[1]
    OBVIOUS
  <2>2. For(f[2]) \in fresh /\ For(f[2])[2] = f[2]
    OBVIOUS
  <2> QED
    BY <2>1, <2>2 DEF IInv, OneToOne
<1> HIDE DEF At, For
<1>3. /\ DOMAIN registry' = {f[2] : f \in fresh} \cup DOMAIN registry
      /\ \A f \in fresh : registry'[f[2]] = f[1]
      /\ \A id \in DOMAIN registry : registry'[id] = registry[id]
  BY <1>1, <1>2 DEF Insert
<1>4. /\ \A f \in fresh : f[1] \in Ptrs /\ info'[f[1]] = f[2] /\ f[2] # NoId /\ info[f[1]] = NoId
      /\ \A p \in Ptrs : (\E f \in fresh : f[1] = p) \/ info'[p] = info[p]
  BY <1>1, <1>2 DEF IInv, IsRegistry, OneToOne
<1>5. \A p \in Ptrs : info[p] # NoId => info'[p] = info[p]
  BY <1>4
<1>6. \A f : f \in fresh <=> Joins(f)
  BY DEF Joins
<1>7. info' = [p \in Ptrs |-> info'[p]]
  BY <1>1
<1> HIDE DEF fresh
<1> QED
  BY <1>1, <1>3, <1>4, <1>5, <1>6, <1>7

LEMMA LoadKeeps ==
    ASSUME IInv, LoadWorkspace
    PROVE  IInv'
<1>1. IsRegistry(registry, info)'
  <2>1. ASSUME NEW id \in DOMAIN registry
        PROVE  info'[registry[id]] = id
    BY LoadFacts DEF IInv, IsRegistry
  <2>2. \A id \in DOMAIN registry' : registry'[id] \in Ptrs /\ info'[registry'[id]] = id /\ id # NoId
    <3>1. ASSUME NEW id \in DOMAIN registry
          PROVE  registry'[id] \in Ptrs /\ info'[registry'[id]] = id /\ id # NoId
      BY <2>1, LoadFacts DEF IInv, IsRegistry
    <3>2. ASSUME NEW f, Joins(f)
          PROVE  registry'[f[2]] \in Ptrs /\ info'[registry'[f[2]]] = f[2] /\ f[2] # NoId
      BY <3>2, LoadFacts DEF Joins
    <3> QED
      BY <3>1, <3>2, LoadFacts
  <2>3. \A p \in Ptrs : info'[p] # NoId => info'[p] \in DOMAIN registry' /\ registry'[info'[p]] = p
    BY LoadFacts DEF IInv, IsRegistry
  <2> QED
    BY <2>2, <2>3 DEF IsRegistry
<1>2. saving' = saving /\ image' = image /\ marked' = marked
  BY DEF LoadWorkspace
<1>3. \A p \in marked' : p \in Ptrs /\ info'[p] # NoId
  BY <1>2, LoadFacts DEF IInv
<1>4. OneToOne(saving'.files) /\ OneToOne(image'.files)
  BY <1>2 DEF IInv
<1> QED
  BY <1>1, <1>3, <1>4, LoadFacts DEF IInv

LEMMA StepKeeps == IInv /\ [Next]_vars => IInv'
<1> SUFFICES ASSUME IInv, [Next]_vars PROVE IInv'
  OBVIOUS
<1>1. CASE NewSrcfile \/ DropSrcfile \/ RemoveBreakpoint \/ UNCHANGED vars
  <2>1. UNCHANGED <<info, marked, registry, saving, image>>
    BY <1>1 DEF NewSrcfile, DropSrcfile, RemoveBreakpoint, vars
  <2> QED
    BY <2>1 DEF IInv, IsRegistry, OneToOne
<1> QED
  BY <1>1, RegisterKeeps, MarkKeeps, CollectKeeps, SaveKeeps, RestartKeeps, LoadKeeps DEF Next

(* Through collections, finalizers, saves and loads no id leads to a       *)
(* destroyed info, and no two infos answer for one file.                   *)
THEOREM AlwaysRegistryIsTheInfos == Spec => []RegistryIsTheInfos
<1>1. IInv => RegistryIsTheInfos
  BY DEF IInv, IsRegistry, RegistryIsTheInfos
<1>2. Spec => Init /\ [][Next]_vars
  BY PTL DEF Spec
<1> QED
  BY <1>1, <1>2, Start, StepKeeps, PTL
---------------------------------------------------------------------------
(* Ids of their own.                                                       *)

\* A generated id is new: there are more numbers to try than pointers.
LEMMA FreshIdIsFree ==
    ASSUME IInv, counter \in Nat
    PROVE  FreshFileId \in Nat /\ Generated(FreshFileId) \notin DOMAIN registry
<1> DEFINE tried == counter..(counter + Cardinality(Ptrs))
           free == {n \in tried : Generated(n) \notin DOMAIN registry}
<1>1. Cardinality(Ptrs) \in Nat
  BY VirtualFilesAssumption, FS_CardinalityType
<1>2. free # {}
  <2> SUFFICES ASSUME \A n \in tried : Generated(n) \in DOMAIN registry PROVE FALSE
    OBVIOUS
  <2> DEFINE at == [n \in tried |-> registry[Generated(n)]]
  <2>1. IsFiniteSet(tried) /\ Cardinality(tried) = Cardinality(Ptrs) + 1
    <3>1. counter \in Int /\ counter + Cardinality(Ptrs) \in Int /\ counter <= counter + Cardinality(Ptrs)
      BY <1>1
    <3> QED
      BY <1>1, <3>1, FS_Interval
  <2>2. at \in [tried -> Ptrs]
    BY DEF IInv, IsRegistry
  <2>3. Cardinality(Ptrs) < Cardinality(tried)
    BY <1>1, <2>1
  <2>4. PICK m, n \in tried : m # n /\ at[m] = at[n]
    <3> HIDE DEF at, tried
    <3> QED
      BY <2>1, <2>2, <2>3, VirtualFilesAssumption, FS_PigeonHole
  <2>5. Generated(m) = Generated(n)
    BY <2>4 DEF IInv, IsRegistry
  <2> QED
    BY <2>4, <2>5 DEF Generated
<1>3. free \subseteq Nat
  BY <1>1
<1>4. PICK n \in free : \A k \in free : ~(k < n)
  <2>1. free \subseteq Nat
    BY <1>3
  <2> HIDE DEF free
  <2>2. PICK n \in free : \A k \in free : n <= k
    BY <1>2, <2>1, Least
  <2> QED
    BY <2>1, <2>2
<1>5. \A k \in counter..(n - 1) : Generated(k) \in DOMAIN registry
  BY <1>1, <1>4
<1>6. /\ FreshFileId \in tried /\ Generated(FreshFileId) \notin DOMAIN registry
  BY <1>4, <1>5 DEF FreshFileId
<1> QED
  BY <1>1, <1>6

\* What a srcfile may be registered as.
Fits(id, s) == IF PathOf[s] = NoId THEN \E n \in Nat : id = Generated(n) ELSE id = PathOf[s]
Owned(S, a) == \A s, t \in S : s # t /\ a[s] = a[t] /\ a[s] # NoPtr =>
                                 PathOf[s] # NoId /\ PathOf[s] = PathOf[t]

LiveInv ==
    /\ alive \subseteq Srcfiles /\ counter \in Nat
    /\ attr = [s \in Srcfiles |-> attr[s]]
    /\ \A s \in alive : attr[s] \in Ptrs \cup {NoPtr}
    /\ Owned(alive, attr)
    /\ \A s \in alive : IdOf(s) # NoId => Fits(IdOf(s), s)

\* What the image says of a srcfile, it can give back.
ImageInv ==
    /\ image.alive \subseteq Srcfiles /\ image.alive \subseteq DOMAIN image.attr
    /\ image.counter \in Nat
    /\ \A s \in image.alive : image.attr[s] \in Ptrs \cup {NoPtr}
    /\ Owned(image.alive, image.attr)
    /\ \A s \in image.alive : \A f \in image.files : f[1] = image.attr[s] => Fits(f[2], s)
    /\ \A s \in image.alive : image.ids[s] # NoId => <<image.attr[s], image.ids[s]>> \in image.files

\* So can what saveState has returned: it has all files there are still.
CopiedInv ==
    saving.at = "copied" =>
      /\ \A p \in Ptrs : info[p] # NoId => <<p, info[p]>> \in saving.files
      /\ \A s \in alive : \A f \in saving.files : f[1] = attr[s] => Fits(f[2], s)
OwnInv == LiveInv /\ ImageInv /\ CopiedInv
StaleInv == \A s \in alive : attr[s] \in marked => s \in stale

LEMMA OwnStart == Init => OwnInv
BY DEF Init, OwnInv, LiveInv, ImageInv, CopiedInv, Owned, NoImage, Idle, IdOf

(* What a srcfile is registered as.                                        *)
LEMMA RegisterFacts ==
    ASSUME IInv, counter \in Nat, RegisterSrcfile
    PROVE  \E s \in alive, p \in Ptrs : \E id :
             /\ ~Registered(s) /\ id # NoId /\ Fits(id, s)
             /\ PathOf[s] = NoId => id \notin DOMAIN registry
             /\ GetVirtualFileById(id, p) /\ attr' = [attr EXCEPT ![s] = p]
             /\ counter' \in Nat
             /\ stale' = (IF p \in marked THEN stale \cup {s} ELSE stale)
             /\ UNCHANGED <<alive, marked, breakpoints, image, saving, session, loaded>>
<1>1. FreshFileId \in Nat /\ Generated(FreshFileId) \notin DOMAIN registry
  BY FreshIdIsFree
<1>2. PICK s \in alive :
             /\ ~Registered(s)
             /\ \E n \in {IF PathOf[s] = NoId THEN FreshFileId ELSE 0} :
                  \E id \in {IF PathOf[s] = NoId THEN Generated(n) ELSE PathOf[s]} : \E p \in Ptrs :
                    /\ n <= MaxFileId
                    /\ counter' = IF PathOf[s] = NoId THEN n + 1 ELSE counter
                    /\ GetVirtualFileById(id, p)
                    /\ attr' = [attr EXCEPT ![s] = p]
                    /\ stale' = (IF p \in marked THEN stale \cup {s} ELSE stale)
  BY Zenon DEF RegisterSrcfile
<1>3. PICK n \in {IF PathOf[s] = NoId THEN FreshFileId ELSE 0} :
             \E id \in {IF PathOf[s] = NoId THEN Generated(n) ELSE PathOf[s]} : \E p \in Ptrs :
                    /\ n <= MaxFileId
                    /\ counter' = IF PathOf[s] = NoId THEN n + 1 ELSE counter
                    /\ GetVirtualFileById(id, p)
                    /\ attr' = [attr EXCEPT ![s] = p]
                    /\ stale' = (IF p \in marked THEN stale \cup {s} ELSE stale)
  BY <1>2, Zenon
<1>4. PICK id \in {IF PathOf[s] = NoId THEN Generated(n) ELSE PathOf[s]} : \E p \in Ptrs :
                    /\ counter' = IF PathOf[s] = NoId THEN n + 1 ELSE counter
                    /\ GetVirtualFileById(id, p)
                    /\ attr' = [attr EXCEPT ![s] = p]
                    /\ stale' = (IF p \in marked THEN stale \cup {s} ELSE stale)
  BY <1>3, Zenon
<1>5. PICK p \in Ptrs : /\ counter' = IF PathOf[s] = NoId THEN n + 1 ELSE counter
                        /\ GetVirtualFileById(id, p)
                        /\ attr' = [attr EXCEPT ![s] = p]
                        /\ stale' = (IF p \in marked THEN stale \cup {s} ELSE stale)
  BY <1>4, Zenon
<1>6. /\ id = IF PathOf[s] = NoId THEN Generated(n) ELSE PathOf[s]
      /\ n = IF PathOf[s] = NoId THEN FreshFileId ELSE 0
  OBVIOUS
<1>7. /\ Fits(id, s) /\ (PathOf[s] = NoId => id \notin DOMAIN registry)
      /\ counter' \in Nat
  BY <1>1, <1>5, <1>6 DEF Fits
<1>8. id # NoId
  BY <1>6 DEF Generated, NoId
<1>9. UNCHANGED <<alive, marked, breakpoints, image, saving, session, loaded>>
  BY DEF RegisterSrcfile
<1> QED
  BY <1>2, <1>5, <1>7, <1>8, <1>9

(* A srcfile joins those of its path, or has a pointer nobody has.         *)
LEMMA RegisterOwns ==
    ASSUME IInv, OwnInv, RegisterSrcfile
    PROVE  OwnInv'
<1>1. PICK s, p, id :
             /\ s \in alive /\ p \in Ptrs
             /\ ~Registered(s) /\ id # NoId /\ Fits(id, s)
             /\ PathOf[s] = NoId => id \notin DOMAIN registry
             /\ GetVirtualFileById(id, p) /\ attr' = [attr EXCEPT ![s] = p]
             /\ counter' \in Nat
             /\ stale' = (IF p \in marked THEN stale \cup {s} ELSE stale)
             /\ UNCHANGED <<alive, marked, breakpoints, image, saving, session, loaded>>
  BY RegisterFacts DEF OwnInv, LiveInv
<1>2. /\ \A q \in Ptrs : info[q] # NoId => info'[q] = info[q]
      /\ \A q \in Ptrs : q # p => info'[q] = info[q]
      /\ info'[p] = id
      /\ id \in DOMAIN registry \/ \A t \in alive : attr[t] # p
  <2>1. \A q \in Ptrs : info[q] # NoId => info'[q] = info[q]
    BY <1>1, GetKeeps
  <2>2. CASE id \in DOMAIN registry
    BY <1>1, <2>1, <2>2 DEF GetVirtualFileById, IInv, IsRegistry
  <2>3. CASE id \notin DOMAIN registry
    <3>1. p \in Unused /\ info' = [info EXCEPT ![p] = id]
      BY <1>1, <2>3 DEF GetVirtualFileById
    <3> QED
      BY <2>1, <3>1 DEF Unused, Reachable, IInv
  <2> QED
    BY <2>2, <2>3
<1>3. \A t \in alive : attr'[t] = IF t = s THEN p ELSE attr[t]
  BY <1>1 DEF OwnInv, LiveInv
<1>4. ASSUME NEW t \in alive, attr[t] = p, t # s
      PROVE  PathOf[s] # NoId /\ PathOf[s] = PathOf[t]
  <2>1. id \in DOMAIN registry /\ registry[id] = p /\ info[p] = id
    BY <1>1, <1>2, <1>4 DEF GetVirtualFileById, IInv, IsRegistry
  <2>2. PathOf[s] # NoId /\ id = PathOf[s]
    BY <1>1, <2>1 DEF Fits
  <2>3. IdOf(t) = id /\ Fits(id, t)
    BY <1>1, <1>4, <2>1, VirtualFilesAssumption DEF OwnInv, LiveInv, IdOf
  <2>4. \A n \in Nat : PathOf[s] # Generated(n)
    BY <1>1, VirtualFilesAssumption DEF Generated, OwnInv, LiveInv
  <2> QED
    BY <2>2, <2>3, <2>4 DEF Fits
<1>5. Owned(alive, attr)'
  <2>1. ASSUME NEW t \in alive, NEW u \in alive, t # u, attr'[t] = attr'[u], attr'[t] # NoPtr
        PROVE  PathOf[t] # NoId /\ PathOf[t] = PathOf[u]
    <3>1. CASE t # s /\ u # s
      BY <1>3, <2>1, <3>1 DEF OwnInv, LiveInv, Owned
    <3>2. CASE t = s
      BY <1>3, <1>4, <2>1, <3>2
    <3>3. CASE u = s
      BY <1>3, <1>4, <2>1, <3>3
    <3> QED
      BY <3>1, <3>2, <3>3
  <2>2. alive' = alive
    BY <1>1
  <2> QED
    BY <2>1, <2>2 DEF Owned
<1>6. ASSUME NEW t \in alive, IdOf(t)' # NoId PROVE Fits(IdOf(t)', t)
  <2>1. CASE t = s
    BY <1>1, <1>2, <1>3, <2>1, VirtualFilesAssumption DEF IdOf
  <2>2. CASE t # s
    <3>1. IdOf(t)' = IF attr[t] = NoPtr THEN NoId ELSE info'[attr[t]]
      BY <1>3, <2>2 DEF IdOf
    <3>2. CASE attr[t] = p
      BY <1>1, <1>2, <1>4, <2>2, <3>1, <3>2, VirtualFilesAssumption DEF Fits
    <3>3. CASE attr[t] # p
      BY <1>2, <1>6, <3>1, <3>3 DEF OwnInv, LiveInv, IdOf
    <3> QED
      BY <3>2, <3>3
  <2> QED
    BY <2>1, <2>2
<1>8. LiveInv'
  <2>1. attr' = [t \in Srcfiles |-> attr'[t]] /\ \A t \in alive : attr'[t] \in Ptrs \cup {NoPtr}
    BY <1>1, <1>3 DEF OwnInv, LiveInv
  <2>2. \A t \in alive' : IdOf(t)' # NoId => Fits(IdOf(t)', t)
    BY <1>1, <1>6
  <2> QED
    BY <1>1, <1>5, <2>1, <2>2 DEF OwnInv, LiveInv, Fits, IdOf
<1>9. saving'.at # "copied"
  BY <1>1 DEF RegisterSrcfile
<1> QED
  BY <1>1, <1>8, <1>9 DEF OwnInv, ImageInv, CopiedInv, Fits, Owned

(* What is alive, its pointers and the image stay, and the infos of the    *)
(* pointers that srcfiles have stay or go.                                 *)
LEMMA StaysOwned ==
    ASSUME OwnInv, UNCHANGED <<alive, attr, counter, image, loaded>>, CopiedInv',
           \A s \in alive : attr[s] # NoPtr => info'[attr[s]] \in {info[attr[s]], NoId}
    PROVE  OwnInv'
<1>1. \A s \in alive : IdOf(s)' \in {IdOf(s), NoId}
  BY DEF IdOf
<1>2. Owned(alive, attr)'
  BY DEF Owned, OwnInv, LiveInv
<1>3. \A s \in alive' : IdOf(s)' # NoId => Fits(IdOf(s)', s)
  BY <1>1 DEF OwnInv, LiveInv
<1>4. LiveInv'
  BY <1>2, <1>3 DEF OwnInv, LiveInv, Fits, IdOf
<1> QED
  BY <1>4 DEF OwnInv, ImageInv, Fits, Owned

LEMMA OthersOwn ==
    ASSUME IInv, OwnInv,
           AddBreakpoint \/ RemoveBreakpoint \/ MarkUnreachable \/ RunFinalizers \/ SaveState
             \/ UNCHANGED vars
    PROVE  OwnInv'
<1>1. CASE AddBreakpoint
  <2>1. PICK id, p : p \in Ptrs /\ GetVirtualFileById(id, p) /\ id # NoId
    BY <1>1 DEF AddBreakpoint
  <2>2. \A s \in alive : attr[s] # NoPtr => info'[attr[s]] = info[attr[s]]
    <3>1. CASE id \in DOMAIN registry
      BY <2>1, <3>1 DEF GetVirtualFileById
    <3>2. CASE id \notin DOMAIN registry
      BY <2>1, <3>2 DEF GetVirtualFileById, Unused, Reachable, OwnInv, LiveInv, IInv
    <3> QED
      BY <3>1, <3>2
  <2> QED
    BY <1>1, <2>2, StaysOwned DEF AddBreakpoint, CopiedInv
<1>2. CASE RunFinalizers
  <2>1. info' = [p \in Ptrs |-> IF p \in marked THEN NoId ELSE info[p]]
    BY <1>2 DEF RunFinalizers, Collect
  <2>2. UNCHANGED <<alive, attr, counter, image, loaded, saving>>
    BY <1>2 DEF RunFinalizers
  <2>3. \A s \in alive : attr[s] # NoPtr => info'[attr[s]] \in {info[attr[s]], NoId}
    BY <2>1 DEF OwnInv, LiveInv
  <2>4. CopiedInv'
    BY <2>1, <2>2 DEF OwnInv, CopiedInv, Fits
  <2> QED
    BY <2>2, <2>3, <2>4, StaysOwned
<1>3. CASE SaveState
  <2>1. saving'.files = Entries /\ UNCHANGED <<alive, attr, counter, image, loaded, info>>
    BY <1>3 DEF SaveState
  <2>2. ASSUME NEW p \in Ptrs, info[p] # NoId PROVE <<p, info[p]>> \in Entries
    BY <2>2 DEF IInv, IsRegistry, Entries, Range
  <2>3. ASSUME NEW s \in alive, NEW f \in Entries, f[1] = attr[s] PROVE Fits(f[2], s)
    <3>1. f[1] \in Ptrs /\ f[2] = info[f[1]] /\ f[2] # NoId
      BY DEF Entries, IInv, IsRegistry, Range
    <3> QED
      BY <2>3, <3>1, VirtualFilesAssumption DEF OwnInv, LiveInv, IdOf
  <2>4. CopiedInv'
    BY <2>1, <2>2, <2>3 DEF CopiedInv, Fits
  <2> QED
    BY <2>1, <2>4, StaysOwned
<1>4. CASE RemoveBreakpoint \/ MarkUnreachable \/ UNCHANGED vars
  <2>1. UNCHANGED <<alive, attr, counter, image, loaded, info, saving>>
    BY <1>4 DEF RemoveBreakpoint, MarkUnreachable, vars
  <2>2. CopiedInv'
    BY <2>1 DEF OwnInv, CopiedInv, Fits
  <2> QED
    BY <2>1, <2>2, StaysOwned
<1> QED
  BY <1>1, <1>2, <1>3, <1>4

LEMMA SrcfilesOwn ==
    ASSUME OwnInv, NewSrcfile \/ DropSrcfile
    PROVE  OwnInv'
<1>1. PICK s \in Srcfiles :
        /\ attr' = [attr EXCEPT ![s] = NoPtr]
        /\ alive' = alive \cup {s} \/ alive' = alive \ {s}
  BY DEF NewSrcfile, DropSrcfile, OwnInv, LiveInv
<1>2. /\ UNCHANGED <<info, registry, counter, breakpoints, image, saving, session, loaded>>
      /\ saving.at = "idle"
  BY DEF NewSrcfile, DropSrcfile
<1>3. \A t \in alive' : IF t = s THEN attr'[t] = NoPtr ELSE t \in alive /\ attr'[t] = attr[t]
  BY <1>1 DEF OwnInv, LiveInv
<1>4. \A t \in alive' : IdOf(t)' # NoId => t \in alive /\ IdOf(t)' = IdOf(t)
  BY <1>2, <1>3 DEF IdOf
<1>5. Owned(alive, attr)'
  BY <1>3 DEF Owned, OwnInv, LiveInv
<1>6. \A t \in alive' : IdOf(t)' # NoId => Fits(IdOf(t)', t)
  BY <1>4 DEF OwnInv, LiveInv
<1>7. attr' = [t \in Srcfiles |-> attr'[t]] /\ alive' \subseteq Srcfiles
  BY <1>1 DEF OwnInv, LiveInv
<1>8. LiveInv'
  BY <1>2, <1>3, <1>5, <1>6, <1>7 DEF OwnInv, LiveInv, Fits, IdOf
<1> QED
  BY <1>2, <1>8 DEF OwnInv, ImageInv, CopiedInv, Fits, Owned

(* The image is what was alive; a new session has nothing of its own.      *)
LEMMA RestartOwns ==
    ASSUME IInv, OwnInv, SaveAndRestart \/ Crash
    PROVE  OwnInv'
<1>1. NewSession
  BY DEF SaveAndRestart, Crash
<1>2. LiveInv' /\ CopiedInv'
  BY <1>1 DEF NewSession, LiveInv, CopiedInv, Idle, Owned
<1>3. CASE Crash
  BY <1>2, <1>3 DEF Crash, OwnInv, ImageInv, Fits, Owned
<1>4. CASE SaveAndRestart
  <2>1. /\ image'.alive = alive /\ image'.attr = attr /\ image'.files = saving.files
        /\ image'.counter = counter /\ image'.ids = [s \in Srcfiles |-> IdOf(s)]
        /\ saving.at = "copied"
    BY <1>4 DEF SaveAndRestart
  <2>2. ASSUME NEW s \in alive, NEW f \in saving.files, f[1] = attr[s] PROVE Fits(f[2], s)
    BY <2>1, <2>2 DEF OwnInv, CopiedInv
  <2>3. ASSUME NEW s \in alive, IdOf(s) # NoId PROVE <<attr[s], IdOf(s)>> \in saving.files
    <3>1. attr[s] \in Ptrs /\ IdOf(s) = info[attr[s]]
      BY <2>3 DEF IdOf, OwnInv, LiveInv
    <3> QED
      BY <2>1, <2>3, <3>1 DEF OwnInv, CopiedInv
  <2>4. alive \subseteq Srcfiles
    BY DEF OwnInv, LiveInv
  <2>5. \A s \in image'.alive : image'.ids[s] # NoId =>
                                  <<image'.attr[s], image'.ids[s]>> \in image'.files
    BY <2>1, <2>3, <2>4
  <2>6. \A s \in image'.alive : \A f \in image'.files : f[1] = image'.attr[s] => Fits(f[2], s)
    BY <2>1, <2>2
  <2>7. Owned(image'.alive, image'.attr)
    BY <2>1 DEF OwnInv, LiveInv
  <2>8. ImageInv'
    BY <2>1, <2>4, <2>5, <2>6, <2>7 DEF OwnInv, LiveInv, ImageInv, Fits, Owned
  <2> QED
    BY <1>2, <2>8 DEF OwnInv
<1> QED
  BY <1>3, <1>4

(* The srcfiles of the image and those of the session share no pointer,    *)
(* and have the ids they had.                                              *)
LEMMA LoadOwns ==
    ASSUME IInv, OwnInv, LoadWorkspace
    PROVE  /\ OwnInv'
           /\ \A s \in alive : IdOf(s)' = IdOf(s)
           /\ \A s \in image.alive : image.ids[s] # NoId =>
                IdOf(s)' = image.ids[s] \/ image.ids[s] \in DOMAIN registry
<1>1. /\ alive' = alive \cup image.alive /\ alive \cap image.alive = {}
      /\ attr' = [s \in Srcfiles |-> IF s \in alive THEN attr[s] ELSE image.attr[s]]
      /\ counter' = image.counter /\ ~loaded /\ loaded' = TRUE /\ saving.at = "idle"
      /\ ImagePtrs \cap (Range(registry) \cup Reachable) = {}
      /\ UNCHANGED <<image, saving>>
  BY DEF LoadWorkspace
<1>2. /\ alive \subseteq Srcfiles /\ image.alive \subseteq Srcfiles
      /\ \A s \in alive : attr[s] \in Ptrs \cup {NoPtr}
      /\ \A s \in image.alive : image.attr[s] \in Ptrs \cup {NoPtr}
  BY DEF OwnInv, LiveInv, ImageInv
<1>3. /\ \A s \in alive : attr'[s] = attr[s] /\ s \notin image.alive
      /\ \A s \in image.alive : attr'[s] = image.attr[s] /\ s \notin alive
  BY <1>1, <1>2
<1>4. ASSUME NEW s \in alive, attr[s] # NoPtr
      PROVE  attr[s] \in Ptrs /\ attr[s] \notin ImagePtrs /\ info'[attr[s]] = info[attr[s]]
  <2>1. attr[s] \in Ptrs /\ attr[s] \notin ImagePtrs
    BY <1>1, <1>2, <1>4 DEF Reachable
  <2>2. \A f \in image.files : f[1] # attr[s]
    BY <1>4, <2>1 DEF ImagePtrs
  <2> QED
    BY <2>1, <2>2, LoadFacts DEF Joins
<1>5. \A s \in alive : IdOf(s)' = IdOf(s)
  BY <1>3, <1>4 DEF IdOf
<1>6. ASSUME NEW s \in image.alive, image.attr[s] # NoPtr
      PROVE  /\ image.attr[s] \in Ptrs /\ image.attr[s] \in ImagePtrs
             /\ info[image.attr[s]] = NoId
  <2>1. image.attr[s] \in Ptrs /\ image.attr[s] \in ImagePtrs
    BY <1>2, <1>6 DEF OwnInv, ImageInv, ImagePtrs, Range
  <2> QED
    BY <1>1, <2>1 DEF IInv, IsRegistry, Range
<1>7. ASSUME NEW s \in image.alive, IdOf(s)' # NoId PROVE Fits(IdOf(s)', s)
  <2>1. image.attr[s] # NoPtr /\ IdOf(s)' = info'[image.attr[s]]
    BY <1>3, <1>7 DEF IdOf
  <2>2. PICK f : Joins(f) /\ f[1] = image.attr[s]
    BY <1>6, <1>7, <2>1, LoadFacts
  <2> QED
    BY <2>1, <2>2, LoadFacts DEF Joins, OwnInv, ImageInv
<1>8. ASSUME NEW s \in image.alive, image.ids[s] # NoId
      PROVE  IdOf(s)' = image.ids[s] \/ image.ids[s] \in DOMAIN registry
  <2> DEFINE f == <<image.attr[s], image.ids[s]>>
  <2>1. f \in image.files /\ f[1] = image.attr[s] /\ f[2] = image.ids[s]
    BY <1>8 DEF OwnInv, ImageInv
  <2> HIDE DEF f
  <2>2. ASSUME image.ids[s] \notin DOMAIN registry PROVE IdOf(s)' = image.ids[s]
    <3>1. Joins(f)
      BY <1>8, <2>1, <2>2 DEF Joins
    <3>2. info'[image.attr[s]] = image.ids[s] /\ image.attr[s] \in Ptrs
      BY <2>1, <3>1, LoadFacts
    <3> QED
      BY <1>3, <3>2, VirtualFilesAssumption DEF IdOf
  <2> QED
    BY <2>2
<1>9. Owned(alive, attr)'
  <2>1. ASSUME NEW s \in alive', NEW t \in alive', s # t, attr'[s] = attr'[t], attr'[s] # NoPtr
        PROVE  PathOf[s] # NoId /\ PathOf[s] = PathOf[t]
    <3>1. CASE s \in alive /\ t \in alive
      BY <1>3, <2>1, <3>1 DEF OwnInv, LiveInv, Owned
    <3>2. CASE s \in image.alive /\ t \in image.alive
      BY <1>3, <2>1, <3>2 DEF OwnInv, ImageInv, Owned
    <3>3. ~(s \in alive /\ t \in image.alive) /\ ~(t \in alive /\ s \in image.alive)
      BY <1>3, <1>4, <1>6, <2>1
    <3> QED
      BY <1>1, <3>1, <3>2, <3>3
  <2> QED
    BY <2>1 DEF Owned
<1>10. \A s \in alive' : IdOf(s)' # NoId => Fits(IdOf(s)', s)
  <2>1. \A s \in alive : IdOf(s)' # NoId => Fits(IdOf(s)', s)
    BY <1>5 DEF OwnInv, LiveInv
  <2> QED
    BY <1>1, <1>7, <2>1
<1>11. LiveInv'
  <2>1. attr' = [s \in Srcfiles |-> attr'[s]] /\ alive' \subseteq Srcfiles
        /\ counter' \in Nat /\ \A s \in alive' : attr'[s] \in Ptrs \cup {NoPtr}
    BY <1>1, <1>2, <1>3 DEF OwnInv, ImageInv
  <2> QED
    BY <1>1, <1>9, <1>10, <2>1 DEF LiveInv, Fits, IdOf
<1>12. ImageInv' /\ CopiedInv'
  BY <1>1 DEF OwnInv, ImageInv, CopiedInv, Fits, Owned
<1> QED
  BY <1>5, <1>8, <1>11, <1>12 DEF OwnInv

LEMMA OwnStepKeeps == IInv /\ OwnInv /\ [Next]_vars => OwnInv'
<1> SUFFICES ASSUME IInv, OwnInv, [Next]_vars PROVE OwnInv'
  OBVIOUS
<1> QED
  BY RegisterOwns, OthersOwn, SrcfilesOwn, RestartOwns, LoadOwns DEF Next

(* No srcfile has a marked pointer but those that were given one.          *)
LEMMA StaleStart == Init => StaleInv
BY DEF Init, StaleInv

LEMMA StaleStepKeeps == IInv /\ OwnInv /\ StaleInv /\ [Next]_vars => StaleInv'
<1> SUFFICES ASSUME IInv, OwnInv, StaleInv, [Next]_vars PROVE StaleInv'
  OBVIOUS
<1>0. NoPtr \notin marked
  BY VirtualFilesAssumption DEF IInv
<1>1. CASE RegisterSrcfile
  <2>1. PICK s, p : /\ s \in alive /\ attr' = [attr EXCEPT ![s] = p]
                    /\ stale' = (IF p \in marked THEN stale \cup {s} ELSE stale)
                    /\ UNCHANGED <<alive, marked>>
    BY <1>1, RegisterFacts DEF OwnInv, LiveInv
  <2>2. \A t \in alive : attr'[t] = IF t = s THEN p ELSE attr[t]
    BY <2>1 DEF OwnInv, LiveInv
  <2> QED
    BY <2>1, <2>2 DEF StaleInv
<1>2. CASE NewSrcfile \/ DropSrcfile
  <2>1. PICK s : /\ attr' = [attr EXCEPT ![s] = NoPtr] /\ marked' = marked
                 /\ \/ alive' = alive \cup {s} /\ stale' = stale
                    \/ alive' = alive \ {s} /\ stale' = stale \ {s}
    BY <1>2 DEF NewSrcfile, DropSrcfile
  <2>2. \A t \in alive' : IF t = s THEN alive' = alive \cup {s} /\ attr'[t] = NoPtr
                          ELSE t \in alive /\ attr'[t] = attr[t]
    <3>1. alive' \subseteq Srcfiles
      BY <1>2 DEF NewSrcfile, DropSrcfile, OwnInv, LiveInv
    <3> QED
      BY <2>1, <3>1 DEF OwnInv, LiveInv
  <2> QED
    BY <1>0, <2>1, <2>2 DEF StaleInv
<1>3. CASE MarkUnreachable
  <2>1. PICK S : S \cap Reachable = {} /\ marked' = marked \cup S
    BY <1>3 DEF MarkUnreachable
  <2>2. \A s \in alive : attr[s] \notin S
    BY <2>1 DEF Reachable
  <2> QED
    BY <1>3, <2>1, <2>2 DEF StaleInv, MarkUnreachable
<1>4. CASE RunFinalizers \/ SaveAndRestart \/ Crash
  BY <1>4 DEF RunFinalizers, SaveAndRestart, Crash, NewSession, StaleInv
<1>5. CASE LoadWorkspace
  <2>1. /\ alive' = alive \cup image.alive
        /\ attr' = [s \in Srcfiles |-> IF s \in alive THEN attr[s] ELSE image.attr[s]]
        /\ ImagePtrs \cap Range(registry) = {}
        /\ UNCHANGED <<marked, stale>>
    BY <1>5 DEF LoadWorkspace
  <2>2. ASSUME NEW s \in alive', attr'[s] \in marked PROVE s \in stale'
    <3>1. CASE s \in alive
      BY <2>1, <2>2, <3>1 DEF StaleInv, OwnInv, LiveInv
    <3>2. CASE s \notin alive
      <4>1. attr'[s] = image.attr[s] /\ s \in DOMAIN image.attr
        BY <2>1, <3>2 DEF OwnInv, ImageInv
      <4>2. attr'[s] \in ImagePtrs
        BY <1>0, <2>2, <4>1 DEF ImagePtrs, Range
      <4>3. attr'[s] \in Range(registry)
        <5>1. attr'[s] \in Ptrs /\ info[attr'[s]] # NoId
          BY <2>2 DEF IInv
        <5>2. /\ info[attr'[s]] \in DOMAIN registry
              /\ registry[info[attr'[s]]] = attr'[s]
          BY <5>1 DEF IInv, IsRegistry
        <5> QED
          BY <5>2 DEF Range
      <4> QED
        BY <2>1, <4>2, <4>3
    <3> QED
      BY <3>1, <3>2
  <2> QED
    BY <2>1, <2>2 DEF StaleInv
<1>6. CASE AddBreakpoint \/ RemoveBreakpoint \/ SaveState \/ UNCHANGED vars
  <2>1. UNCHANGED <<alive, attr, marked, stale>>
    BY <1>6 DEF AddBreakpoint, RemoveBreakpoint, SaveState, vars
  <2> QED
    BY <2>1 DEF StaleInv
<1> QED
  BY <1>1, <1>2, <1>3, <1>4, <1>5, <1>6 DEF Next

LEMMA Always == Spec => [](IInv /\ OwnInv /\ StaleInv)
<1>1. Spec => Init /\ [][Next]_vars
  BY PTL DEF Spec
<1> QED
  BY <1>1, Start, StepKeeps, OwnStart, OwnStepKeeps, StaleStart, StaleStepKeeps, PTL

(* A text of its own has an id of its own, also when a workspace was       *)
(* loaded whose files took their ids in another session.                   *)
THEOREM OwnIds == Spec => []TextsHaveTheirOwnIds
<1>1. IInv /\ OwnInv => TextsHaveTheirOwnIds
  <2> SUFFICES ASSUME IInv, OwnInv, NEW s \in alive, NEW t \in alive, s # t, IdOf(s) # NoId,
                      IdOf(s) = IdOf(t)
               PROVE  PathOf[s] # NoId /\ PathOf[s] = PathOf[t]
    BY DEF TextsHaveTheirOwnIds
  <2>1. /\ attr[s] # NoPtr /\ attr[t] # NoPtr /\ attr[s] \in Ptrs /\ attr[t] \in Ptrs
        /\ info[attr[s]] = info[attr[t]] /\ info[attr[s]] # NoId
    BY DEF IdOf, OwnInv, LiveInv
  <2>2. attr[s] = attr[t]
    BY <2>1 DEF IInv, IsRegistry
  <2> QED
    BY <2>1, <2>2 DEF OwnInv, LiveInv, Owned
<1> QED
  BY <1>1, Always, PTL

(* A srcfile keeps its id while it lives, whatever is collected, loaded or *)
(* registered meanwhile, unless the pointer it was given was marked then,  *)
(* whose info the finalizer deletes (createVirtualFileInfo,                *)
(* getVirtualFileById).                                                    *)
THEOREM IdsNeverChange == Spec => IdsStay
<1> DEFINE A == \A s \in alive \cap alive' : IdOf(s) # NoId /\ s \notin stale => IdOf(s)' = IdOf(s)
<1>1. ASSUME IInv, OwnInv, StaleInv, [Next]_vars PROVE A
  <2> SUFFICES ASSUME NEW s \in alive \cap alive', IdOf(s) # NoId, s \notin stale
               PROVE  IdOf(s)' = IdOf(s)
    OBVIOUS
  <2>1. attr[s] \in Ptrs /\ IdOf(s) = info[attr[s]] /\ info[attr[s]] # NoId
    BY <1>1 DEF IdOf, OwnInv, LiveInv
  <2>2. ASSUME attr'[s] = attr[s], info'[attr[s]] = info[attr[s]] PROVE IdOf(s)' = IdOf(s)
    BY <2>2 DEF IdOf
  <2>3. CASE RegisterSrcfile
    <3>1. PICK t, p, id : /\ t \in alive /\ p \in Ptrs
                          /\ ~Registered(t) /\ id # NoId
                          /\ GetVirtualFileById(id, p)
                          /\ attr' = [attr EXCEPT ![t] = p]
      BY <1>1, <2>3, RegisterFacts DEF OwnInv, LiveInv
    <3>2. t # s
      BY <2>1, <3>1, VirtualFilesAssumption DEF Registered
    <3>3. attr'[s] = attr[s] /\ info'[attr[s]] = info[attr[s]]
      BY <1>1, <2>1, <3>1, <3>2, GetKeeps DEF OwnInv, LiveInv
    <3> QED
      BY <2>2, <3>3
  <2>4. CASE AddBreakpoint
    <3>1. PICK id, p : p \in Ptrs /\ GetVirtualFileById(id, p) /\ id # NoId
      BY <2>4 DEF AddBreakpoint
    <3> QED
      BY <1>1, <2>1, <2>2, <2>4, <3>1, GetKeeps DEF AddBreakpoint
  <2>5. CASE RunFinalizers
    <3>1. attr[s] \notin marked
      BY <1>1 DEF StaleInv
    <3> QED
      BY <2>1, <2>2, <2>5, <3>1 DEF RunFinalizers, Collect
  <2>6. CASE NewSrcfile \/ DropSrcfile
    <3>1. PICK t : t # s /\ attr' = [attr EXCEPT ![t] = NoPtr]
      BY <2>6 DEF NewSrcfile, DropSrcfile
    <3>2. attr'[s] = attr[s] /\ info' = info
      BY <1>1, <2>6, <3>1 DEF OwnInv, LiveInv, NewSrcfile, DropSrcfile
    <3> QED
      BY <2>2, <3>2
  <2>7. CASE SaveAndRestart \/ Crash
    BY <2>7 DEF SaveAndRestart, Crash, NewSession
  <2>8. CASE LoadWorkspace
    BY <1>1, <2>8, LoadOwns
  <2>9. CASE RemoveBreakpoint \/ MarkUnreachable \/ SaveState \/ UNCHANGED vars
    BY <2>2, <2>9 DEF RemoveBreakpoint, MarkUnreachable, SaveState, vars
  <2> QED
    BY <1>1, <2>3, <2>4, <2>5, <2>6, <2>7, <2>8, <2>9 DEF Next
<1>2. IInv /\ OwnInv /\ StaleInv /\ [Next]_vars => [A]_<<attr, info>>
  BY <1>1
<1> QED
  BY <1>2, Always, PTL DEF Spec, IdsStay

(* A restored file has the id it was saved with, unless the new session    *)
(* has given that id away.                                                 *)
THEOREM IdsComeBack == Spec => IdsAreRestored
<1> DEFINE A == LoadWorkspace => \A s \in image.alive : image.ids[s] # NoId =>
                  IdOf(s)' = image.ids[s] \/ image.ids[s] \in DOMAIN registry
<1>1. IInv /\ OwnInv => A
  BY LoadOwns
<1>2. IInv /\ OwnInv /\ [Next]_vars => [A]_vars
  BY <1>1
<1> QED
  BY <1>2, Always, PTL DEF Spec, IdsAreRestored

(* Both: an id means one file to the client, in this session and in those  *)
(* that take its workspace up again, with the exceptions of both.          *)
THEOREM IdsLast == Spec => IdsOutliveSessions
BY IdsNeverChange, IdsComeBack DEF IdsOutliveSessions
--------------------------------------------------------------------------
(***************************************************************************)
(* References and data frames, for any number of tables, frames and slots. *)
(* In every state no frame dangles and a cached frame that is at an index  *)
(* shows its table (Shape).  While no index has been given again too early *)
(* every slot in use has one owner, and the holes are the free slots       *)
(* (Kept).  The free index the storage hands out is then nobody's, and     *)
(* what is freed was its owner's alone.                                    *)
(***************************************************************************)

\* The types that hold even after an index was given again too early.
WideInfos == [status : {"unborn", "live", "dead"}, refIndex : Nat,
              table : Tables \cup {NoTable}, shown : Tables \cup {NoTable},
              anchor : Nat, refresh : {"none", "global", "member", "view"}]
Storage == [slots : Seq(Contents), holes : Seq(Nat)]
Wide ==
    /\ refs \in Storage
    /\ frames \in [Frames -> WideInfos]
    /\ cache \subseteq Frames
    /\ rvar \in Tables
    /\ creating \in [frame : Frames \cup {0}, way : Ways]
    /\ pending \in Seq(Nat)
    /\ handles \subseteq [index : Nat, to : Contents, nth : {1, 2}]
    /\ creating # NoCall => creating.frame \in Frames
    /\ regiven \in BOOLEAN

\* The stack of holes lists the empty slots, once each, and nothing else.
Sound(s) ==
    /\ HolesMatch(s)
    /\ \A j \in 1..Len(s.holes) : s.holes[j] \in 1..Len(s.slots)

HandlesOwn ==
    /\ \A h \in handles : Has(refs, h.index) /\ Dereference(h.index) = h.to
    /\ \A h, k \in handles : h.index = k.index => h = k
PendingOwn ==
    \A i \in 1..Len(pending) :
        /\ Has(refs, pending[i])
        /\ \A h \in handles : h.index # pending[i]
        /\ \A j \in 1..Len(pending) : pending[i] = pending[j] => i = j
Anchored(f) == frames[f].status = "live" /\ frames[f].anchor # 0
AnchorsOwn ==
    \A f \in Frames : Anchored(f) =>
        /\ Dereference(frames[f].anchor) = Env
        /\ frames[f].anchor \notin Outstanding
        /\ \A g \in Frames : Anchored(g) /\ frames[g].anchor = frames[f].anchor => f = g
CallOwns ==
    creating # NoCall =>
        /\ creating.frame \in cache
        /\ Dereference(frames[creating.frame].refIndex) = Frame(creating.frame)

Holds(s, f) == \E i \in 1..Len(s.slots) : s.slots[i] = Frame(f)

\* What keeps the answers right: a frame that does not show its table has
\* failed, or is at no index.
FramesShow ==
    \A f \in cache :
        \/ frames[f].shown = frames[f].table
        \/ f \in failed
        \/ ~Holds(refs, f)

\* What is so in every state.
Shape == Wide /\ NoDanglingFrame /\ FramesShow

\* What is so while no index has been given again too early.
Kept ==
    /\ RefsTypeOK /\ Sound(refs)
    /\ HandlesOwn /\ PendingOwn /\ AnchorsOwn /\ CallOwns
    /\ NothingElseIsLost

RefsInv == Shape /\ (~regiven => Kept)
--------------------------------------------------------------------------
(* The storage.                                                            *)

\* Nothing but index n has changed between the storages s and r.
SameBut(s, r, n) ==
    \A i \in Nat \ {n} : /\ Has(r, i) <=> Has(s, i)
                         /\ Has(s, i) => r.slots[i] = s.slots[i]

LEMMA FrontFacts ==
    ASSUME NEW S, NEW s \in Seq(S), s # <<>>
    PROVE  /\ SubSeq(s, 1, Len(s) - 1) \in Seq(S)
           /\ Len(s) \in Nat \ {0}
           /\ Len(SubSeq(s, 1, Len(s) - 1)) = Len(s) - 1
           /\ s[Len(s)] \in S
           /\ \A i \in 1..Len(s) - 1 : SubSeq(s, 1, Len(s) - 1)[i] = s[i]
<1>1. Len(s) \in Nat \ {0}
  OBVIOUS
<1> DEFINE n == Len(s) - 1
<1>2. n \in 0..Len(s)
  BY <1>1
<1> HIDE DEF n
<1>3. /\ SubSeq(s, 1, n) \in Seq(S)
      /\ Len(SubSeq(s, 1, n)) = n
      /\ \A i \in 1..n : SubSeq(s, 1, n)[i] = s[i]
  BY <1>2
<1> QED
  BY <1>1, <1>2, <1>3 DEF n

LEMMA ReplacedFacts ==
    ASSUME NEW S, NEW q \in Seq(S), NEW k \in Nat, NEW e \in S
    PROVE  /\ [q EXCEPT ![k] = e] \in Seq(S) /\ Len([q EXCEPT ![k] = e]) = Len(q)
           /\ \A i \in 1..Len(q) : [q EXCEPT ![k] = e][i] = IF i = k THEN e ELSE q[i]
<1>1. CASE k \in 1..Len(q)
  BY <1>1, ExceptSeq
<1>2. CASE k \notin 1..Len(q)
  <2>1. [q EXCEPT ![k] = e] = q
    BY <1>2
  <2> QED
    BY <1>2, <2>1
<1> QED
  BY <1>1, <1>2

LEMMA ContentsApart ==
    /\ Null # Nil /\ Null # Env /\ Nil # Env
    /\ \A f : Frame(f) # Null /\ Frame(f) # Nil /\ Frame(f) # Env
    /\ \A t : Table(t) # Null /\ Table(t) # Nil /\ Table(t) # Env
    /\ \A f, t : Frame(f) # Table(t)
    /\ \A f, g : Frame(f) = Frame(g) => f = g
BY DEF Null, Nil, Env, Frame, Table, Content

\* add, whatever the stack of holes holds: a slot has the new value or one
\* of the old.
LEMMA AddFacts ==
    ASSUME NEW s \in Storage, NEW x \in Contents
    PROVE  /\ Add(s, x) \in Storage
           /\ NextIndex(s) \in Nat
           /\ \A i \in 1..Len(Add(s, x).slots) :
                  \/ Add(s, x).slots[i] = x
                  \/ i \in 1..Len(s.slots) /\ Add(s, x).slots[i] = s.slots[i]
<1>1. CASE s.holes = <<>>
  <2>1. Add(s, x) = [slots |-> Append(s.slots, x), holes |-> s.holes]
    BY <1>1 DEF Add, Storage
  <2>2. NextIndex(s) = Len(s.slots) + 1
    BY <1>1 DEF NextIndex
  <2>3. /\ Append(s.slots, x) \in Seq(Contents) /\ Len(Append(s.slots, x)) = Len(s.slots) + 1
        /\ Append(s.slots, x)[Len(s.slots) + 1] = x
        /\ \A i \in 1..Len(s.slots) : Append(s.slots, x)[i] = s.slots[i]
    BY AppendProperties DEF Storage
  <2> QED
    BY <2>1, <2>2, <2>3 DEF Storage
<1>2. CASE s.holes # <<>>
  <2>1. Add(s, x) = [slots |-> [s.slots EXCEPT ![NextIndex(s)] = x],
                     holes |-> SubSeq(s.holes, 1, Len(s.holes) - 1)]
    BY <1>2 DEF Add
  <2>2. /\ NextIndex(s) \in Nat /\ SubSeq(s.holes, 1, Len(s.holes) - 1) \in Seq(Nat)
    BY <1>2, FrontFacts DEF NextIndex, Storage
  <2>3. /\ [s.slots EXCEPT ![NextIndex(s)] = x] \in Seq(Contents)
        /\ Len([s.slots EXCEPT ![NextIndex(s)] = x]) = Len(s.slots)
    BY ReplacedFacts DEF Storage
  <2> QED
    BY <2>1, <2>2, <2>3 DEF Storage
<1> QED
  BY <1>1, <1>2

\* add of a sound storage: the index was free and has the value.
LEMMA AddSound ==
    ASSUME NEW s \in Storage, Sound(s), NEW x \in Contents, x # Null
    PROVE  \E n \in Nat \ {0} :
               /\ n = NextIndex(s) /\ ~Has(s, n)
               /\ Has(Add(s, x), n) /\ Add(s, x).slots[n] = x
               /\ SameBut(s, Add(s, x), n) /\ Sound(Add(s, x))
               /\ Len(Add(s, x).slots) \in {Len(s.slots), n}
<1> DEFINE n == NextIndex(s)
           r == Add(s, x)
<1>1. CASE s.holes = <<>>
  <2>1. r.slots = Append(s.slots, x) /\ r.holes = <<>> /\ n = Len(s.slots) + 1
    BY <1>1 DEF Add, NextIndex, Storage
  <2> HIDE DEF n, r
  <2>2. /\ Len(r.slots) = n /\ n \in Nat \ {0} /\ r.slots[n] = x
        /\ \A i \in 1..Len(s.slots) : r.slots[i] = s.slots[i]
    BY <2>1, AppendProperties DEF Storage
  <2>3. ~Has(s, n) /\ Has(r, n) /\ SameBut(s, r, n)
    BY <2>1, <2>2 DEF Has, SameBut, Storage
  <2>4. \A i \in 1..Len(s.slots) : s.slots[i] # Null
    BY <1>1 DEF Sound, HolesMatch, Storage
  <2>5. Len(r.holes) = 0
    BY <2>1
  <2>6. Sound(r)
    BY <2>1, <2>2, <2>4, <2>5 DEF Sound, HolesMatch, Storage
  <2> QED
    BY <2>2, <2>3, <2>6 DEF n, r
<1>2. CASE s.holes # <<>>
  <2>1. /\ r.slots = [s.slots EXCEPT ![n] = x]
        /\ r.holes = SubSeq(s.holes, 1, Len(s.holes) - 1) /\ n = s.holes[Len(s.holes)]
    BY <1>2 DEF Add, NextIndex
  <2> HIDE DEF n, r
  <2>2. /\ Len(s.holes) \in Nat \ {0} /\ Len(r.holes) = Len(s.holes) - 1
        /\ \A j \in 1..Len(r.holes) : r.holes[j] = s.holes[j]
    BY <1>2, <2>1, FrontFacts DEF Storage
  <2>3. n \in 1..Len(s.slots) /\ s.slots[n] = Null
    BY <2>1, <2>2 DEF Sound, HolesMatch
  <2>4. /\ Len(r.slots) = Len(s.slots) /\ r.slots[n] = x
        /\ \A i \in 1..Len(s.slots) : i # n => r.slots[i] = s.slots[i]
    BY <2>1, <2>3, ExceptSeq DEF Storage
  <2>5. ~Has(s, n) /\ Has(r, n) /\ SameBut(s, r, n)
    BY <2>3, <2>4 DEF Has, SameBut, Storage
  <2>6. \A j \in 1..Len(r.holes) : r.holes[j] # n
    BY <2>1, <2>2 DEF Sound, HolesMatch
  <2>7. \A i \in 1..Len(r.slots) : r.slots[i] = Null <=> \E j \in 1..Len(r.holes) : r.holes[j] = i
    <3> SUFFICES ASSUME NEW i \in 1..Len(r.slots)
                 PROVE  r.slots[i] = Null <=> \E j \in 1..Len(r.holes) : r.holes[j] = i
      OBVIOUS
    <3>1. CASE i = n
      BY <3>1, <2>4, <2>6
    <3>2. CASE i # n
      <4>1. s.slots[i] = Null <=> \E j \in 1..Len(s.holes) : s.holes[j] = i
        BY <2>4 DEF Sound, HolesMatch
      <4>2. \A j \in 1..Len(s.holes) : s.holes[j] = i => j \in 1..Len(r.holes)
        BY <3>2, <2>1, <2>2
      <4>3. 1..Len(r.holes) \subseteq 1..Len(s.holes)
        BY <2>2
      <4> QED
        BY <3>2, <4>1, <4>2, <4>3, <2>2, <2>4
    <3> QED
      BY <3>1, <3>2
  <2>8. Sound(r)
    <3>1. \A j \in 1..Len(r.holes) : j \in 1..Len(s.holes)
      BY <2>2
    <3>2. \A j, k \in 1..Len(s.holes) : s.holes[j] = s.holes[k] => j = k
      BY DEF Sound, HolesMatch
    <3>3. \A j, k \in 1..Len(r.holes) : r.holes[j] = r.holes[k] => j = k
      BY <2>2, <3>1, <3>2
    <3>4. \A j \in 1..Len(r.holes) : r.holes[j] \in 1..Len(r.slots)
      BY <3>1, <2>2, <2>4 DEF Sound
    <3> QED
      BY <2>7, <3>3, <3>4 DEF Sound, HolesMatch
  <2>9. n \in Nat \ {0}
    BY <2>3 DEF Storage
  <2> QED
    BY <2>3, <2>4, <2>5, <2>8, <2>9 DEF n, r
<1> QED
  BY <1>1, <1>2

LEMMA RemoveFacts ==
    ASSUME NEW s \in Storage, NEW n \in Nat
    PROVE  /\ Remove(s, n) \in Storage
           /\ Len(Remove(s, n).slots) = Len(s.slots)
           /\ \A i \in 1..Len(s.slots) :
                  Remove(s, n).slots[i] = Null \/ Remove(s, n).slots[i] = s.slots[i]
<1>1. /\ [s.slots EXCEPT ![n] = Null] \in Seq(Contents)
      /\ Len([s.slots EXCEPT ![n] = Null]) = Len(s.slots)
  <2>1. Null \in Contents /\ s.slots \in Seq(Contents)
    BY DEF Contents, Storage
  <2> QED
    BY <2>1, ReplacedFacts
<1>2. Append(s.holes, n) \in Seq(Nat)
  BY AppendProperties DEF Storage
<1> QED
  BY <1>1, <1>2 DEF Remove, Storage

LEMMA RemoveSound ==
    ASSUME NEW s \in Storage, Sound(s), NEW n \in Nat, Has(s, n)
    PROVE  /\ ~Has(Remove(s, n), n) /\ SameBut(s, Remove(s, n), n)
           /\ Sound(Remove(s, n))
<1> DEFINE r == Remove(s, n)
<1>1. r.slots = [s.slots EXCEPT ![n] = Null] /\ r.holes = Append(s.holes, n)
  BY DEF Remove
<1> HIDE DEF r
<1>2. n \in 1..Len(s.slots) /\ s.slots[n] # Null
  BY DEF Has
<1>3. /\ Len(r.slots) = Len(s.slots) /\ r.slots[n] = Null
      /\ \A i \in 1..Len(s.slots) : i # n => r.slots[i] = s.slots[i]
  BY <1>1, <1>2, ExceptSeq DEF Storage
<1>4. /\ Len(s.holes) \in Nat /\ Len(r.holes) = Len(s.holes) + 1 /\ r.holes[Len(r.holes)] = n
      /\ \A j \in 1..Len(s.holes) : r.holes[j] = s.holes[j]
  BY <1>1, AppendProperties, LenProperties DEF Storage
<1>5. ~Has(r, n) /\ SameBut(s, r, n)
  BY <1>2, <1>3 DEF Has, SameBut, Storage
<1>6. \A j \in 1..Len(s.holes) : s.holes[j] # n
  BY <1>2 DEF Sound, HolesMatch
<1>7. \A i \in 1..Len(r.slots) : r.slots[i] = Null <=> \E j \in 1..Len(r.holes) : r.holes[j] = i
  <2> SUFFICES ASSUME NEW i \in 1..Len(r.slots)
               PROVE  r.slots[i] = Null <=> \E j \in 1..Len(r.holes) : r.holes[j] = i
    OBVIOUS
  <2>1. CASE i = n
    <3>1. Len(r.holes) \in 1..Len(r.holes)
      BY <1>4
    <3> QED
      BY <2>1, <3>1, <1>3, <1>4
  <2>2. CASE i # n
    <3>1. s.slots[i] = Null <=> \E j \in 1..Len(s.holes) : s.holes[j] = i
      BY <1>3 DEF Sound, HolesMatch
    <3>2. \A j \in 1..Len(r.holes) : r.holes[j] = i => j \in 1..Len(s.holes)
      BY <2>2, <1>4
    <3>3. 1..Len(s.holes) \subseteq 1..Len(r.holes)
      BY <1>4
    <3> QED
      BY <2>2, <3>1, <3>2, <3>3, <1>3, <1>4
  <2> QED
    BY <2>1, <2>2
<1>8. \A j, k \in 1..Len(r.holes) : r.holes[j] = r.holes[k] => j = k
  <2>1. \A j \in 1..Len(r.holes) : j \in 1..Len(s.holes) \/ j = Len(r.holes)
    BY <1>4
  <2>2. \A j, k \in 1..Len(s.holes) : s.holes[j] = s.holes[k] => j = k
    BY DEF Sound, HolesMatch
  <2> QED
    BY <2>1, <2>2, <1>4, <1>6
<1>9. \A j \in 1..Len(r.holes) : r.holes[j] \in 1..Len(r.slots)
  <2>1. \A j \in 1..Len(s.holes) : r.holes[j] \in 1..Len(r.slots)
    BY <1>3, <1>4 DEF Sound
  <2>2. r.holes[Len(r.holes)] \in 1..Len(r.slots)
    BY <1>2, <1>3, <1>4
  <2>3. \A j \in 1..Len(r.holes) : j \in 1..Len(s.holes) \/ j = Len(r.holes)
    BY <1>4
  <2> QED
    BY <2>1, <2>2, <2>3
<1> QED
  BY <1>5, <1>7, <1>8, <1>9 DEF Sound, HolesMatch, r
--------------------------------------------------------------------------
(* No frame dangles, and what is cached shows its table: in every state.   *)

LEMMA AddHolds ==
    ASSUME NEW s \in Storage, NEW x \in Contents, NEW f, Holds(Add(s, x), f)
    PROVE  Holds(s, f) \/ x = Frame(f)
BY AddFacts DEF Holds

LEMMA RemoveHolds ==
    ASSUME NEW s \in Storage, NEW n \in Nat, NEW f, Holds(Remove(s, n), f)
    PROVE  Holds(s, f)
BY RemoveFacts, ContentsApart DEF Holds

LEMMA DereferenceFacts ==
    ASSUME Wide, NEW i \in Nat
    PROVE  /\ Dereference(i) \in Contents
           /\ \A f : Dereference(i) = Frame(f) => Has(refs, i) /\ Holds(refs, f)
<1>1. CASE Has(refs, i)
  <2>1. i \in 1..Len(refs.slots) /\ refs.slots \in Seq(Contents)
    BY <1>1 DEF Has, Wide, Storage
  <2> QED
    BY <1>1, <2>1, ElementOfSeq DEF Dereference, Holds
<1>2. CASE ~Has(refs, i)
  BY <1>2, ContentsApart DEF Dereference, Contents
<1> QED
  BY <1>1, <1>2

LEMMA NewbornFacts ==
    ASSUME Unborn # {}
    PROVE  Newborn \in Frames /\ frames[Newborn].status = "unborn"
<1>1. Unborn \in SUBSET Nat
  BY DEF Unborn, Frames
<1>2. \E f \in Unborn : \A g \in Unborn : f <= g
  BY <1>1, Least
<1>3. Newborn \in Unborn
  BY <1>2 DEF Newborn
<1> QED
  BY <1>3 DEF Unborn

\* A step that makes no frame and leaves what they show.
LEMMA ShownStays ==
    ASSUME Wide, NoDanglingFrame, FramesShow, cache' = cache, failed' = failed,
           \A f \in Frames : /\ frames'[f].status = frames[f].status
                             /\ frames'[f].shown = frames[f].shown
                             /\ frames'[f].table = frames[f].table,
           \A f \in Frames : Holds(refs', f) => Holds(refs, f)
    PROVE  NoDanglingFrame' /\ FramesShow'
<1>1. cache \subseteq Frames
  BY DEF Wide
<1>2. NoDanglingFrame'
  BY DEF NoDanglingFrame, Holds
<1>3. FramesShow'
  BY <1>1 DEF FramesShow
<1> QED
  BY <1>2, <1>3

LEMMA GrantFacts ==
    ASSUME Wide, NEW i \in Nat, NEW to \in Contents, Grant(i, to)
    PROVE  /\ handles' \subseteq [index : Nat, to : Contents, nth : {1, 2}]
           /\ regiven' \in BOOLEAN /\ (~regiven' => ~regiven)
BY DEF Wide, Grant

LEMMA CopyShape ==
    ASSUME Shape, CopyToPersistentRef
    PROVE  Shape'
<1>1. PICK x \in {Table(rvar)} \cup {Dereference(h.index) : h \in handles} :
          refs' = Add(refs, x) /\ Grant(NextIndex(refs), x)
  BY DEF CopyToPersistentRef
<1>2. x \in Contents /\ \A f : x = Frame(f) => Holds(refs, f)
  <2>1. CASE x = Table(rvar)
    BY <2>1, ContentsApart DEF Contents, Shape, Wide
  <2>2. CASE \E h \in handles : x = Dereference(h.index)
    BY <2>2, DereferenceFacts DEF Shape, Wide
  <2> QED
    BY <1>1, <2>1, <2>2
<1>3. refs \in Storage /\ refs' \in Storage /\ NextIndex(refs) \in Nat
  BY <1>1, <1>2, AddFacts DEF Shape, Wide
<1>4. \A f \in Frames : Holds(refs', f) => Holds(refs, f)
  BY <1>1, <1>2, <1>3, AddHolds
<1>5. NoDanglingFrame' /\ FramesShow'
  BY <1>4, ShownStays DEF CopyToPersistentRef, Shape
<1>6. Wide'
  BY <1>1, <1>2, <1>3, GrantFacts DEF Shape, Wide, CopyToPersistentRef
<1> QED
  BY <1>5, <1>6 DEF Shape

LEMMA DisposeShape ==
    ASSUME Shape, Dispose
    PROVE  Shape'
<1>1. PICK h \in handles : handles' = handles \ {h} /\ pending' = Append(pending, h.index)
  BY DEF Dispose
<1>2. pending' \in Seq(Nat)
  BY <1>1, AppendProperties DEF Shape, Wide
<1>3. NoDanglingFrame' /\ FramesShow'
  BY ShownStays DEF Dispose, Shape
<1>4. Wide'
  BY <1>1, <1>2 DEF Shape, Wide, Dispose
<1> QED
  BY <1>3, <1>4 DEF Shape

LEMMA DisposedShape ==
    ASSUME Shape, DisposePersistentRefs
    PROVE  Shape'
<1>1. Head(pending) \in Nat /\ Tail(pending) \in Seq(Nat)
  BY HeadTailProperties DEF Shape, Wide, DisposePersistentRefs
<1>2. refs' \in Storage /\ \A f \in Frames : Holds(refs', f) => Holds(refs, f)
  BY <1>1, RemoveFacts, RemoveHolds DEF Shape, Wide, DisposePersistentRefs
<1>3. NoDanglingFrame' /\ FramesShow'
  BY <1>2, ShownStays DEF DisposePersistentRefs, Shape
<1>4. Wide'
  BY <1>1, <1>2 DEF Shape, Wide, DisposePersistentRefs
<1> QED
  BY <1>3, <1>4 DEF Shape

\* A frame that is new, or counts as new, is in the cache or gets a slot.
LEMMA RegisterShape ==
    ASSUME Shape, Register
    PROVE  Shape'
<1>1. PICK t \in Tables, way \in Ways : RegisterDataFrame(t, way)
  BY DEF Register, Ways, Shape, Wide
<1>2. CASE \E f \in RegisteredFrames(t) :
              /\ creating' = [frame |-> f, way |-> way]
              /\ UNCHANGED <<refs, frames, cache, lost>>
  <2>1. NoDanglingFrame' /\ FramesShow'
    BY <1>1, <1>2, ShownStays DEF RegisterDataFrame, Shape
  <2>2. Wide'
    BY <1>1, <1>2 DEF RegisterDataFrame, RegisteredFrames, Shape, Wide
  <2> QED
    BY <2>1, <2>2 DEF Shape
<1>3. CASE /\ Unborn # {}
           /\ cache' = cache \cup {Newborn}
           /\ \/ /\ refs' = Add(refs, Frame(Newborn))
                 /\ frames' = [frames EXCEPT ![Newborn] = NewInfo(t, NextIndex(refs))]
                 /\ creating' = [frame |-> Newborn, way |-> way]
              \/ /\ \E i \in 0..MaxSlots :
                        frames' = [frames EXCEPT ![Newborn] = [NewInfo(t, i) EXCEPT !.shown = NoTable]]
                 /\ UNCHANGED <<refs, creating>>
  <2> DEFINE n == Newborn
  <2>1. n \in Frames /\ frames[n].status = "unborn"
    BY <1>3, NewbornFacts
  <2>2. Frame(n) \in Contents
    BY <2>1 DEF Contents
  <2>3. ~Holds(refs, n)
    BY <2>1 DEF Shape, NoDanglingFrame, Holds
  <2>4. refs \in Storage /\ NextIndex(refs) \in Nat
    BY <2>2, AddFacts DEF Shape, Wide
  <2>5. NewInfo(t, NextIndex(refs)) \in WideInfos
    BY <2>4 DEF NewInfo, NoInfo, WideInfos
  <2>6. \A i \in 0..MaxSlots : [NewInfo(t, i) EXCEPT !.shown = NoTable] \in WideInfos
    <3>1. \A i \in Nat : NewInfo(t, i) \in WideInfos
      BY DEF NewInfo, NoInfo, WideInfos
    <3>2. \A r \in WideInfos : [r EXCEPT !.shown = NoTable] \in WideInfos
      BY DEF WideInfos
    <3>3. 0..MaxSlots \subseteq Nat
      BY RefAssumption
    <3> QED
      BY <3>1, <3>2, <3>3
  <2> HIDE DEF n
  <2>7. PICK new \in WideInfos :
            /\ frames' = [frames EXCEPT ![n] = new]
            /\ new.status = "live" /\ new.table = t
            /\ \/ refs' = Add(refs, Frame(n)) /\ new.shown = t
               \/ refs' = refs
    BY <1>3, <2>5, <2>6 DEF n, NewInfo, NoInfo
  <2>8. refs' \in Storage /\ \A f \in Frames \ {n} : Holds(refs', f) => Holds(refs, f)
    BY <2>2, <2>4, <2>7, AddFacts, AddHolds, ContentsApart
  <2>9. /\ frames \in [Frames -> WideInfos] /\ frames'[n] = new
        /\ \A f \in Frames \ {n} : frames'[f] = frames[f]
    BY <2>1, <2>7 DEF Shape, Wide
  <2>10. cache' = cache \cup {n} /\ cache \subseteq Frames /\ failed' = failed
    BY <1>1, <1>3 DEF n, Shape, Wide, RegisterDataFrame
  <2>11. NoDanglingFrame'
    BY <2>7, <2>8, <2>9, <2>10 DEF Shape, NoDanglingFrame, Holds
  <2>12. FramesShow'
    BY <2>3, <2>7, <2>8, <2>9, <2>10 DEF Shape, FramesShow
  <2>13. creating' \in [frame : Frames \cup {0}, way : Ways] /\ (creating' # NoCall => creating'.frame \in Frames)
    BY <1>3, <2>1 DEF n, Shape, Wide
  <2>14. Wide'
    BY <1>1, <2>1, <2>7, <2>8, <2>9, <2>10, <2>13 DEF RegisterDataFrame, Shape, Wide
  <2> QED
    BY <2>11, <2>12, <2>14 DEF Shape
<1> QED
  BY <1>1, <1>2, <1>3 DEF RegisterDataFrame

LEMMA RefresherShape ==
    ASSUME Shape, CreateRefresher
    PROVE  Shape'
<1> DEFINE f == creating.frame
<1>1. f \in Frames /\ creating.way \in Ways \ {"member"} /\ frames[f] \in WideInfos
  BY DEF Shape, Wide, CreateRefresher
<1>2. frames[f].refIndex \in Nat /\ Frame(f) \in Contents
  BY <1>1 DEF WideInfos, Contents
<1>3. Grant(frames[f].refIndex, Frame(f)) /\ creating' = NoCall
  BY DEF CreateRefresher, Answer
<1>4. /\ handles' \subseteq [index : Nat, to : Contents, nth : {1, 2}]
      /\ regiven' \in BOOLEAN
  BY <1>2, <1>3, GrantFacts DEF Shape
<1>5. \/ frames' = frames
      \/ creating.way # "index" /\ frames' = [frames EXCEPT ![f].refresh = creating.way]
  BY DEF CreateRefresher
<1> HIDE DEF f
<1>6. /\ frames' \in [Frames -> WideInfos]
      /\ \A g \in Frames : /\ frames'[g].status = frames[g].status
                           /\ frames'[g].shown = frames[g].shown
                           /\ frames'[g].table = frames[g].table
  <2>1. CASE frames' = frames
    BY <2>1 DEF Shape, Wide
  <2>2. CASE creating.way # "index" /\ frames' = [frames EXCEPT ![f].refresh = creating.way]
    <3>1. [frames[f] EXCEPT !.refresh = creating.way] \in WideInfos
      BY <1>1, <2>2 DEF WideInfos, Ways
    <3> QED
      BY <1>1, <2>2, <3>1 DEF Shape, Wide, WideInfos
  <2> QED
    BY <1>5, <2>1, <2>2
<1>7. NoDanglingFrame' /\ FramesShow'
  BY <1>6, ShownStays DEF Shape, CreateRefresher
<1>8. creating' \in [frame : Frames \cup {0}, way : Ways]
  BY <1>3 DEF NoCall, Ways
<1>9. Wide'
  BY <1>3, <1>4, <1>6, <1>8 DEF Shape, Wide, CreateRefresher
<1> QED
  BY <1>7, <1>9 DEF Shape

LEMMA AnchoredShape ==
    ASSUME Shape, CreateAnchoredRefresher
    PROVE  Shape'
<1> DEFINE f == creating.frame
           n == NextIndex(refs)
<1>1. f \in Frames /\ frames[f] \in WideInfos
  BY DEF Shape, Wide, CreateAnchoredRefresher
<1>2. frames[f].refIndex \in Nat /\ Frame(f) \in Contents /\ Env \in Contents
  BY <1>1 DEF WideInfos, Contents
<1>3. Grant(frames[f].refIndex, Frame(f)) /\ creating' = NoCall
  BY DEF CreateAnchoredRefresher, Answer
<1>4. /\ handles' \subseteq [index : Nat, to : Contents, nth : {1, 2}]
      /\ regiven' \in BOOLEAN
  BY <1>2, <1>3, GrantFacts DEF Shape
<1>5. n \in Nat /\ refs' \in Storage
  BY <1>2, AddFacts DEF Shape, Wide, CreateAnchoredRefresher
<1>6. \A g \in Frames : Holds(refs', g) => Holds(refs, g)
  BY <1>2, AddHolds, ContentsApart DEF Shape, Wide, CreateAnchoredRefresher
<1>7. frames' = [frames EXCEPT ![f].anchor = n, ![f].refresh = "member"]
  BY DEF CreateAnchoredRefresher
<1> HIDE DEF f, n
<1>8. [frames[f] EXCEPT !.anchor = n, !.refresh = "member"] \in WideInfos
  BY <1>1, <1>5 DEF WideInfos
<1>9. /\ frames' \in [Frames -> WideInfos]
      /\ \A g \in Frames : /\ frames'[g].status = frames[g].status
                           /\ frames'[g].shown = frames[g].shown
                           /\ frames'[g].table = frames[g].table
  BY <1>1, <1>7, <1>8 DEF Shape, Wide, WideInfos
<1>10. NoDanglingFrame' /\ FramesShow'
  BY <1>6, <1>9, ShownStays DEF Shape, CreateAnchoredRefresher
<1>11. creating' \in [frame : Frames \cup {0}, way : Ways]
  BY <1>3 DEF NoCall, Ways
<1>12. Wide'
  BY <1>3, <1>4, <1>5, <1>9, <1>11 DEF Shape, Wide, CreateAnchoredRefresher
<1> QED
  BY <1>10, <1>12 DEF Shape

LEMMA SortShape ==
    ASSUME Shape, SortOrFilter
    PROVE  Shape'
<1> DEFINE n == Newborn
<1>1. PICK g \in Frames :
          /\ refs' = Add(refs, Frame(n))
          /\ frames' = [frames EXCEPT ![n] =
                 [NewInfo(NoTable, NextIndex(refs)) EXCEPT !.shown = frames[g].shown]]
          /\ Grant(NextIndex(refs), Frame(n))
  BY DEF SortOrFilter, FramesAt
<1>2. n \in Frames /\ frames[n].status = "unborn"
  BY NewbornFacts DEF SortOrFilter
<1> HIDE DEF n
<1>3. Frame(n) \in Contents
  BY <1>2 DEF Contents
<1>4. NextIndex(refs) \in Nat /\ refs' \in Storage
  BY <1>1, <1>3, AddFacts DEF Shape, Wide
<1>5. /\ handles' \subseteq [index : Nat, to : Contents, nth : {1, 2}]
      /\ regiven' \in BOOLEAN
  BY <1>1, <1>3, <1>4, GrantFacts DEF Shape
<1>6. \A f \in Frames \ {n} : Holds(refs', f) => Holds(refs, f)
  BY <1>1, <1>3, AddHolds, ContentsApart DEF Shape, Wide
<1>7. PICK new \in WideInfos : frames' = [frames EXCEPT ![n] = new] /\ new.status = "live"
  <2>1. frames[g].shown \in Tables \cup {NoTable}
    BY DEF Shape, Wide, WideInfos
  <2>2. NewInfo(NoTable, NextIndex(refs)) \in WideInfos
    BY <1>4 DEF NewInfo, NoInfo, WideInfos
  <2>3. NewInfo(NoTable, NextIndex(refs)).status = "live"
    BY DEF NewInfo, NoInfo
  <2>4. \A r \in WideInfos, t \in Tables \cup {NoTable} :
            [r EXCEPT !.shown = t] \in WideInfos /\ [r EXCEPT !.shown = t].status = r.status
    BY DEF WideInfos
  <2> QED
    BY <1>1, <2>1, <2>2, <2>3, <2>4
<1>8. /\ frames \in [Frames -> WideInfos] /\ frames'[n] = new
      /\ \A f \in Frames \ {n} : frames'[f] = frames[f]
  BY <1>2, <1>7 DEF Shape, Wide
<1>9. cache' = cache /\ failed' = failed /\ cache \subseteq Frames /\ n \notin cache
  BY <1>2 DEF SortOrFilter, Shape, Wide, NoDanglingFrame
<1>10. NoDanglingFrame'
  BY <1>6, <1>7, <1>8, <1>9 DEF Shape, NoDanglingFrame, Holds
<1>11. FramesShow'
  BY <1>6, <1>8, <1>9 DEF Shape, FramesShow
<1>12. Wide'
  BY <1>2, <1>4, <1>5, <1>7, <1>8 DEF Shape, Wide, SortOrFilter
<1> QED
  BY <1>10, <1>11, <1>12 DEF Shape

LEMMA RefreshShape ==
    ASSUME Shape, Refresh
    PROVE  Shape'
<1>1. PICK f \in Frames :
          \/ /\ frames' = [frames EXCEPT ![f].table = rvar, ![f].shown = rvar]
             /\ failed' = failed
          \/ /\ frames' = [frames EXCEPT ![f].table = rvar]
             /\ failed' = failed \cup {f}
  BY DEF Refresh, FramesAt
<1>2. frames \in [Frames -> WideInfos] /\ rvar \in Tables /\ cache \subseteq Frames
  BY DEF Shape, Wide
<1>3. /\ [frames[f] EXCEPT !.table = rvar, !.shown = rvar] \in WideInfos
      /\ [frames[f] EXCEPT !.table = rvar] \in WideInfos
  BY <1>2 DEF WideInfos
<1>4. /\ frames' \in [Frames -> WideInfos]
      /\ \A g \in Frames : frames'[g].status = frames[g].status
      /\ \A g \in Frames \ {f} : frames'[g] = frames[g]
  BY <1>1, <1>2, <1>3 DEF WideInfos
<1>5. f \in failed' \/ frames'[f].shown = frames'[f].table
  BY <1>1, <1>2 DEF WideInfos
<1>6. refs' = refs /\ cache' = cache /\ failed \subseteq failed'
  BY <1>1 DEF Refresh
<1>7. NoDanglingFrame'
  BY <1>4, <1>6 DEF Shape, NoDanglingFrame
<1>8. FramesShow'
  BY <1>2, <1>4, <1>5, <1>6 DEF Shape, FramesShow
<1>9. Wide'
  BY <1>4 DEF Shape, Wide, Refresh
<1> QED
  BY <1>7, <1>8, <1>9 DEF Shape

LEMMA CollectShape ==
    ASSUME Shape, NEW f \in Frames, CollectFrame(f)
    PROVE  Shape'
<1>1. frames \in [Frames -> WideInfos] /\ cache \subseteq Frames /\ refs \in Storage
  BY DEF Shape, Wide
<1>2. refs' \in Storage /\ \A g \in Frames : Holds(refs', g) => Holds(refs, g)
  <2>1. frames[f].anchor \in Nat
    BY <1>1 DEF WideInfos
  <2> QED
    BY <1>1, <2>1, RemoveFacts, RemoveHolds DEF CollectFrame
<1>3. [NoInfo EXCEPT !.status = "dead"] \in WideInfos
  BY DEF NoInfo, WideInfos
<1>4. /\ frames' \in [Frames -> WideInfos]
      /\ \A g \in Frames \ {f} : frames'[g] = frames[g]
  BY <1>1, <1>3 DEF CollectFrame
<1>5. ~Holds(refs, f)
  BY DEF CollectFrame, Holds
<1>6. cache' = cache \ {f} /\ failed' = failed \ {f}
  BY DEF CollectFrame
<1>7. NoDanglingFrame'
  BY <1>1, <1>2, <1>4, <1>5, <1>6 DEF Shape, NoDanglingFrame, Holds
<1>8. FramesShow'
  BY <1>1, <1>2, <1>4, <1>6 DEF Shape, FramesShow
<1>9. Wide'
  BY <1>2, <1>4, <1>6 DEF Shape, Wide, CollectFrame
<1> QED
  BY <1>7, <1>8, <1>9 DEF Shape

LEMMA ShapeStart == RefsInit => Shape
<1> SUFFICES ASSUME RefsInit PROVE Shape
  OBVIOUS
<1>1. refs.slots = <<>> /\ Len(refs.slots) = 0 /\ refs \in Storage
  BY DEF RefsInit, EmptyStorage, Storage
<1>2. NoInfo \in WideInfos
  BY DEF NoInfo, WideInfos
<1>3. Wide
  <2>1. creating \in [frame : Frames \cup {0}, way : Ways] /\ creating = NoCall
    BY DEF RefsInit, NoCall, Ways
  <2>2. pending \in Seq(Nat)
    BY DEF RefsInit
  <2>3. frames \in [Frames -> WideInfos]
    BY <1>2 DEF RefsInit
  <2> QED
    BY <1>1, <2>1, <2>2, <2>3 DEF RefsInit, Wide
<1> QED
  BY <1>1, <1>3 DEF RefsInit, Shape, NoDanglingFrame, FramesShow

LEMMA ShapeKept ==
    ASSUME Shape, [RefsNext]_refsVars
    PROVE  Shape'
<1>1. CASE CopyToPersistentRef
  BY <1>1, CopyShape
<1>2. CASE Dispose
  BY <1>2, DisposeShape
<1>3. CASE DisposePersistentRefs
  BY <1>3, DisposedShape
<1>4. CASE Register
  BY <1>4, RegisterShape
<1>5. CASE CreateRefresher
  BY <1>5, RefresherShape
<1>6. CASE CreateAnchoredRefresher
  BY <1>6, AnchoredShape
<1>7. CASE RefresherFails
  <2>1. NoDanglingFrame' /\ FramesShow'
    BY <1>7, ShownStays DEF Shape, RefresherFails
  <2>2. Wide'
    BY <1>7 DEF Shape, Wide, RefresherFails, NoCall, Ways
  <2> QED
    BY <2>1, <2>2 DEF Shape
<1>8. CASE SortOrFilter
  BY <1>8, SortShape
<1>9. CASE Refresh
  BY <1>9, RefreshShape
<1>10. CASE Assign
  <2>1. NoDanglingFrame' /\ FramesShow'
    BY <1>10, ShownStays DEF Shape, Assign
  <2>2. Wide'
    BY <1>10 DEF Shape, Wide, Assign
  <2> QED
    BY <2>1, <2>2 DEF Shape
<1>11. CASE \E f \in Frames : CollectFrame(f)
  BY <1>11, CollectShape
<1>12. CASE UNCHANGED refsVars
  BY <1>12 DEF Shape, Wide, NoDanglingFrame, FramesShow, Holds, refsVars
<1> QED
  BY <1>1, <1>2, <1>3, <1>4, <1>5, <1>6, <1>7, <1>8, <1>9, <1>10, <1>11, <1>12 DEF RefsNext
--------------------------------------------------------------------------
(* While no index is given again too early, every slot has one owner.      *)

LEMMA SlotStays ==
    ASSUME NEW n \in Nat, SameBut(refs, refs', n), NEW i \in Nat \ {n}
    PROVE  /\ Has(refs', i) <=> Has(refs, i)
           /\ Has(refs, i) => refs'.slots[i] = refs.slots[i]
           /\ Dereference(i)' = Dereference(i)
<1>1. (Has(refs', i) <=> Has(refs, i)) /\ (Has(refs, i) => refs'.slots[i] = refs.slots[i])
  BY DEF SameBut, Has
<1> QED
  BY <1>1 DEF Dereference

LEMMA NoneChanged ==
    ASSUME Wide, refs' = refs
    PROVE  SameBut(refs, refs', 0) /\ ~Has(refs, 0) /\ ~Has(refs', 0)
BY DEF SameBut, Has, Wide, Storage

\* A free slot is nobody's.
LEMMA FreeIsNobodys ==
    ASSUME Wide, Kept, NEW n \in Nat, ~Has(refs, n)
    PROVE  /\ n \notin Outstanding
           /\ \A h \in handles : h.index # n
           /\ \A i \in 1..Len(pending) : pending[i] # n
           /\ \A f \in Frames : Anchored(f) => frames[f].anchor # n
           /\ creating # NoCall => frames[creating.frame].refIndex # n
<1>1. Dereference(n) = Nil
  BY DEF Dereference
<1>2. (\A h \in handles : h.index # n) /\ (\A i \in 1..Len(pending) : pending[i] # n)
  BY DEF Kept, HandlesOwn, PendingOwn
<1>3. \A f \in Frames : Anchored(f) => frames[f].anchor # n
  BY <1>1, ContentsApart DEF Kept, AnchorsOwn
<1>4. creating # NoCall => frames[creating.frame].refIndex # n
  BY <1>1, ContentsApart DEF Kept, CallOwns
<1> QED
  BY <1>2, <1>3, <1>4 DEF Outstanding

LEMMA GrantIsNew ==
    ASSUME NEW i, NEW to, Grant(i, to), RefsTypeOK, ~regiven'
    PROVE  /\ i \notin Outstanding /\ ~regiven
           /\ handles' = handles \cup {[index |-> i, to |-> to, nth |-> 1]}
           /\ given' \in 0..MaxGiven
<1>1. i \notin Outstanding /\ ~regiven
  BY DEF Grant
<1>2. [index |-> i, to |-> to, nth |-> 1] \notin handles
  BY <1>1 DEF Outstanding
<1>3. given' \in 0..MaxGiven
  BY RefAssumption DEF Grant, RefsTypeOK
<1> QED
  BY <1>1, <1>2, <1>3 DEF Grant

LEMMA OutstandingGrows ==
    ASSUME NEW i, NEW to, handles' = handles \cup {[index |-> i, to |-> to, nth |-> 1]},
           pending' = pending
    PROVE  Outstanding' = Outstanding \cup {i}
<1> DEFINE new == [index |-> i, to |-> to, nth |-> 1]
<1>1. new.index = i /\ handles' = handles \cup {new}
  OBVIOUS
<1> HIDE DEF new
<1>2. {h.index : h \in handles'} = {h.index : h \in handles} \cup {i}
  BY <1>1
<1> QED
  BY <1>2 DEF Outstanding

LEMMA HandlesStay ==
    ASSUME Wide, HandlesOwn, NEW n \in Nat, SameBut(refs, refs', n),
           handles' \subseteq handles, \A h \in handles' : h.index # n
    PROVE  HandlesOwn'
<1>1. \A h \in handles' : h.index \in Nat \ {n}
  BY DEF Wide
<1> QED
  BY <1>1, SlotStays DEF HandlesOwn

LEMMA HandlesGrow ==
    ASSUME Wide, HandlesOwn, NEW n \in Nat, SameBut(refs, refs', n),
           \A h \in handles : h.index # n,
           NEW i \in Nat, NEW to, Has(refs', i), refs'.slots[i] = to,
           handles' = handles \cup {[index |-> i, to |-> to, nth |-> 1]},
           i \notin Outstanding
    PROVE  HandlesOwn'
<1>1. \A h \in handles : h.index \in Nat \ {n} /\ h.index # i
  BY DEF Wide, Outstanding
<1>2. \A h \in handles : Has(refs', h.index) /\ Dereference(h.index)' = h.to
  BY <1>1, SlotStays DEF HandlesOwn
<1>3. Dereference(i)' = to
  BY DEF Dereference
<1> QED
  BY <1>1, <1>2, <1>3 DEF HandlesOwn

LEMMA PendingStays ==
    ASSUME Wide, PendingOwn, NEW n \in Nat, SameBut(refs, refs', n), pending' = pending,
           \A i \in 1..Len(pending) : pending[i] # n,
           \A h \in handles' \ handles : h.index \notin Outstanding
    PROVE  PendingOwn'
<1>1. \A i \in 1..Len(pending) : pending[i] \in Nat \ {n}
  BY DEF Wide
<1>2. \A h \in handles', i \in 1..Len(pending) : h.index # pending[i]
  BY DEF PendingOwn, Outstanding
<1> QED
  BY <1>1, <1>2, SlotStays DEF PendingOwn

LEMMA AnchorsStay ==
    ASSUME Wide, AnchorsOwn, NEW n \in Nat, SameBut(refs, refs', n),
           \A f \in Frames : Anchored(f)' => /\ Anchored(f) /\ frames'[f].anchor = frames[f].anchor
                                             /\ frames[f].anchor # n
                                             /\ frames[f].anchor \notin Outstanding'
    PROVE  AnchorsOwn'
<1>1. \A f \in Frames : frames[f].anchor \in Nat
  BY DEF Wide, WideInfos
<1>2. \A f \in Frames : Anchored(f)' => Dereference(frames[f].anchor)' = Env
  <2> SUFFICES ASSUME NEW f \in Frames, Anchored(f)'
               PROVE  Dereference(frames[f].anchor)' = Env
    OBVIOUS
  <2> DEFINE a == frames[f].anchor
  <2>1. a \in Nat \ {n} /\ Dereference(a) = Env /\ frames'[f].anchor = a
    BY <1>1 DEF AnchorsOwn
  <2> HIDE DEF a
  <2>2. Has(refs', a) /\ refs'.slots[a] = Env
    BY <2>1, SlotStays, ContentsApart DEF Dereference
  <2> QED
    BY <2>1, <2>2 DEF Dereference
<1>3. \A f, g \in Frames : Anchored(f)' /\ Anchored(g)' /\ frames'[f].anchor = frames'[g].anchor => f = g
  BY DEF AnchorsOwn
<1> QED
  BY <1>2, <1>3 DEF AnchorsOwn

LEMMA OwnersStay ==
    ASSUME NEW n \in Nat, SameBut(refs, refs', n), Wide', NothingElseIsLost,
           (SlotOwners \cup lost) \ {n} \subseteq SlotOwners' \cup lost',
           Has(refs', n) => n \in SlotOwners' \cup lost'
    PROVE  NothingElseIsLost'
<1> SUFFICES ASSUME NEW i \in 1..Len(refs'.slots), Has(refs', i), i # n
             PROVE  i \in SlotOwners' \cup lost'
  BY DEF NothingElseIsLost
<1>1. i \in Nat
  BY DEF Wide, Storage
<1>2. Has(refs, i)
  BY <1>1, SlotStays
<1>3. i \in SlotOwners \cup lost
  BY <1>2 DEF NothingElseIsLost, Has
<1> QED
  BY <1>3

LEMMA Retyped ==
    ASSUME NEW S, NEW T, NEW q \in Seq(S), \A i \in 1..Len(q) : q[i] \in T
    PROVE  q \in Seq(T)
<1>1. Len(q) \in Nat /\ q \in [1..Len(q) -> S]
  BY LenProperties
<1>2. q \in [1..Len(q) -> T]
  BY <1>1
<1> QED
  BY <1>1, <1>2, SeqDef

LEMMA Typed ==
    ASSUME Wide', Sound(refs)', HandlesOwn', PendingOwn',
           Len(refs'.slots) <= MaxSlots, Len(pending') <= MaxPending,
           frames' \in [Frames -> Infos], given' \in 0..MaxGiven,
           lost' \subseteq 1..MaxSlots, failed' \subseteq Frames
    PROVE  RefsTypeOK'
<1>1. Len(refs'.slots) \in Nat /\ 1..Len(refs'.slots) \subseteq 1..MaxSlots
  BY RefAssumption DEF Wide, Storage
<1>2. refs'.holes \in Seq(1..MaxSlots)
  <2>1. \A j \in 1..Len(refs'.holes) : refs'.holes[j] \in 1..MaxSlots
    BY <1>1 DEF Sound
  <2> QED
    BY <2>1, Retyped DEF Wide, Storage
<1>3. \A h \in handles' : h.index \in 1..MaxSlots
  BY <1>1 DEF HandlesOwn, Has
<1>4. handles' \subseteq [index : 1..MaxSlots, to : Contents, nth : {1, 2}]
  BY <1>3 DEF Wide
<1>5. \A i \in 1..Len(pending') : pending'[i] \in 1..MaxSlots
  BY <1>1 DEF PendingOwn, Has
<1>6. pending' \in Seq(1..MaxSlots)
  BY <1>5, Retyped DEF Wide
<1> QED
  BY <1>2, <1>4, <1>6 DEF RefsTypeOK, Wide, Storage

\* Shape' is ShapeKept's; what is left of a step is Kept'.
LEMMA CopyKept ==
    ASSUME Shape, Shape', Kept, ~regiven', CopyToPersistentRef
    PROVE  Kept'
<1> USE DEF Shape
<1>1. PICK x \in {Table(rvar)} \cup {Dereference(h.index) : h \in handles} :
          refs' = Add(refs, x) /\ Grant(NextIndex(refs), x)
  BY DEF CopyToPersistentRef
<1>2. x \in Contents /\ x # Null
  <2>1. CASE x = Table(rvar)
    BY <2>1, ContentsApart DEF Contents, Wide
  <2>2. CASE \E h \in handles : x = Dereference(h.index)
    <3>1. PICK h \in handles : x = Dereference(h.index)
      BY <2>2
    <3>2. h.index \in Nat /\ Has(refs, h.index)
      BY DEF Wide, Kept, HandlesOwn
    <3> QED
      BY <3>1, <3>2, DereferenceFacts DEF Has, Dereference
  <2> QED
    BY <1>1, <2>1, <2>2
<1>3. PICK n \in Nat \ {0} :
          /\ n = NextIndex(refs) /\ ~Has(refs, n)
          /\ Has(refs', n) /\ refs'.slots[n] = x
          /\ SameBut(refs, refs', n) /\ Sound(refs')
          /\ Len(refs'.slots) \in {Len(refs.slots), n}
  BY <1>1, <1>2, AddSound DEF Wide, Kept
<1>4. Grant(n, x) /\ n <= MaxSlots
  BY <1>1, <1>3 DEF CopyToPersistentRef, HasRoom
<1>5. /\ n \notin Outstanding /\ handles' = handles \cup {[index |-> n, to |-> x, nth |-> 1]}
      /\ given' \in 0..MaxGiven
  BY <1>4, GrantIsNew DEF Kept
<1>6. /\ \A h \in handles : h.index # n
      /\ \A i \in 1..Len(pending) : pending[i] # n
      /\ \A f \in Frames : Anchored(f) => frames[f].anchor # n
  BY <1>3, FreeIsNobodys
<1>7. UNCHANGED <<frames, cache, rvar, creating, pending, lost, failed>>
  BY DEF CopyToPersistentRef
<1>8. HandlesOwn'
  BY <1>3, <1>5, <1>6, HandlesGrow DEF Kept
<1>9. PendingOwn'
  <2>1. \A h \in handles' \ handles : h.index \notin Outstanding
    BY <1>5
  <2> QED
    BY <1>3, <1>6, <1>7, <2>1, PendingStays DEF Kept
<1>10. Outstanding' = Outstanding \cup {n}
  BY <1>5, <1>7, OutstandingGrows
<1>11. AnchorsOwn'
  <2>1. \A f \in Frames : Anchored(f)' <=> Anchored(f)
    BY <1>7 DEF Anchored
  <2>2. \A f \in Frames : Anchored(f) => frames[f].anchor \notin Outstanding'
    BY <1>6, <1>10 DEF Kept, AnchorsOwn
  <2> QED
    BY <1>3, <1>6, <1>7, <2>1, <2>2, AnchorsStay DEF Kept
<1>12. CallOwns'
  BY <1>7 DEF CallOwns, CopyToPersistentRef
<1>13. NothingElseIsLost'
  <2>1. SlotOwners' = SlotOwners \cup {n}
    BY <1>7, <1>10 DEF SlotOwners
  <2> QED
    BY <1>3, <1>7, <2>1, OwnersStay DEF Kept
<1>14. RefsTypeOK'
  BY <1>3, <1>4, <1>5, <1>7, <1>8, <1>9, Typed DEF Kept, RefsTypeOK
<1> QED
  BY <1>3, <1>8, <1>9, <1>11, <1>12, <1>13, <1>14 DEF Kept

LEMMA DisposeKept ==
    ASSUME Shape, Shape', Kept, Dispose
    PROVE  Kept'
<1> USE DEF Shape
<1>1. PICK h \in handles : handles' = handles \ {h} /\ pending' = Append(pending, h.index)
  BY DEF Dispose
<1>2. UNCHANGED <<given, regiven, refs, frames, cache, rvar, creating, lost, failed>>
  BY DEF Dispose
<1>3. SameBut(refs, refs', 0) /\ ~Has(refs, 0) /\ ~Has(refs', 0)
  BY <1>2, NoneChanged
<1>4. /\ Len(pending) \in Nat /\ Len(pending') = Len(pending) + 1
      /\ pending'[Len(pending')] = h.index /\ \A i \in 1..Len(pending) : pending'[i] = pending[i]
  BY <1>1, AppendProperties, LenProperties DEF Wide
<1>5. HandlesOwn'
  <2>1. \A k \in handles' : k.index # 0
    BY <1>1, <1>3 DEF Kept, HandlesOwn
  <2> QED
    BY <1>1, <1>3, <2>1, HandlesStay DEF Kept
<1>6. \A k \in handles' : k.index # h.index
  BY <1>1 DEF Kept, HandlesOwn
<1>7. PendingOwn'
  <2>1. \A i \in 1..Len(pending') : i \in 1..Len(pending) \/ i = Len(pending')
    BY <1>4
  <2>2. \A i \in 1..Len(pending') : Has(refs', pending'[i]) /\ \A k \in handles' : k.index # pending'[i]
    BY <1>1, <1>2, <1>4, <1>6, <2>1 DEF Kept, PendingOwn, HandlesOwn
  <2>3. \A i \in 1..Len(pending) : pending[i] # h.index
    BY DEF Kept, PendingOwn
  <2>4. \A i, j \in 1..Len(pending') : pending'[i] = pending'[j] => i = j
    BY <1>4, <2>1, <2>3 DEF Kept, PendingOwn
  <2> QED
    BY <2>2, <2>4 DEF PendingOwn
<1>8. Outstanding' = Outstanding
  <2>1. {pending'[i] : i \in 1..Len(pending')} = {pending[i] : i \in 1..Len(pending)} \cup {h.index}
    <3>1. \A i \in 1..Len(pending') : i \in 1..Len(pending) \/ i = Len(pending')
      BY <1>4
    <3>2. Len(pending') \in 1..Len(pending') /\ 1..Len(pending) \subseteq 1..Len(pending')
      BY <1>4
    <3> QED
      BY <1>4, <3>1, <3>2
  <2> QED
    BY <1>1, <2>1 DEF Outstanding
<1>9. AnchorsOwn'
  BY <1>2, <1>8 DEF Kept, AnchorsOwn, Anchored, Dereference
<1>10. CallOwns'
  BY <1>2 DEF Kept, CallOwns, Dereference
<1>11. NothingElseIsLost'
  BY <1>2, <1>8 DEF Kept, NothingElseIsLost, SlotOwners
<1>12. Sound(refs)'
  BY <1>2 DEF Kept
<1>13. RefsTypeOK'
  <2>1. Len(pending') <= MaxPending
    BY <1>4, RefAssumption DEF Dispose
  <2> QED
    BY <1>2, <1>5, <1>7, <1>12, <2>1, Typed DEF Kept, RefsTypeOK
<1> QED
  BY <1>5, <1>7, <1>9, <1>10, <1>11, <1>12, <1>13 DEF Kept

LEMMA DisposedKept ==
    ASSUME Shape, Shape', Kept, DisposePersistentRefs
    PROVE  Kept'
<1> USE DEF Shape
<1> DEFINE n == Head(pending)
<1>1. UNCHANGED <<given, regiven, frames, cache, rvar, creating, handles, failed>>
  BY DEF DisposePersistentRefs
<1>2. /\ pending' = Tail(pending) /\ lost' = lost \ {n}
      /\ refs' = IF Has(refs, n) THEN Remove(refs, n) ELSE refs
  BY DEF DisposePersistentRefs
<1>3. n \in Nat /\ n = pending[1] /\ Len(pending) \in Nat \ {0}
  BY DEF DisposePersistentRefs, Wide
<1> HIDE DEF n
<1>4. /\ Len(pending') = Len(pending) - 1
      /\ \A i \in 1..Len(pending') : i + 1 \in 1..Len(pending) /\ pending'[i] = pending[i + 1]
  BY <1>2, <1>3, HeadTailProperties DEF Wide, DisposePersistentRefs
<1>5. Has(refs, n)
  BY <1>3 DEF Kept, PendingOwn
<1>6. ~Has(refs', n) /\ SameBut(refs, refs', n) /\ Sound(refs')
  BY <1>2, <1>3, <1>5, RemoveSound DEF Wide, Kept
<1>7. HandlesOwn'
  <2>1. \A h \in handles' : h.index # n
    BY <1>1, <1>3 DEF Kept, PendingOwn
  <2> QED
    BY <1>1, <1>3, <1>6, <2>1, HandlesStay DEF Kept
<1>8. \A i \in 1..Len(pending') : pending'[i] # n
  <2> SUFFICES ASSUME NEW i \in 1..Len(pending') PROVE pending'[i] # n
    OBVIOUS
  <2>1. i + 1 \in 1..Len(pending) /\ 1 \in 1..Len(pending) /\ i + 1 # 1
    BY <1>3, <1>4
  <2> QED
    BY <1>3, <1>4, <2>1 DEF Kept, PendingOwn
<1>9. PendingOwn'
  <2>1. \A i \in 1..Len(pending') :
            /\ Has(refs', pending'[i])
            /\ \A h \in handles' : h.index # pending'[i]
    <3> SUFFICES ASSUME NEW i \in 1..Len(pending')
                 PROVE  Has(refs', pending'[i]) /\ \A h \in handles' : h.index # pending'[i]
      OBVIOUS
    <3>1. pending'[i] \in Nat \ {n} /\ Has(refs, pending'[i]) /\ \A h \in handles : h.index # pending'[i]
      <4>1. pending'[i] \in Nat
        BY DEF Wide
      <4>2. Has(refs, pending[i + 1]) /\ \A h \in handles : h.index # pending[i + 1]
        BY <1>4 DEF Kept, PendingOwn
      <4> QED
        BY <4>1, <4>2, <1>4, <1>8
    <3> QED
      BY <1>1, <1>3, <1>6, <3>1, SlotStays
  <2>2. \A i, j \in 1..Len(pending') : pending'[i] = pending'[j] => i = j
    <3> SUFFICES ASSUME NEW i \in 1..Len(pending'), NEW j \in 1..Len(pending'), pending'[i] = pending'[j]
                 PROVE  i = j
      OBVIOUS
    <3>1. i + 1 = j + 1
      BY <1>4 DEF Kept, PendingOwn
    <3> QED
      BY <1>3, <1>4, <3>1
  <2> QED
    BY <2>1, <2>2 DEF PendingOwn
<1>10. Outstanding' \subseteq Outstanding /\ Outstanding \subseteq Outstanding' \cup {n}
  <2>1. {pending'[i] : i \in 1..Len(pending')} \subseteq {pending[i] : i \in 1..Len(pending)}
    BY <1>4
  <2>2. \A i \in 1..Len(pending) : i = 1 \/ (i - 1 \in 1..Len(pending') /\ pending'[i - 1] = pending[i])
    BY <1>3, <1>4
  <2>3. {pending[i] : i \in 1..Len(pending)} \subseteq {pending'[i] : i \in 1..Len(pending')} \cup {n}
    BY <1>3, <2>2
  <2> QED
    BY <1>1, <2>1, <2>3 DEF Outstanding
<1>11. AnchorsOwn'
  <2>1. n \in Outstanding
    BY <1>3 DEF Outstanding
  <2>2. \A f \in Frames : Anchored(f) => frames[f].anchor # n /\ frames[f].anchor \notin Outstanding'
    BY <1>10, <2>1 DEF Kept, AnchorsOwn
  <2>3. \A f \in Frames : Anchored(f)' <=> Anchored(f)
    BY <1>1 DEF Anchored
  <2> QED
    BY <1>1, <1>3, <1>6, <2>2, <2>3, AnchorsStay DEF Kept
<1>12. CallOwns'
  BY <1>1 DEF DisposePersistentRefs, CallOwns
<1>13. NothingElseIsLost'
  <2>1. (SlotOwners \cup lost) \ {n} \subseteq SlotOwners' \cup lost'
    BY <1>1, <1>2, <1>10 DEF SlotOwners
  <2> QED
    BY <1>3, <1>6, <2>1, OwnersStay DEF Kept
<1>14. RefsTypeOK'
  <2>1. Len(refs'.slots) <= MaxSlots
    BY <1>2, <1>3, <1>5, RemoveFacts DEF Kept, RefsTypeOK, Wide
  <2>2. Len(pending') <= MaxPending
    BY <1>3, <1>4, RefAssumption DEF Kept, RefsTypeOK
  <2> QED
    BY <1>1, <1>2, <1>6, <1>7, <1>9, <2>1, <2>2, Typed DEF Kept, RefsTypeOK
<1> QED
  BY <1>6, <1>7, <1>9, <1>11, <1>12, <1>13, <1>14 DEF Kept

LEMMA InfoTypes ==
    ASSUME NEW t \in Tables \cup {NoTable}, NEW i \in 0..MaxSlots
    PROVE  /\ NewInfo(t, i) \in Infos
           /\ \A x \in Tables \cup {NoTable} : [NewInfo(t, i) EXCEPT !.shown = x] \in Infos
           /\ NewInfo(t, i).anchor = 0 /\ NewInfo(t, i).refIndex = i
           /\ \A x : [NewInfo(t, i) EXCEPT !.shown = x].anchor = 0
<1>1. 0 \in 0..MaxSlots
  BY RefAssumption
<1>2. NewInfo(t, i) \in Infos /\ NewInfo(t, i).anchor = 0 /\ NewInfo(t, i).refIndex = i
  BY <1>1 DEF NewInfo, NoInfo, Infos
<1>3. \A r \in Infos, x \in Tables \cup {NoTable} : [r EXCEPT !.shown = x] \in Infos
  BY DEF Infos
<1>4. \A r \in Infos : \A x : [r EXCEPT !.shown = x].anchor = r.anchor
  BY DEF Infos
<1> QED
  BY <1>2, <1>3, <1>4

\* A frame of the cache is at its index already.
LEMMA RegisteredKept ==
    ASSUME Shape, Shape', Kept, creating = NoCall,
           NEW t \in Tables, NEW way \in Ways, NEW f \in RegisteredFrames(t),
           creating' = [frame |-> f, way |-> way],
           UNCHANGED <<refs, frames, cache, rvar, pending, handles, given, lost, failed>>
    PROVE  Kept'
<1> USE DEF Shape
<1>1. f \in Frames /\ f \in cache /\ Dereference(frames[f].refIndex) = Frame(f)
  BY DEF RegisteredFrames, Wide
<1>2. CallOwns'
  BY <1>1 DEF CallOwns, Dereference
<1>3. HandlesOwn' /\ PendingOwn' /\ AnchorsOwn' /\ Sound(refs)'
  BY DEF Kept, HandlesOwn, PendingOwn, AnchorsOwn, Anchored, Outstanding, Dereference
<1>4. NothingElseIsLost'
  <2>1. SlotOwners \subseteq SlotOwners'
    BY DEF SlotOwners, Outstanding, NoCall
  <2> QED
    BY <2>1 DEF Kept, NothingElseIsLost
<1>5. RefsTypeOK'
  BY <1>3, Typed DEF Kept, RefsTypeOK
<1> QED
  BY <1>2, <1>3, <1>4, <1>5 DEF Kept

\* A new frame takes a free slot, for the call that goes on.
LEMMA NewFrameKept ==
    ASSUME Shape, Shape', Kept, creating = NoCall, HasRoom,
           NEW t \in Tables, NEW way \in Ways, NEW f \in Frames, frames[f].status = "unborn",
           refs' = Add(refs, Frame(f)), frames' = [frames EXCEPT ![f] = NewInfo(t, NextIndex(refs))],
           cache' = cache \cup {f}, creating' = [frame |-> f, way |-> way],
           UNCHANGED <<rvar, pending, handles, given, lost, failed>>
    PROVE  Kept'
<1> USE DEF Shape
<1>1. Frame(f) \in Contents /\ Frame(f) # Null
  BY ContentsApart DEF Contents
<1>2. PICK n \in Nat \ {0} :
          /\ n = NextIndex(refs) /\ ~Has(refs, n)
          /\ Has(refs', n) /\ refs'.slots[n] = Frame(f)
          /\ SameBut(refs, refs', n) /\ Sound(refs')
          /\ Len(refs'.slots) \in {Len(refs.slots), n}
  BY <1>1, AddSound DEF Wide, Kept
<1>3. n \in 1..MaxSlots /\ n \in 0..MaxSlots
  BY <1>2, RefAssumption DEF HasRoom
<1>4. frames' = [frames EXCEPT ![f] = NewInfo(t, n)] /\ frames \in [Frames -> Infos]
  BY <1>2 DEF Kept, RefsTypeOK
<1>5. /\ frames' \in [Frames -> Infos] /\ frames'[f].anchor = 0 /\ frames'[f].refIndex = n
      /\ \A g \in Frames \ {f} : frames'[g] = frames[g]
  BY <1>3, <1>4, InfoTypes
<1>6. /\ \A h \in handles : h.index # n
      /\ \A i \in 1..Len(pending) : pending[i] # n
      /\ \A g \in Frames : Anchored(g) => frames[g].anchor # n
  BY <1>2, FreeIsNobodys
<1>7. HandlesOwn'
  BY <1>2, <1>6, HandlesStay DEF Kept
<1>8. PendingOwn'
  BY <1>2, <1>6, PendingStays DEF Kept
<1>9. Outstanding' = Outstanding
  BY DEF Outstanding
<1>10. AnchorsOwn'
  <2>1. \A g \in Frames : Anchored(g)' => g # f /\ Anchored(g)
    BY <1>5 DEF Anchored
  <2> QED
    BY <1>2, <1>5, <1>6, <1>9, <2>1, AnchorsStay DEF Kept, AnchorsOwn
<1>11. CallOwns'
  BY <1>2, <1>5 DEF CallOwns, Dereference
<1>12. NothingElseIsLost'
  <2>1. SlotOwners \subseteq SlotOwners' /\ n \in SlotOwners'
    BY <1>2, <1>3, <1>5, <1>9 DEF SlotOwners, NoCall, Frames
  <2> QED
    BY <1>2, <2>1, OwnersStay DEF Kept
<1>13. RefsTypeOK'
  BY <1>2, <1>3, <1>5, <1>7, <1>8, Typed DEF Kept, RefsTypeOK
<1> QED
  BY <1>2, <1>7, <1>8, <1>10, <1>11, <1>12, <1>13 DEF Kept

\* One that could not be made is in the cache, and at no index.
LEMMA FailedFrameKept ==
    ASSUME Shape, Shape', Kept, creating = NoCall,
           NEW t \in Tables, NEW f \in Frames, frames[f].status = "unborn", NEW i \in 0..MaxSlots,
           frames' = [frames EXCEPT ![f] = [NewInfo(t, i) EXCEPT !.shown = NoTable]],
           cache' = cache \cup {f},
           UNCHANGED <<refs, creating, rvar, pending, handles, given, lost, failed>>
    PROVE  Kept'
<1> USE DEF Shape
<1>1. frames \in [Frames -> Infos]
  BY DEF Kept, RefsTypeOK
<1>2. /\ frames' \in [Frames -> Infos] /\ frames'[f].anchor = 0
      /\ \A g \in Frames \ {f} : frames'[g] = frames[g]
  BY <1>1, InfoTypes
<1>3. HandlesOwn' /\ PendingOwn' /\ Sound(refs)' /\ Outstanding' = Outstanding
  BY DEF Kept, HandlesOwn, PendingOwn, Outstanding, Dereference
<1>4. AnchorsOwn'
  <2>1. \A g \in Frames : Anchored(g)' => g # f /\ Anchored(g)
    BY <1>2 DEF Anchored
  <2>2. SameBut(refs, refs', 0) /\ ~Has(refs, 0)
    BY NoneChanged
  <2> QED
    BY <1>2, <1>3, <2>1, <2>2, FreeIsNobodys, AnchorsStay DEF Kept, AnchorsOwn
<1>5. CallOwns'
  BY DEF CallOwns
<1>6. NothingElseIsLost'
  <2>1. SlotOwners \subseteq SlotOwners'
    BY <1>2, <1>3 DEF SlotOwners, NoCall
  <2> QED
    BY <2>1 DEF Kept, NothingElseIsLost
<1>7. RefsTypeOK'
  BY <1>2, <1>3, Typed DEF Kept, RefsTypeOK
<1> QED
  BY <1>3, <1>4, <1>5, <1>6, <1>7 DEF Kept

LEMMA RegisterKept ==
    ASSUME Shape, Shape', Kept, Register
    PROVE  Kept'
<1>1. PICK t \in Tables, way \in Ways : RegisterDataFrame(t, way)
  BY DEF Register, Ways, Shape, Wide
<1>2. /\ creating = NoCall
      /\ UNCHANGED <<given, regiven, rvar, pending, handles, failed>>
  BY <1>1 DEF RegisterDataFrame
<1>3. CASE \E f \in RegisteredFrames(t) :
              /\ creating' = [frame |-> f, way |-> way]
              /\ UNCHANGED <<refs, frames, cache, lost>>
  BY <1>2, <1>3, RegisteredKept
<1>4. CASE /\ Unborn # {} /\ HasRoom
           /\ cache' = cache \cup {Newborn} /\ lost' = lost
           /\ refs' = Add(refs, Frame(Newborn))
           /\ frames' = [frames EXCEPT ![Newborn] = NewInfo(t, NextIndex(refs))]
           /\ creating' = [frame |-> Newborn, way |-> way]
  BY <1>2, <1>4, NewbornFacts, NewFrameKept
<1>5. CASE /\ Unborn # {}
           /\ cache' = cache \cup {Newborn} /\ lost' = lost
           /\ \E i \in 0..MaxSlots :
                  frames' = [frames EXCEPT ![Newborn] = [NewInfo(t, i) EXCEPT !.shown = NoTable]]
           /\ UNCHANGED <<refs, creating>>
  BY <1>2, <1>5, NewbornFacts, FailedFrameKept
<1> QED
  BY <1>1, <1>3, <1>4, <1>5 DEF RegisterDataFrame

LEMMA RefresherKept ==
    ASSUME Shape, Shape', Kept, ~regiven', CreateRefresher
    PROVE  Kept'
<1> USE DEF Shape
<1> DEFINE f == creating.frame
           i == frames[f].refIndex
<1>1. f \in Frames /\ f \in cache /\ Dereference(i) = Frame(f) /\ i \in Nat
  BY DEF CreateRefresher, Kept, CallOwns, Wide, WideInfos
<1>2. /\ Grant(i, Frame(f)) /\ creating' = NoCall
      /\ lost' = lost \ {i}
      /\ UNCHANGED <<refs, cache, rvar, pending, failed>>
  BY DEF CreateRefresher, Answer
<1>3. /\ frames \in [Frames -> Infos] /\ frames' \in [Frames -> Infos]
      /\ \A g \in Frames : frames'[g].status = frames[g].status /\ frames'[g].anchor = frames[g].anchor
  <2>1. frames \in [Frames -> Infos]
    BY DEF Kept, RefsTypeOK
  <2>2. CASE frames' = frames
    BY <2>1, <2>2
  <2>3. CASE creating.way # "index" /\ frames' = [frames EXCEPT ![f].refresh = creating.way]
    <3>1. creating.way \in {"none", "global", "member", "view"}
      BY <2>3 DEF Wide, Ways
    <3> QED
      BY <2>1, <2>3, <3>1, <1>1 DEF Infos
  <2> QED
    BY <2>1, <2>2, <2>3 DEF CreateRefresher
<1>4. NothingElseIsLost /\ SlotOwners = Outstanding \cup {frames[g].anchor : g \in {k \in Frames : frames[k].status = "live"}} \cup {i}
  BY <1>1 DEF Kept, SlotOwners, Frames
<1> HIDE DEF f, i
<1>5. Has(refs, i) /\ refs.slots[i] = Frame(f)
  BY <1>1, ContentsApart DEF Dereference
<1>6. /\ i \notin Outstanding /\ handles' = handles \cup {[index |-> i, to |-> Frame(f), nth |-> 1]}
      /\ given' \in 0..MaxGiven
  BY <1>2, GrantIsNew DEF Kept
<1>7. SameBut(refs, refs', 0) /\ ~Has(refs, 0) /\ ~Has(refs', 0)
  BY <1>2, NoneChanged
<1>8. /\ \A h \in handles : h.index # 0
      /\ \A j \in 1..Len(pending) : pending[j] # 0
      /\ \A g \in Frames : Anchored(g) => frames[g].anchor # 0
  BY <1>7, FreeIsNobodys
<1>9. HandlesOwn'
  BY <1>1, <1>2, <1>5, <1>6, <1>7, <1>8, HandlesGrow DEF Kept
<1>10. PendingOwn'
  <2>1. \A h \in handles' \ handles : h.index \notin Outstanding
    BY <1>6
  <2> QED
    BY <1>2, <1>7, <1>8, <2>1, PendingStays DEF Kept
<1>11. Outstanding' = Outstanding \cup {i}
  BY <1>2, <1>6, OutstandingGrows
<1>12. AnchorsOwn'
  <2>1. \A g \in Frames : Anchored(g)' <=> Anchored(g)
    BY <1>3 DEF Anchored
  <2>2. \A g \in Frames : Anchored(g) => frames[g].anchor # i
    BY <1>1, ContentsApart DEF Kept, AnchorsOwn
  <2>3. \A g \in Frames : Anchored(g) => frames[g].anchor \notin Outstanding'
    BY <1>11, <2>2 DEF Kept, AnchorsOwn
  <2> QED
    BY <1>3, <1>7, <1>8, <2>1, <2>3, AnchorsStay DEF Kept
<1>13. CallOwns'
  BY <1>2 DEF CallOwns
<1>14. NothingElseIsLost'
  <2>1. SlotOwners \subseteq SlotOwners' /\ i \in SlotOwners'
    BY <1>3, <1>4, <1>11 DEF SlotOwners
  <2> QED
    BY <1>2, <1>4, <1>7, <2>1, OwnersStay
<1>15. Sound(refs)'
  BY <1>2 DEF Kept
<1>16. RefsTypeOK'
  BY <1>2, <1>3, <1>6, <1>9, <1>10, <1>15, Typed DEF Kept, RefsTypeOK
<1> QED
  BY <1>9, <1>10, <1>12, <1>13, <1>14, <1>15, <1>16 DEF Kept

LEMMA AnchoredKept ==
    ASSUME Shape, Shape', Kept, ~regiven', CreateAnchoredRefresher
    PROVE  Kept'
<1> USE DEF Shape
<1> DEFINE f == creating.frame
           i == frames[f].refIndex
           a == frames[f].anchor
<1>1. f \in Frames /\ f \in cache /\ Dereference(i) = Frame(f) /\ i \in Nat /\ a \in 0..MaxSlots
  BY DEF CreateAnchoredRefresher, Kept, CallOwns, Wide, WideInfos, RefsTypeOK, Infos
<1>2. /\ Grant(i, Frame(f)) /\ creating' = NoCall
      /\ lost' = (lost \ {i}) \cup ({a} \ {0})
      /\ refs' = Add(refs, Env) /\ HasRoom
      /\ frames' = [frames EXCEPT ![f].anchor = NextIndex(refs), ![f].refresh = "member"]
      /\ UNCHANGED <<cache, rvar, pending, failed>>
  BY DEF CreateAnchoredRefresher, Answer
<1>3. NothingElseIsLost /\ SlotOwners = Outstanding \cup {frames[g].anchor : g \in {k \in Frames : frames[k].status = "live"}} \cup {i}
  BY <1>1 DEF Kept, SlotOwners, Frames
<1>4. frames[f].status = "live" /\ a = frames[f].anchor
  BY <1>1 DEF NoDanglingFrame
<1> HIDE DEF f, i, a
<1>5. PICK n \in Nat \ {0} :
          /\ n = NextIndex(refs) /\ ~Has(refs, n)
          /\ Has(refs', n) /\ refs'.slots[n] = Env
          /\ SameBut(refs, refs', n) /\ Sound(refs')
          /\ Len(refs'.slots) \in {Len(refs.slots), n}
  <2>1. Env \in Contents /\ Env # Null
    BY ContentsApart DEF Contents
  <2> QED
    BY <1>2, <2>1, AddSound DEF Wide, Kept
<1>6. n \in 0..MaxSlots /\ n <= MaxSlots
  BY <1>2, <1>5, RefAssumption DEF HasRoom
<1>7. frames \in [Frames -> Infos] /\ frames' = [frames EXCEPT ![f].anchor = n, ![f].refresh = "member"]
  BY <1>2, <1>5 DEF Kept, RefsTypeOK
<1>8. /\ frames' \in [Frames -> Infos] /\ frames'[f].anchor = n
      /\ \A g \in Frames : frames'[g].status = frames[g].status
      /\ \A g \in Frames \ {f} : frames'[g] = frames[g]
  <2> DEFINE anchored == [frames[f] EXCEPT !.anchor = n, !.refresh = "member"]
  <2>1. frames[f] \in Infos /\ frames' = [frames EXCEPT ![f] = anchored]
    BY <1>1, <1>7
  <2>2. anchored \in Infos /\ anchored.anchor = n /\ anchored.status = frames[f].status
    BY <1>6, <2>1 DEF Infos
  <2> HIDE DEF anchored
  <2> QED
    BY <1>1, <1>7, <2>1, <2>2
<1>9. Has(refs, i) /\ refs.slots[i] = Frame(f) /\ i # n
  BY <1>1, <1>5, ContentsApart DEF Dereference
<1>10. Has(refs', i) /\ refs'.slots[i] = Frame(f)
  BY <1>1, <1>5, <1>9, SlotStays
<1>11. /\ i \notin Outstanding /\ handles' = handles \cup {[index |-> i, to |-> Frame(f), nth |-> 1]}
       /\ given' \in 0..MaxGiven
  BY <1>2, GrantIsNew DEF Kept
<1>12. /\ n \notin Outstanding
       /\ \A h \in handles : h.index # n
       /\ \A j \in 1..Len(pending) : pending[j] # n
       /\ \A g \in Frames : Anchored(g) => frames[g].anchor # n
  BY <1>5, FreeIsNobodys
<1>13. HandlesOwn'
  BY <1>1, <1>5, <1>10, <1>11, <1>12, HandlesGrow DEF Kept
<1>14. PendingOwn'
  <2>1. \A h \in handles' \ handles : h.index \notin Outstanding
    BY <1>11
  <2> QED
    BY <1>2, <1>5, <1>12, <2>1, PendingStays DEF Kept
<1>15. Outstanding' = Outstanding \cup {i}
  BY <1>2, <1>11, OutstandingGrows
<1>16. AnchorsOwn'
  <2>1. \A g \in Frames \ {f} : Anchored(g)' => Anchored(g) /\ frames'[g].anchor = frames[g].anchor
    BY <1>8 DEF Anchored
  <2>2. \A g \in Frames : Anchored(g) => frames[g].anchor # i /\ frames[g].anchor \notin Outstanding
    BY <1>1, ContentsApart DEF Kept, AnchorsOwn
  <2>3. \A g \in Frames \ {f} : Anchored(g)' =>
            Has(refs', frames'[g].anchor) /\ refs'.slots[frames'[g].anchor] = Env
    <3> SUFFICES ASSUME NEW g \in Frames \ {f}, Anchored(g)'
                 PROVE  Has(refs', frames'[g].anchor) /\ refs'.slots[frames'[g].anchor] = Env
      OBVIOUS
    <3>1. PICK b \in Nat \ {n} : b = frames[g].anchor
      BY <1>12, <2>1 DEF Wide, WideInfos
    <3>2. Has(refs, b) /\ refs.slots[b] = Env
      BY <2>1, <3>1, ContentsApart DEF Kept, AnchorsOwn, Dereference
    <3> QED
      BY <1>5, <2>1, <3>1, <3>2, SlotStays
  <2>4. \A g \in Frames : Anchored(g)' =>
            Has(refs', frames'[g].anchor) /\ refs'.slots[frames'[g].anchor] = Env
    BY <1>5, <1>8, <2>3
  <2>5. \A g \in Frames : Anchored(g)' => Dereference(frames[g].anchor)' = Env
    BY <2>4 DEF Dereference
  <2>6. \A g \in Frames : Anchored(g)' => frames'[g].anchor \notin Outstanding'
    BY <1>8, <1>9, <1>12, <1>15, <2>1, <2>2
  <2>7. \A g, k \in Frames : Anchored(g)' /\ Anchored(k)' /\ frames'[k].anchor = frames'[g].anchor => g = k
    BY <1>8, <1>12, <2>1 DEF Kept, AnchorsOwn
  <2> QED
    BY <2>5, <2>6, <2>7 DEF AnchorsOwn
<1>17. CallOwns'
  BY <1>2 DEF CallOwns
<1>18. NothingElseIsLost'
  <2>1. {frames[g].anchor : g \in {k \in Frames : frames[k].status = "live"}}
            \subseteq {frames'[g].anchor : g \in {k \in Frames : frames'[k].status = "live"}} \cup {a}
    BY <1>4, <1>8
  <2>2. n \in SlotOwners' /\ Outstanding' \subseteq SlotOwners'
    BY <1>1, <1>4, <1>8 DEF SlotOwners
  <2>3. {frames'[g].anchor : g \in {k \in Frames : frames'[k].status = "live"}} \subseteq SlotOwners'
    BY DEF SlotOwners
  <2>4. Has(refs, 0) = FALSE
    BY DEF Has
  <2>5. (SlotOwners \cup lost) \ {0} \subseteq SlotOwners' \cup lost'
    BY <1>2, <1>3, <1>15, <2>1, <2>2, <2>3
  <2> SUFFICES ASSUME NEW j \in 1..Len(refs'.slots), Has(refs', j), j # n
               PROVE  j \in SlotOwners' \cup lost'
    BY <2>2 DEF NothingElseIsLost
  <2>6. j \in Nat /\ j # 0
    BY DEF Wide, Storage
  <2>7. Has(refs, j)
    BY <1>5, <2>6, SlotStays
  <2>8. j \in SlotOwners \cup lost
    BY <1>3, <2>7 DEF NothingElseIsLost, Has
  <2> QED
    BY <2>5, <2>6, <2>8
<1>19. RefsTypeOK'
  <2>1. lost' \subseteq 1..MaxSlots
    BY <1>1, <1>2 DEF Kept, RefsTypeOK
  <2> QED
    BY <1>2, <1>5, <1>6, <1>8, <1>11, <1>13, <1>14, <2>1, Typed DEF Kept, RefsTypeOK
<1> QED
  BY <1>5, <1>13, <1>14, <1>16, <1>17, <1>18, <1>19 DEF Kept

\* The index the client never heard of is lost, and known to be.
LEMMA FailsKept ==
    ASSUME Shape, Shape', Kept, RefresherFails
    PROVE  Kept'
<1> USE DEF Shape
<1>1. /\ creating' = NoCall /\ lost' = lost \cup {frames[creating.frame].refIndex}
      /\ UNCHANGED <<given, regiven, refs, frames, cache, rvar, pending, handles, failed>>
  BY DEF RefresherFails
<1>2. HandlesOwn' /\ PendingOwn' /\ AnchorsOwn' /\ Sound(refs)' /\ CallOwns'
  BY <1>1 DEF Kept, HandlesOwn, PendingOwn, AnchorsOwn, CallOwns, Anchored, Outstanding, Dereference
<1>3. SlotOwners \cup lost \subseteq SlotOwners' \cup lost' \cup {0}
  <2>1. Outstanding' = Outstanding
    BY <1>1 DEF Outstanding
  <2>2. \A f \in {creating.frame} \ {0} : frames[f].refIndex \in lost'
    BY <1>1
  <2> QED
    BY <1>1, <2>1, <2>2 DEF SlotOwners
<1>4. NothingElseIsLost'
  <2>1. \A i \in 1..Len(refs.slots) : i # 0
    BY DEF Wide, Storage
  <2> QED
    BY <1>1, <1>3, <2>1 DEF Kept, NothingElseIsLost
<1>5. RefsTypeOK'
  <2>1. Has(refs, frames[creating.frame].refIndex)
    BY ContentsApart DEF RefresherFails, Kept, CallOwns, Dereference
  <2>2. frames[creating.frame].refIndex \in 1..MaxSlots
    BY <2>1, RefAssumption DEF Has, Kept, RefsTypeOK, Wide, Storage
  <2> QED
    BY <1>1, <1>2, <2>2, Typed DEF Kept, RefsTypeOK
<1> QED
  BY <1>2, <1>4, <1>5 DEF Kept

LEMMA SortKept ==
    ASSUME Shape, Shape', Kept, ~regiven', SortOrFilter
    PROVE  Kept'
<1> USE DEF Shape
<1> DEFINE f == Newborn
<1>1. PICK g \in Frames :
          /\ refs' = Add(refs, Frame(f))
          /\ frames' = [frames EXCEPT ![f] =
                 [NewInfo(NoTable, NextIndex(refs)) EXCEPT !.shown = frames[g].shown]]
          /\ Grant(NextIndex(refs), Frame(f))
  BY DEF SortOrFilter, FramesAt
<1>2. f \in Frames /\ frames[f].status = "unborn"
  BY NewbornFacts DEF SortOrFilter
<1> HIDE DEF f
<1>3. /\ UNCHANGED <<cache, rvar, creating, pending, lost, failed>>
      /\ creating = NoCall /\ HasRoom
  BY DEF SortOrFilter
<1>4. Frame(f) \in Contents /\ Frame(f) # Null
  BY <1>2, ContentsApart DEF Contents
<1>5. PICK n \in Nat \ {0} :
          /\ n = NextIndex(refs) /\ ~Has(refs, n)
          /\ Has(refs', n) /\ refs'.slots[n] = Frame(f)
          /\ SameBut(refs, refs', n) /\ Sound(refs')
          /\ Len(refs'.slots) \in {Len(refs.slots), n}
  BY <1>1, <1>4, AddSound DEF Wide, Kept
<1>6. n \in 0..MaxSlots /\ n <= MaxSlots
  BY <1>3, <1>5, RefAssumption DEF HasRoom
<1>7. /\ frames \in [Frames -> Infos] /\ frames[g].shown \in Tables \cup {NoTable}
      /\ frames' = [frames EXCEPT ![f] = [NewInfo(NoTable, n) EXCEPT !.shown = frames[g].shown]]
      /\ Grant(n, Frame(f))
  BY <1>1, <1>5 DEF Kept, RefsTypeOK, Infos
<1>8. /\ frames' \in [Frames -> Infos] /\ frames'[f].anchor = 0
      /\ \A k \in Frames \ {f} : frames'[k] = frames[k]
  BY <1>2, <1>6, <1>7, InfoTypes
<1>9. /\ n \notin Outstanding /\ handles' = handles \cup {[index |-> n, to |-> Frame(f), nth |-> 1]}
      /\ given' \in 0..MaxGiven
  BY <1>7, GrantIsNew DEF Kept
<1>10. /\ \A h \in handles : h.index # n
       /\ \A i \in 1..Len(pending) : pending[i] # n
       /\ \A k \in Frames : Anchored(k) => frames[k].anchor # n
  BY <1>5, FreeIsNobodys
<1>11. HandlesOwn'
  BY <1>5, <1>9, <1>10, HandlesGrow DEF Kept
<1>12. PendingOwn'
  <2>1. \A h \in handles' \ handles : h.index \notin Outstanding
    BY <1>9
  <2> QED
    BY <1>3, <1>5, <1>10, <2>1, PendingStays DEF Kept
<1>13. Outstanding' = Outstanding \cup {n}
  BY <1>3, <1>9, OutstandingGrows
<1>14. AnchorsOwn'
  <2>1. \A k \in Frames : Anchored(k)' => k # f /\ Anchored(k)
    BY <1>8 DEF Anchored
  <2>2. \A k \in Frames : Anchored(k) => frames[k].anchor \notin Outstanding'
    BY <1>10, <1>13 DEF Kept, AnchorsOwn
  <2> QED
    BY <1>5, <1>8, <1>10, <2>1, <2>2, AnchorsStay DEF Kept
<1>15. CallOwns'
  BY <1>3 DEF CallOwns
<1>16. NothingElseIsLost'
  <2>1. SlotOwners \subseteq SlotOwners' /\ n \in SlotOwners'
    BY <1>2, <1>3, <1>8, <1>13 DEF SlotOwners, NoCall
  <2> QED
    BY <1>3, <1>5, <2>1, OwnersStay DEF Kept
<1>17. RefsTypeOK'
  BY <1>3, <1>5, <1>6, <1>8, <1>9, <1>11, <1>12, Typed DEF Kept, RefsTypeOK
<1> QED
  BY <1>5, <1>11, <1>12, <1>14, <1>15, <1>16, <1>17 DEF Kept

LEMMA RefreshKept ==
    ASSUME Shape, Shape', Kept, Refresh
    PROVE  Kept'
<1> USE DEF Shape
<1>1. PICK f \in Frames :
          \/ /\ frames' = [frames EXCEPT ![f].table = rvar, ![f].shown = rvar]
             /\ failed' = failed
          \/ /\ frames' = [frames EXCEPT ![f].table = rvar]
             /\ failed' = failed \cup {f}
  BY DEF Refresh, FramesAt
<1>2. /\ creating = NoCall
      /\ UNCHANGED <<given, regiven, refs, cache, rvar, creating, pending, handles, lost>>
  BY DEF Refresh
<1>3. /\ frames' \in [Frames -> Infos]
      /\ \A g \in Frames : frames'[g].status = frames[g].status /\ frames'[g].anchor = frames[g].anchor
  <2>1. frames \in [Frames -> Infos] /\ rvar \in Tables
    BY DEF Kept, RefsTypeOK
  <2> QED
    BY <1>1, <2>1 DEF Infos
<1>4. HandlesOwn' /\ PendingOwn' /\ Sound(refs)' /\ CallOwns' /\ Outstanding' = Outstanding
  BY <1>2 DEF Kept, HandlesOwn, PendingOwn, CallOwns, Outstanding, Dereference
<1>5. AnchorsOwn'
  BY <1>2, <1>3, <1>4 DEF Kept, AnchorsOwn, Anchored, Dereference
<1>6. NothingElseIsLost'
  <2>1. SlotOwners' = SlotOwners
    BY <1>2, <1>3, <1>4 DEF SlotOwners, NoCall
  <2> QED
    BY <1>2, <2>1 DEF Kept, NothingElseIsLost
<1>7. RefsTypeOK'
  BY <1>1, <1>2, <1>3, <1>4, Typed DEF Kept, RefsTypeOK
<1> QED
  BY <1>4, <1>5, <1>6, <1>7 DEF Kept

\* The collector frees the index of the environment that only this frame kept
\* alive, while a call may be under way for another frame.
LEMMA CollectKept ==
    ASSUME Shape, Shape', Kept, NEW f \in Frames, CollectFrame(f)
    PROVE  Kept'
<1> USE DEF Shape
<1> DEFINE n == frames[f].anchor
<1>1. /\ frames[f].status = "live" /\ ~Holds(refs, f)
      /\ refs' = IF n = 0 THEN refs ELSE Remove(refs, n)
      /\ cache' = cache \ {f} /\ failed' = failed \ {f}
      /\ UNCHANGED <<given, regiven, rvar, creating, pending, handles, lost>>
  BY DEF CollectFrame, Holds
<1>2. /\ frames \in [Frames -> Infos] /\ frames' \in [Frames -> Infos] /\ n \in Nat
      /\ frames'[f].anchor = 0 /\ \A g \in Frames \ {f} : frames'[g] = frames[g]
  <2>1. frames \in [Frames -> Infos] /\ frames \in [Frames -> WideInfos]
    BY DEF Kept, RefsTypeOK, Wide
  <2>2. [NoInfo EXCEPT !.status = "dead"] \in Infos /\ [NoInfo EXCEPT !.status = "dead"].anchor = 0
    BY RefAssumption DEF NoInfo, Infos
  <2> QED
    BY <2>1, <2>2 DEF CollectFrame, WideInfos
<1>3. n # 0 => /\ Anchored(f) /\ Dereference(n) = Env /\ Has(refs, n) /\ n \notin Outstanding
               /\ \A g \in Frames \ {f} : Anchored(g) => frames[g].anchor # n
  BY <1>1, ContentsApart DEF Anchored, Kept, AnchorsOwn, Dereference
<1> HIDE DEF n
<1>4. ~Has(refs', n) /\ SameBut(refs, refs', n) /\ Sound(refs')
  <2>1. CASE n = 0
    BY <1>1, <2>1, NoneChanged DEF Kept
  <2>2. CASE n # 0
    BY <1>1, <1>2, <1>3, <2>2, RemoveSound DEF Wide, Kept
  <2> QED
    BY <2>1, <2>2
<1>5. /\ n \notin Outstanding
      /\ \A g \in Frames \ {f} : Anchored(g) => frames[g].anchor # n
      /\ creating # NoCall => frames[creating.frame].refIndex # n
  <2>1. CASE n = 0
    <3>1. ~Has(refs, n)
      BY <2>1 DEF Has
    <3> QED
      BY <1>2, <3>1, FreeIsNobodys
  <2>2. CASE n # 0
    BY <1>3, <2>2, ContentsApart DEF Kept, CallOwns
  <2> QED
    BY <2>1, <2>2
<1>6. HandlesOwn'
  <2>1. \A h \in handles' : h.index # n
    BY <1>1, <1>5 DEF Outstanding
  <2> QED
    BY <1>1, <1>2, <1>4, <2>1, HandlesStay DEF Kept
<1>7. PendingOwn'
  <2>1. \A i \in 1..Len(pending) : pending[i] # n
    BY <1>5 DEF Outstanding
  <2> QED
    BY <1>1, <1>2, <1>4, <2>1, PendingStays DEF Kept
<1>8. Outstanding' = Outstanding
  BY <1>1 DEF Outstanding
<1>9. AnchorsOwn'
  <2>1. \A g \in Frames : Anchored(g)' => g # f /\ Anchored(g) /\ frames'[g].anchor = frames[g].anchor
    BY <1>2 DEF Anchored
  <2> QED
    BY <1>2, <1>4, <1>5, <1>8, <2>1, AnchorsStay DEF Kept, AnchorsOwn
<1>10. CallOwns'
  <2> SUFFICES ASSUME creating # NoCall
               PROVE  /\ creating.frame \in cache'
                      /\ Has(refs', frames'[creating.frame].refIndex)
                      /\ refs'.slots[frames'[creating.frame].refIndex] = Frame(creating.frame)
    BY <1>1 DEF CallOwns, Dereference
  <2>1. creating.frame \in Frames /\ creating.frame \in cache
    BY DEF Kept, CallOwns, Wide
  <2>2. PICK i \in Nat \ {n} : i = frames[creating.frame].refIndex
    BY <1>5, <2>1 DEF Wide, WideInfos
  <2>3. Dereference(i) = Frame(creating.frame)
    BY <2>2 DEF Kept, CallOwns
  <2>4. Has(refs, i) /\ refs.slots[i] = Frame(creating.frame)
    BY <2>3, ContentsApart DEF Dereference
  <2>5. creating.frame # f
    BY <1>1, <2>3, DereferenceFacts
  <2>6. frames'[creating.frame].refIndex = i
    BY <1>2, <2>1, <2>2, <2>5
  <2> QED
    BY <1>1, <1>2, <1>4, <2>1, <2>4, <2>5, <2>6, SlotStays
<1>11. NothingElseIsLost'
  <2>1. (SlotOwners \cup lost) \ {n} \subseteq SlotOwners' \cup lost'
    <3>1. {frames[g].anchor : g \in {k \in Frames : frames[k].status = "live"}} \ {n}
              \subseteq {frames'[g].anchor : g \in {k \in Frames : frames'[k].status = "live"}}
      BY <1>2 DEF n
    <3>2. \A g \in {creating.frame} \ {0} : frames'[g].refIndex = frames[g].refIndex
      <4> SUFFICES ASSUME creating.frame # 0
                   PROVE  frames'[creating.frame].refIndex = frames[creating.frame].refIndex
        OBVIOUS
      <4>1. creating # NoCall
        BY DEF NoCall
      <4>2. creating.frame \in Frames /\ Dereference(frames[creating.frame].refIndex) = Frame(creating.frame)
        BY <4>1 DEF Kept, CallOwns, Wide
      <4>3. frames[creating.frame].refIndex \in Nat
        BY <4>2 DEF Wide, WideInfos
      <4>4. creating.frame # f
        BY <1>1, <4>2, <4>3, DereferenceFacts
      <4> QED
        BY <1>2, <4>2, <4>4
    <3> QED
      BY <1>1, <1>8, <3>1, <3>2 DEF SlotOwners
  <2> QED
    BY <1>2, <1>4, <2>1, OwnersStay DEF Kept
<1>12. RefsTypeOK'
  <2>1. Len(refs'.slots) <= MaxSlots
    BY <1>1, <1>2, RemoveFacts DEF Kept, RefsTypeOK, Wide
  <2> QED
    BY <1>1, <1>2, <1>4, <1>6, <1>7, <2>1, Typed DEF Kept, RefsTypeOK
<1> QED
  BY <1>4, <1>6, <1>7, <1>9, <1>10, <1>11, <1>12 DEF Kept

LEMMA KeptStart == RefsInit => Kept
<1> SUFFICES ASSUME RefsInit PROVE Kept
  OBVIOUS
<1>1. /\ refs.slots = <<>> /\ Len(refs.slots) = 0 /\ refs.slots \in Seq(Contents)
      /\ refs.holes = <<>> /\ Len(refs.holes) = 0 /\ refs.holes \in Seq(1..MaxSlots)
  BY DEF RefsInit, EmptyStorage
<1>2. pending = <<>> /\ Len(pending) = 0 /\ pending \in Seq(1..MaxSlots)
  BY DEF RefsInit
<1>3. frames \in [Frames -> Infos] /\ \A f \in Frames : frames[f].anchor = 0
  <2>1. NoInfo \in Infos /\ NoInfo.anchor = 0
    BY RefAssumption DEF NoInfo, Infos
  <2> QED
    BY <2>1 DEF RefsInit
<1>4. creating \in [frame : Frames \cup {0}, way : Ways]
  BY DEF RefsInit, NoCall, Ways
<1>5. RefsTypeOK
  <2>1. 0 <= MaxSlots /\ 0 <= MaxPending /\ 0 \in 0..MaxGiven
    BY RefAssumption
  <2> QED
    BY <1>1, <1>2, <1>3, <1>4, <2>1 DEF RefsInit, RefsTypeOK
<1>6. Sound(refs) /\ NothingElseIsLost
  BY <1>1 DEF Sound, HolesMatch, NothingElseIsLost
<1>7. HandlesOwn /\ PendingOwn /\ AnchorsOwn /\ CallOwns
  BY <1>2, <1>3 DEF RefsInit, HandlesOwn, PendingOwn, AnchorsOwn, Anchored, CallOwns
<1> QED
  BY <1>5, <1>6, <1>7 DEF Kept

LEMMA RefsStep ==
    ASSUME RefsInv, [RefsNext]_refsVars
    PROVE  RefsInv'
<1>1. Shape /\ Shape'
  BY ShapeKept DEF RefsInv
<1> SUFFICES ASSUME ~regiven' PROVE Kept'
  BY <1>1 DEF RefsInv
<1>2. ~regiven
  BY DEF RefsNext, refsVars, CopyToPersistentRef, Dispose, DisposePersistentRefs, Register,
         RegisterDataFrame, CreateRefresher, CreateAnchoredRefresher, RefresherFails,
         SortOrFilter, Refresh, Assign, CollectFrame, Answer, Grant
<1>3. Kept
  BY <1>2 DEF RefsInv
<1>4. CASE CopyToPersistentRef
  BY <1>1, <1>3, <1>4, CopyKept
<1>5. CASE Dispose
  BY <1>1, <1>3, <1>5, DisposeKept
<1>6. CASE DisposePersistentRefs
  BY <1>1, <1>3, <1>6, DisposedKept
<1>7. CASE Register
  BY <1>1, <1>3, <1>7, RegisterKept
<1>8. CASE CreateRefresher
  BY <1>1, <1>3, <1>8, RefresherKept
<1>9. CASE CreateAnchoredRefresher
  BY <1>1, <1>3, <1>9, AnchoredKept
<1>10. CASE RefresherFails
  BY <1>1, <1>3, <1>10, FailsKept
<1>11. CASE SortOrFilter
  BY <1>1, <1>3, <1>11, SortKept
<1>12. CASE Refresh
  BY <1>1, <1>3, <1>12, RefreshKept
<1>13. CASE \E f \in Frames : CollectFrame(f)
  BY <1>1, <1>3, <1>13, CollectKept
<1>14. CASE Assign \/ UNCHANGED refsVars
  <2>1. UNCHANGED <<given, regiven, refs, frames, cache, creating, pending, handles, lost, failed>>
    BY <1>14 DEF Assign, refsVars
  <2>2. rvar' \in Tables
    BY <1>1 DEF Shape, Wide
  <2>3. RefsTypeOK'
    BY <1>3, <2>1, <2>2 DEF Kept, RefsTypeOK
  <2>4. HandlesOwn' /\ PendingOwn' /\ AnchorsOwn' /\ CallOwns' /\ Sound(refs)'
    BY <1>3, <2>1 DEF Kept, HandlesOwn, PendingOwn, AnchorsOwn, Anchored, CallOwns, Outstanding, Dereference
  <2>5. NothingElseIsLost'
    BY <1>3, <2>1 DEF Kept, NothingElseIsLost, SlotOwners, Outstanding
  <2> QED
    BY <2>3, <2>4, <2>5 DEF Kept
<1> QED
  BY <1>4, <1>5, <1>6, <1>7, <1>8, <1>9, <1>10, <1>11, <1>12, <1>13, <1>14 DEF RefsNext

LEMMA GivenFramesShow ==
    ASSUME RefsInv, [RefsNext]_refsVars
    PROVE  GivenFramesShowTheirTable
<1> DEFINE f == creating.frame
<1> SUFFICES ASSUME creating # NoCall, ~regiven, NEW h \in handles' \ handles
             PROVE  /\ h.to = Frame(f) /\ Dereference(h.index)' = Frame(f)
                    /\ frames[f].status = "live"
                    /\ f \in failed \/ frames[f].shown = frames[f].table
  BY DEF GivenFramesShowTheirTable
<1>1. Shape /\ Kept
  BY DEF RefsInv
<1>2. CreateRefresher \/ CreateAnchoredRefresher
  BY DEF RefsNext, refsVars, CopyToPersistentRef, Dispose, DisposePersistentRefs, Register,
         RegisterDataFrame, RefresherFails, SortOrFilter, Refresh, Assign, CollectFrame
<1>3. f \in Frames /\ f \in cache /\ frames[f].refIndex \in Nat
  BY <1>1 DEF Kept, CallOwns, Shape, Wide, WideInfos
<1>4. PICK i \in Nat : i = frames[f].refIndex
  BY <1>3
<1>5. Dereference(i) = Frame(f)
  BY <1>1, <1>4 DEF Kept, CallOwns
<1>6. Grant(i, Frame(f))
  BY <1>2, <1>4 DEF CreateRefresher, CreateAnchoredRefresher, Answer
<1> HIDE DEF f
<1>7. h.to = Frame(f) /\ h.index = i
  <2> DEFINE first == [index |-> i, to |-> Frame(f), nth |-> 1]
  <2>1. h \in {first, [first EXCEPT !.nth = 2]}
    BY <1>6 DEF Grant
  <2> QED
    BY <2>1
<1>8. Has(refs, i) /\ refs.slots[i] = Frame(f) /\ Holds(refs, f)
  BY <1>1, <1>5, DereferenceFacts DEF Shape, Dereference
<1>9. Has(refs', i) /\ refs'.slots[i] = Frame(f)
  <2>1. CASE CreateRefresher
    BY <1>8, <2>1 DEF CreateRefresher
  <2>2. CASE CreateAnchoredRefresher
    <3>1. Env \in Contents /\ Env # Null
      BY ContentsApart DEF Contents
    <3>2. PICK n \in Nat \ {0} : ~Has(refs, n) /\ SameBut(refs, refs', n)
      BY <1>1, <2>2, <3>1, AddSound DEF CreateAnchoredRefresher, Shape, Wide, Kept
    <3> QED
      BY <1>8, <3>2, SlotStays
  <2> QED
    BY <1>2, <2>1, <2>2
<1>10. Dereference(i)' = Frame(f)
  BY <1>9 DEF Dereference
<1>11. frames[f].status = "live" /\ (f \in failed \/ frames[f].shown = frames[f].table)
  BY <1>1, <1>3, <1>8 DEF Shape, NoDanglingFrame, FramesShow
<1> QED
  BY <1>7, <1>10, <1>11

(***************************************************************************)
(* However the client's calls, the frames' finalizers and the reuse of     *)
(* indices interleave - and whatever was given again too early - no slot   *)
(* and no entry of the cache leads to a deleted DataFrameInfo, which       *)
(* getDataFrameByRef would follow without a test.                          *)
(***************************************************************************)
THEOREM FramesNeverDangle == RefsSpec => []NoDanglingFrame
<1>1. Shape => NoDanglingFrame
  BY DEF Shape
<1> QED
  BY <1>1, ShapeStart, ShapeKept, PTL DEF RefsSpec

(***************************************************************************)
(* As long as no index is given again while the client holds it or is      *)
(* disposing of it: no two values share a slot, the client's handles stand *)
(* for what they were given for, the environments frames refresh from are  *)
(* there, no slot is forgotten, and a frame that is given shows its table. *)
(***************************************************************************)
THEOREM RegisteredFramesAreKept == RefsSpec => FramesAreKept
<1>1. RefsInit => RefsInv
  BY ShapeStart, KeptStart DEF RefsInv
<1>2. RefsInv => NoDanglingFrame /\ SlotsAreKept
  BY DEF RefsInv, Shape, Kept, Sound, HandlesOwn, AnchorsOwn, Anchored, SlotsAreKept,
         HolesAreFree, HandlesHold, AnchorsHold
<1> QED
  BY <1>1, <1>2, RefsStep, GivenFramesShow, PTL DEF RefsSpec, FramesAreKept
-----------------------------------------------------------------------------
(***************************************************************************)
(* PlotPreview: the recursions of buildPreviewMask, of polylines and of    *)
(* circles, keep what a plot looks like.                                   *)
(***************************************************************************)
\* A set of numbers that begins nowhere is empty: the form of induction used below.
LEMMA BeginsNowhere ==
    ASSUME NEW n \in Nat, NEW S \in SUBSET (0..n),
           \A m \in S : \E i \in 0..(m - 1) : i \in S
    PROVE  S = {}
<1> SUFFICES ASSUME S # {} PROVE FALSE
  OBVIOUS
<1>1. PICK m \in S : \A i \in S : m <= i
  BY Least
<1>2. PICK i \in 0..(m - 1) : i \in S
  OBVIOUS
<1>3. m <= i /\ i \in Int /\ m \in Int /\ i <= m - 1
  BY <1>1, <1>2
<1> QED
  BY <1>3

\* Of the values of a function on a range one is the first of the greatest.
LEMMA FirstOfTheGreatest ==
    ASSUME NEW a \in Nat, NEW b \in Nat, a <= b, NEW F \in [a..b -> Int]
    PROVE  \E i \in a..b : /\ \A j \in a..b : F[j] <= F[i]
                           /\ \A j \in a..(i - 1) : F[j] < F[i]
<1> DEFINE Top(k) == \E i \in a..k : \A j \in a..k : F[j] <= F[i]
           S == {d \in 0..(b - a) : ~Top(a + d)}
<1>1. S = {}
  <2>1. ASSUME NEW m \in S PROVE \E i \in 0..(m - 1) : i \in S
    <3> SUFFICES ASSUME \A i \in 0..(m - 1) : i \notin S PROVE FALSE
      OBVIOUS
    <3>1. m \in 0..(b - a) /\ ~Top(a + m)
      OBVIOUS
    <3>2. CASE m = 0
      <4>1. a..(a + m) = {a} /\ F[a] \in Int
        BY <3>2
      <4> QED
        BY <3>1, <4>1
    <3>3. CASE m # 0
      <4>1. m - 1 \in 0..(m - 1) /\ m - 1 \in 0..(b - a) /\ a + (m - 1) = a + m - 1
        BY <3>1, <3>3
      <4>2. Top(a + m - 1)
        BY <4>1
      <4>3. PICK i \in a..(a + m - 1) : \A j \in a..(a + m - 1) : F[j] <= F[i]
        BY <4>2
      <4>4. /\ i \in a..(a + m) /\ a + m \in a..(a + m) /\ a + m \in a..b /\ i \in a..b
            /\ \A j \in a..(a + m) : j \in a..b /\ (j = a + m \/ j \in a..(a + m - 1))
        BY <3>1, <4>1
      <4>5. F[i] \in Int /\ F[a + m] \in Int /\ \A j \in a..(a + m) : F[j] \in Int
        BY <4>4
      <4>6. CASE F[a + m] <= F[i]
        BY <3>1, <4>3, <4>4, <4>6
      <4>7. CASE F[i] < F[a + m]
        <5>1. ASSUME NEW j \in a..(a + m) PROVE F[j] <= F[a + m]
          <6>1. F[j] \in Int /\ (j = a + m \/ F[j] <= F[i])
            BY <4>3, <4>4, <4>5
          <6>2. F[i] \in Int /\ F[a + m] \in Int /\ F[a + m] <= F[a + m]
            BY <4>5
          <6>3. CASE j = a + m
            BY <6>2, <6>3
          <6>4. CASE F[j] <= F[i]
            BY <4>7, <6>1, <6>2, <6>4
          <6> QED
            BY <6>1, <6>3, <6>4
        <5> QED
          BY <3>1, <4>4, <5>1
      <4> QED
        BY <4>5, <4>6, <4>7
    <3> QED
      BY <3>2, <3>3
  <2>2. b - a \in Nat
    OBVIOUS
  <2> HIDE DEF S
  <2>3. S \in SUBSET (0..(b - a))
    BY DEF S
  <2> QED
    BY <2>1, <2>2, <2>3, BeginsNowhere
<1> DEFINE M == {i \in a..b : \A j \in a..b : F[j] <= F[i]}
<1>2. M # {} /\ M \in SUBSET Nat
  <2>1. b - a \in 0..(b - a) /\ a + (b - a) = b
    OBVIOUS
  <2>2. Top(b)
    BY <1>1, <2>1
  <2> QED
    BY <2>2
<1>3. PICK i \in M : \A j \in M : i <= j
  <2> HIDE DEF M
  <2> QED
    BY <1>2, Least
<1>4. ASSUME NEW j \in a..(i - 1) PROVE F[j] < F[i]
  <2>1. j \in a..b /\ j \notin M /\ i \in a..b
    BY <1>3
  <2>2. PICK k \in a..b : ~(F[k] <= F[j])
    BY <2>1
  <2>3. F[k] \in Int /\ F[j] \in Int /\ F[i] \in Int /\ F[k] <= F[i]
    BY <2>1
  <2> QED
    BY <2>2, <2>3
<1> QED
  BY <1>4
-----------------------------------------------------------------------------
(***************************************************************************)
(* Circles.                                                                *)
(***************************************************************************)

\* Whether circle i is hidden by a later one that the mask leaves.
HiddenBy(cs, area, i, later) ==
    \E j \in (i + 1)..Len(cs) :
        /\ CellOf(cs[j], area, GridSide(Len(cs))) = CellOf(cs[i], area, GridSide(Len(cs)))
        /\ j \notin later
        /\ SquaredDistance(cs[i], cs[j]) < CircleDistance * CircleDistance

MaskFrom(cs, area, i, later) == IF HiddenBy(cs, area, i, later) THEN later \cup {i} ELSE later

\* h[i] is the mask of the circles from i on.
Masks(cs, area, h) ==
    /\ h[Len(cs) + 1] = {}
    /\ \A i \in 1..Len(cs) : h[i] = MaskFrom(cs, area, i, h[i + 1])

\* The recursion of CircleMask has a solution, from the last circle to the first.
LEMMA CircleMasks ==
    ASSUME NEW cs, NEW area, Len(cs) \in Nat
    PROVE  \E h : CircleMask(cs, area) = h[1] /\ Masks(cs, area, h)
<1> DEFINE n == Len(cs)
           turn(h, i) == IF i > n THEN {} ELSE MaskFrom(cs, area, i, h[i + 1])
           From(h, k) == h = [i \in k..(n + 1) |-> turn(h, i)]
           hidden == CHOOSE h : From(h, 1)
           S == {d \in 0..n : ~ \E h : From(h, n + 1 - d)}
<1>1. CircleMask(cs, area) = hidden[1]
  BY DEF CircleMask, HiddenBy, MaskFrom
<1>2. \A g, h, i : i > n \/ g[i + 1] = h[i + 1] => turn(g, i) = turn(h, i)
  OBVIOUS
<1>3. \A h : turn(h, n + 1) = {}
  OBVIOUS
<1>4. \A h : \A i \in 1..n : turn(h, i) = MaskFrom(cs, area, i, h[i + 1])
  OBVIOUS
<1> HIDE DEF turn, hidden
<1>5. S = {}
  <2>1. ASSUME NEW m \in S PROVE \E i \in 0..(m - 1) : i \in S
    <3> SUFFICES ASSUME \A i \in 0..(m - 1) : i \notin S PROVE FALSE
      OBVIOUS
    <3>1. m \in 0..n /\ ~ \E h : From(h, n + 1 - m)
      OBVIOUS
    <3>2. CASE m = 0
      <4> DEFINE h0 == [i \in (n + 1)..(n + 1) |-> {}]
      <4>1. \A i \in (n + 1)..(n + 1) : turn(h0, i) = {}
        BY <1>3
      <4>2. From(h0, n + 1)
        BY <4>1
      <4>3. n + 1 - m = n + 1
        BY <3>2
      <4> HIDE DEF From, h0
      <4> QED
        BY <3>1, <4>2, <4>3
    <3>3. CASE m # 0
      <4> DEFINE k == n + 1 - m
      <4>1. k \in 1..n /\ m - 1 \in 0..(m - 1) /\ m - 1 \in 0..n /\ n + 1 - (m - 1) = k + 1
        BY <3>1, <3>3
      <4>2. PICK h : From(h, k + 1)
        <5> HIDE DEF From
        <5> QED
          BY <4>1
      <4> HIDE DEF k
      <4> DEFINE g == [i \in k..(n + 1) |-> IF i = k THEN turn(h, k) ELSE h[i]]
      <4>3. \A i \in (k + 1)..(n + 1) : h[i] = turn(h, i)
        BY <4>2
      <4>4. ASSUME NEW i \in k..(n + 1) PROVE g[i] = turn(g, i)
        <5>1. i > n \/ g[i + 1] = h[i + 1]
          BY <4>1
        <5>2. turn(g, i) = turn(h, i)
          <6> HIDE DEF g, n
          <6> QED
            BY <1>2, <5>1
        <5>3. i # k => i \in (k + 1)..(n + 1)
          BY <4>1
        <5> QED
          BY <4>3, <5>2, <5>3
      <4>5. From(g, k)
        <5> DEFINE K == k..(n + 1)
                   G == [i \in K |-> turn(g, i)]
        <5>1. g = [i \in K |-> g[i]]
          OBVIOUS
        <5>2. \A i \in K : g[i] = turn(g, i)
          BY <4>4
        <5> HIDE DEF g, K
        <5>3. g = G
          BY <5>1, <5>2
        <5> QED
          BY <5>3 DEF K
      <4> HIDE DEF From, g
      <4> QED
        BY <3>1, <4>5 DEF k
    <3> QED
      BY <3>2, <3>3
  <2> HIDE DEF S
  <2>2. S \in SUBSET (0..n)
    BY DEF S
  <2> QED
    BY <2>1, <2>2, BeginsNowhere
<1>6. \E h : From(h, 1)
  <2>1. n \in 0..n /\ n + 1 - n = 1
    OBVIOUS
  <2> HIDE DEF From
  <2> QED
    BY <1>5, <2>1
<1>7. From(hidden, 1)
  <2> HIDE DEF From
  <2> QED
    BY <1>6 DEF hidden
<1>8. \A i \in 1..(n + 1) : hidden[i] = turn(hidden, i)
  BY <1>7
<1>9. n + 1 \in 1..(n + 1) /\ \A i \in 1..n : i \in 1..(n + 1)
  OBVIOUS
<1>10. hidden[n + 1] = {}
  BY <1>3, <1>8, <1>9
<1>11. \A i \in 1..n : hidden[i] = MaskFrom(cs, area, i, hidden[i + 1])
  BY <1>4, <1>8, <1>9
<1> QED
  BY <1>1, <1>10, <1>11 DEF Masks

\* A circle left out is near a later one that shows.
LEMMA CirclesShow ==
    ASSUME NEW cs, NEW area, Len(cs) \in Nat
    PROVE  /\ CircleMask(cs, area) \subseteq 1..Len(cs)
           /\ \A i \in CircleMask(cs, area) : \E j \in (i + 1)..Len(cs) :
                 /\ j \notin CircleMask(cs, area)
                 /\ SquaredDistance(cs[i], cs[j]) < CircleDistance * CircleDistance
<1> DEFINE n == Len(cs)
           Near(i, j) == SquaredDistance(cs[i], cs[j]) < CircleDistance * CircleDistance
<1>1. PICK h : CircleMask(cs, area) = h[1] /\ Masks(cs, area, h)
  BY CircleMasks
<1> DEFINE Good(k) == /\ h[k] \subseteq k..n
                      /\ \A i \in h[k] : \E j \in (i + 1)..n : j \notin h[k] /\ Near(i, j)
           S == {d \in 0..n : ~Good(n + 1 - d)}
<1>2. S = {}
  <2>1. ASSUME NEW m \in S PROVE \E i \in 0..(m - 1) : i \in S
    <3> SUFFICES ASSUME \A i \in 0..(m - 1) : i \notin S PROVE FALSE
      OBVIOUS
    <3>1. m \in 0..n /\ ~Good(n + 1 - m)
      OBVIOUS
    <3>2. CASE m = 0
      BY <1>1, <3>1, <3>2 DEF Masks
    <3>3. CASE m # 0
      <4> DEFINE k == n + 1 - m
      <4>1. k \in 1..n /\ m - 1 \in 0..(m - 1) /\ m - 1 \in 0..n /\ n + 1 - (m - 1) = k + 1
        BY <3>1, <3>3
      <4>2. Good(k + 1)
        <5> HIDE DEF Good
        <5> QED
          BY <4>1
      <4>3. ~Good(k)
        BY <3>1
      <4> HIDE DEF k
      <4>4. /\ h[k + 1] \subseteq (k + 1)..n
            /\ \A i \in h[k + 1] : \E j \in (i + 1)..n : j \notin h[k + 1] /\ Near(i, j)
        BY <4>2
      <4>5. k \notin h[k + 1] /\ (k + 1)..n \subseteq k..n
        BY <4>1, <4>4
      <4>6. CASE h[k] = h[k + 1]
        BY <4>3, <4>4, <4>5, <4>6
      <4>7. CASE h[k] = h[k + 1] \cup {k} /\ HiddenBy(cs, area, k, h[k + 1])
        <5>1. h[k] \subseteq k..n
          BY <4>1, <4>4, <4>5, <4>7
        <5>2. ASSUME NEW i \in h[k] PROVE \E j \in (i + 1)..n : j \notin h[k] /\ Near(i, j)
          <6>1. \E j \in (i + 1)..n : j \notin h[k + 1] /\ Near(i, j)
            <7>1. CASE i = k
              BY <4>7, <7>1 DEF HiddenBy
            <7>2. CASE i \in h[k + 1]
              BY <4>4, <7>2
            <7> QED
              BY <4>7, <7>1, <7>2
          <6> HIDE DEF Near
          <6>2. PICK j \in (i + 1)..n : j \notin h[k + 1] /\ Near(i, j)
            BY <6>1
          <6>3. i \in k..n
            BY <5>1
          <6>4. j # k
            BY <4>1, <6>3
          <6> QED
            BY <4>7, <6>2, <6>4
        <5> QED
          BY <4>3, <5>1, <5>2
      <4> QED
        BY <1>1, <4>1, <4>6, <4>7 DEF MaskFrom, Masks
    <3> QED
      BY <3>2, <3>3
  <2> HIDE DEF S
  <2>2. S \in SUBSET (0..n)
    BY DEF S
  <2> QED
    BY <2>1, <2>2, BeginsNowhere
<1>3. n \in 0..n /\ n + 1 - n = 1
  OBVIOUS
<1>4. Good(1)
  <2> HIDE DEF Good
  <2> QED
    BY <1>2, <1>3
<1> QED
  BY <1>1, <1>4

-----------------------------------------------------------------------------
(***************************************************************************)
(* Polylines.  A range r of points is <<first, end>>, the end excluded.    *)
(***************************************************************************)
IntPoint == [x : Int, y : Int]
RangesOf(pts) == {r \in (1..Len(pts)) \X (2..(Len(pts) + 1)) : r[1] < r[2]}
Through(pts, r) == Line(pts[r[1]], pts[r[2] - 1])
Farthest(pts, r) == FarthestIndex(pts, Through(pts, r), r[1], r[2])

PreviewTurn(pts, h, r) ==
    IF r[2] - r[1] <= 2 THEN [mask |-> {}, count |-> r[2] - r[1]]
    ELSE IF NearLine(pts, Through(pts, r), Farthest(pts, r))
    THEN [mask |-> (r[1] + 1)..(r[2] - 2), count |-> 2]
    ELSE Joined(h[<<r[1], Farthest(pts, r) + 1>>], h[<<Farthest(pts, r), r[2]>>])

LEMMA Products == \A m, n \in Int : m * n \in Int
OBVIOUS

\* Squared distances from a line are comparable.
LEMMA SquaredOffs ==
    ASSUME NEW p \in IntPoint, NEW q \in IntPoint, NEW r \in IntPoint
    PROVE  SquaredOff(Line(q, r), p) \in Int /\ SquaredNorm(Line(q, r)) \in Int
<1> DEFINE l == Line(q, r)
<1>1. p.x \in Int /\ p.y \in Int /\ q.x \in Int /\ q.y \in Int /\ r.x \in Int /\ r.y \in Int
  BY DEF IntPoint
<1>2. l.from = q /\ l.a = r.y - q.y /\ l.b = q.x - r.x /\ l.c = r.x * q.y - r.y * q.x
  BY DEF Line
<1>3. r.x * q.y \in Int /\ r.y * q.x \in Int
  BY <1>1, Products
<1> HIDE DEF l
<1>4. l.a \in Int /\ l.b \in Int /\ l.c \in Int
  BY <1>1, <1>2, <1>3
<1>5. l.a * l.a \in Int /\ l.b * l.b \in Int /\ l.a * p.x \in Int /\ l.b * p.y \in Int
  BY <1>1, <1>4, Products
<1> DEFINE off == l.a * p.x + l.b * p.y + l.c
<1>6. off \in Int
  BY <1>4, <1>5
<1>7. off * off \in Int
  <2> HIDE DEF off
  <2> QED
    BY <1>6, Products
<1> DEFINE dx == p.x - q.x
           dy == p.y - q.y
<1>8. dx \in Int /\ dy \in Int
  BY <1>1
<1> HIDE DEF off, dx, dy
<1>9. dx * dx \in Int /\ dy * dy \in Int
  BY <1>8, Products
<1>10. dx * dx + dy * dy \in Int
  BY <1>9
<1>11. SquaredOff(l, p) = IF l.isProper THEN off * off ELSE dx * dx + dy * dy
  BY <1>2 DEF SquaredOff, SquaredDistance, off, dx, dy
<1>12. SquaredNorm(l) = IF l.isProper THEN l.a * l.a + l.b * l.b ELSE 1
  BY DEF SquaredNorm
<1>13. l.a * l.a + l.b * l.b \in Int
  BY <1>5
<1> QED
  BY <1>7, <1>10, <1>11, <1>12, <1>13 DEF l

\* The loop of buildPreviewMask finds a point that is as far as any.
LEMMA FarthestIsThere ==
    ASSUME NEW pts \in Seq(IntPoint), NEW r \in RangesOf(pts), r[2] - r[1] > 2
    PROVE  /\ Farthest(pts, r) \in (r[1] + 1)..(r[2] - 2)
           /\ \A j \in (r[1] + 1)..(r[2] - 2) :
                 SquaredOff(Through(pts, r), pts[j])
                    <= SquaredOff(Through(pts, r), pts[Farthest(pts, r)])
<1> DEFINE a == r[1] + 1
           b == r[2] - 2
           l == Through(pts, r)
           F == [i \in a..b |-> SquaredOff(l, pts[i])]
<1>1. a \in Nat /\ b \in Nat /\ a <= b /\ b <= Len(pts) /\ a >= 1
  BY DEF RangesOf
<1>2. \A i \in 1..Len(pts) : pts[i] \in IntPoint
  BY ElementOfSeq
<1>3. pts[r[1]] \in IntPoint /\ pts[r[2] - 1] \in IntPoint
  BY <1>2 DEF RangesOf
<1>4. F \in [a..b -> Int]
  <2>1. \A i \in a..b : i \in 1..Len(pts)
    BY <1>1
  <2>2. \A i \in a..b : SquaredOff(l, pts[i]) \in Int
    BY <1>2, <1>3, <2>1, SquaredOffs DEF Through
  <2> HIDE DEF a, b, l
  <2> QED
    BY <2>2
<1> HIDE DEF a, b, l
<1>5. PICK i \in a..b : (\A j \in a..b : F[j] <= F[i]) /\ \A j \in a..(i - 1) : F[j] < F[i]
  <2> HIDE DEF F
  <2> QED
    BY <1>1, <1>4, FirstOfTheGreatest
<1>6. /\ \A j \in a..b : SquaredOff(l, pts[j]) <= SquaredOff(l, pts[i])
      /\ \A j \in a..(i - 1) : SquaredOff(l, pts[j]) < SquaredOff(l, pts[i])
  <2>1. \A j \in a..(i - 1) : j \in a..b
    BY <1>1
  <2> QED
    BY <1>5, <2>1
<1>7. Farthest(pts, r) = CHOOSE k \in a..b :
         /\ \A j \in a..b : SquaredOff(l, pts[j]) <= SquaredOff(l, pts[k])
         /\ \A j \in a..(k - 1) : SquaredOff(l, pts[j]) < SquaredOff(l, pts[k])
  BY DEF Farthest, FarthestIndex, a, b, l
<1>8. /\ Farthest(pts, r) \in a..b
      /\ \A j \in a..b : SquaredOff(l, pts[j]) <= SquaredOff(l, pts[Farthest(pts, r)])
  BY <1>6, <1>7
<1> QED
  BY <1>8 DEF a, b, l

\* The two ranges that share it are shorter, and of two points at least.
LEMMA Halves ==
    ASSUME NEW pts \in Seq(IntPoint), NEW r \in RangesOf(pts), r[2] - r[1] > 2
    PROVE  LET f == Farthest(pts, r)
           IN  /\ f \in (r[1] + 1)..(r[2] - 2)
               /\ <<r[1], f + 1>> \in RangesOf(pts) /\ <<f, r[2]>> \in RangesOf(pts)
               /\ (f + 1) - r[1] < r[2] - r[1] /\ r[2] - f < r[2] - r[1]
<1> DEFINE f == Farthest(pts, r)
<1>1. f \in (r[1] + 1)..(r[2] - 2)
  BY FarthestIsThere
<1> HIDE DEF f
<1>2. r[1] \in 1..Len(pts) /\ r[2] \in 2..(Len(pts) + 1) /\ Len(pts) \in Nat
  BY DEF RangesOf
<1>3. f \in 1..Len(pts) /\ f + 1 \in 2..(Len(pts) + 1) /\ r[1] < f + 1 /\ f < r[2]
  BY <1>1, <1>2
<1>4. <<r[1], f + 1>> \in RangesOf(pts) /\ <<f, r[2]>> \in RangesOf(pts)
  BY <1>2, <1>3 DEF RangesOf
<1>5. (f + 1) - r[1] < r[2] - r[1] /\ r[2] - f < r[2] - r[1]
  BY <1>1, <1>2
<1> QED
  BY <1>1, <1>4, <1>5 DEF f

\* The recursion of buildPreviewMask has a solution, from short ranges to long ones.
Previews(pts, h) == \A r \in RangesOf(pts) : h[r] = PreviewTurn(pts, h, r)

LEMMA LinePreviews ==
    ASSUME NEW pts \in Seq(IntPoint)
    PROVE  \E h : PreviewOf(pts) = h[<<1, Len(pts) + 1>>] /\ Previews(pts, h)
<1> DEFINE n == Len(pts)
           UpTo(k) == {r \in RangesOf(pts) : r[2] - r[1] <= k}
           Are(h, R) == h = [r \in R |-> PreviewTurn(pts, h, r)]
           go == CHOOSE h : Are(h, RangesOf(pts))
           S == {k \in 0..n : ~ \E h : Are(h, UpTo(k))}
<1>1. PreviewOf(pts) = go[<<1, n + 1>>]
  BY DEF PreviewOf, PreviewTurn, Through, Farthest, RangesOf
<1>2. n \in Nat /\ \A r \in RangesOf(pts) : r[1] \in 1..n /\ r[2] \in 2..(n + 1) /\ r[1] < r[2]
  BY DEF RangesOf
<1>3. S = {}
  <2>1. ASSUME NEW m \in S PROVE \E i \in 0..(m - 1) : i \in S
    <3> SUFFICES ASSUME \A i \in 0..(m - 1) : i \notin S PROVE FALSE
      OBVIOUS
    <3>1. m \in 0..n /\ ~ \E h : Are(h, UpTo(m))
      OBVIOUS
    <3>2. CASE m = 0
      <4> DEFINE h0 == [r \in {} |-> {}]
      <4>1. UpTo(m) = {}
        BY <1>2, <3>2
      <4>2. Are(h0, {})
        OBVIOUS
      <4> HIDE DEF Are, UpTo, h0
      <4> QED
        BY <3>1, <4>1, <4>2
    <3>3. CASE m # 0
      <4>1. m - 1 \in 0..(m - 1) /\ m - 1 \in 0..n
        BY <3>1, <3>3
      <4>2. PICK h : Are(h, UpTo(m - 1))
        <5> HIDE DEF Are, UpTo
        <5> QED
          BY <4>1
      <4> DEFINE g == [r \in UpTo(m) |-> IF r \in UpTo(m - 1) THEN h[r] ELSE PreviewTurn(pts, h, r)]
      <4>3. \A r \in UpTo(m - 1) : h[r] = PreviewTurn(pts, h, r)
        <5> HIDE DEF UpTo
        <5> QED
          BY <4>2
      <4>4. ASSUME NEW r \in UpTo(m) PROVE g[r] = PreviewTurn(pts, g, r)
        <5>1. PreviewTurn(pts, g, r) = PreviewTurn(pts, h, r)
          <6>1. CASE r[2] - r[1] <= 2
            <7> HIDE DEF g
            <7> QED
              BY <6>1 DEF PreviewTurn
          <6>2. CASE r[2] - r[1] > 2
            <7> DEFINE f == Farthest(pts, r)
                       left == <<r[1], f + 1>>
                       right == <<f, r[2]>>
            <7>1. r \in RangesOf(pts) /\ r[2] - r[1] <= m /\ r[1] \in Int /\ r[2] \in Int
              BY <1>2
            <7>2. /\ f \in (r[1] + 1)..(r[2] - 2)
                  /\ left \in RangesOf(pts) /\ right \in RangesOf(pts)
              BY <6>2, <7>1, Halves, Zenon
            <7>3. left[1] = r[1] /\ left[2] = f + 1 /\ right[1] = f /\ right[2] = r[2]
              OBVIOUS
            <7> HIDE DEF f
            <7>4. left[2] - left[1] <= m - 1 /\ right[2] - right[1] <= m - 1
              <8>1. (f + 1) - r[1] <= m - 1 /\ r[2] - f <= m - 1
                <9>1. r[1] + 1 <= f /\ f <= r[2] - 2 /\ f \in Int /\ m \in Int
                  BY <3>1, <7>1, <7>2
                <9> QED
                  BY <7>1, <9>1
              <8> HIDE DEF left, right
              <8> QED
                BY <7>3, <8>1
            <7> HIDE DEF left, right
            <7>5. left \in UpTo(m - 1) /\ right \in UpTo(m - 1)
              BY <7>2, <7>4
            <7>6. left \in UpTo(m) /\ right \in UpTo(m)
              BY <1>2, <3>1, <7>5
            <7> HIDE DEF UpTo
            <7>7. g[left] = h[left] /\ g[right] = h[right]
              BY <7>5, <7>6
            <7> HIDE DEF g
            <7> QED
              BY <7>7 DEF PreviewTurn, left, right, f
          <6> QED
            BY <1>2, <6>1, <6>2
        <5> HIDE DEF UpTo
        <5> QED
          BY <4>3, <5>1
      <4>5. Are(g, UpTo(m))
        <5> DEFINE K == UpTo(m)
                   G == [r \in K |-> PreviewTurn(pts, g, r)]
        <5>1. g = [r \in K |-> g[r]]
          OBVIOUS
        <5>2. \A r \in K : g[r] = PreviewTurn(pts, g, r)
          BY <4>4
        <5> HIDE DEF g, K
        <5>3. g = G
          BY <5>1, <5>2
        <5> QED
          BY <5>3 DEF K
      <4> HIDE DEF Are, UpTo, g
      <4> QED
        BY <3>1, <4>5
    <3> QED
      BY <3>2, <3>3
  <2> HIDE DEF S
  <2>2. S \in SUBSET (0..n)
    BY DEF S
  <2> QED
    BY <1>2, <2>1, <2>2, BeginsNowhere
<1>4. UpTo(n) = RangesOf(pts)
  <2>1. \A r \in RangesOf(pts) : r[2] - r[1] <= n
    BY <1>2
  <2> QED
    BY <2>1
<1>5. \E h : Are(h, RangesOf(pts))
  <2>1. n \in 0..n
    BY <1>2
  <2> HIDE DEF Are, UpTo
  <2> QED
    BY <1>3, <1>4, <2>1
<1>6. Are(go, RangesOf(pts))
  <2> HIDE DEF Are
  <2> QED
    BY <1>5
<1> HIDE DEF go
<1>7. Previews(pts, go)
  BY <1>6 DEF Previews
<1> QED
  BY <1>1, <1>7

\* What the preview p of the range r must be.
Between(pts, r, left, i) ==
    \E a, b \in (r[1]..(r[2] - 1)) \ left :
        /\ a < i /\ i < b /\ (a + 1)..(b - 1) \subseteq left
        /\ NearLine(pts, Line(pts[a], pts[b]), i)

KeepsShape(pts, r, p) ==
    /\ p.mask \subseteq (r[1] + 1)..(r[2] - 2)
    /\ p.count = (r[2] - r[1]) - Cardinality(p.mask)
    /\ \A i \in p.mask : Between(pts, r, p.mask, i)

\* A range whose farthest point is near keeps its two ends.
LEMMA StraightKeeps ==
    ASSUME NEW pts \in Seq(IntPoint), NEW r \in RangesOf(pts), r[2] - r[1] > 2,
           NearLine(pts, Through(pts, r), Farthest(pts, r))
    PROVE  KeepsShape(pts, r, [mask |-> (r[1] + 1)..(r[2] - 2), count |-> 2])
<1> DEFINE a == r[1]
           b == r[2] - 1
           l == Through(pts, r)
           f == Farthest(pts, r)
           left == (r[1] + 1)..(r[2] - 2)
<1>1. a \in 1..Len(pts) /\ b \in 1..Len(pts) /\ r[1] \in Int /\ r[2] \in Int /\ Len(pts) \in Nat
  BY DEF RangesOf
<1>2. f \in left /\ \A j \in left : SquaredOff(l, pts[j]) <= SquaredOff(l, pts[f])
  BY FarthestIsThere, Zenon
<1>3. \A i \in 1..Len(pts) : pts[i] \in IntPoint
  BY ElementOfSeq
<1>4. \A j \in left : SquaredOff(l, pts[j]) \in Int
  <2>1. \A j \in left : j \in 1..Len(pts)
    BY <1>1
  <2>2. l = Line(pts[a], pts[b])
    BY DEF Through
  <2> HIDE DEF a, b, l, left
  <2> QED
    BY <1>1, <1>3, <2>1, <2>2, SquaredOffs
<1>5. SquaredNorm(l) \in Int
  <2>1. l = Line(pts[a], pts[b])
    BY DEF Through
  <2> HIDE DEF a, b, l
  <2> QED
    BY <1>1, <1>3, <2>1, SquaredOffs
<1>6. \A j \in left : NearLine(pts, l, j)
  <2> DEFINE limit == LineDistance * LineDistance * SquaredNorm(l)
  <2>1. limit \in Int
    <3>1. LineDistance \in Int
      BY ThresholdsAssumption
    <3>2. LineDistance * LineDistance \in Int
      BY <3>1, Products
    <3> QED
      BY <1>5, <3>2, Products
  <2>2. SquaredOff(l, pts[f]) < limit
    BY DEF NearLine
  <2> HIDE DEF limit, l, f, left
  <2>3. \A j \in left : SquaredOff(l, pts[j]) < limit
    BY <1>2, <1>4, <2>1, <2>2
  <2> QED
    BY <2>3 DEF NearLine, limit
<1>7. Cardinality(left) = (r[2] - r[1]) - 2
  <2> DEFINE from == r[1] + 1
             to == r[2] - 2
  <2>1. from \in Int /\ to \in Int /\ left = from..to
    BY <1>1
  <2>2. from <= to /\ to - from + 1 = (r[2] - r[1]) - 2
    BY <1>1
  <2> HIDE DEF left, from, to
  <2> QED
    BY <2>1, <2>2, FS_Interval
<1>8. 2 = (r[2] - r[1]) - Cardinality(left)
  <2> HIDE DEF left
  <2> QED
    BY <1>1, <1>7
<1>9. ASSUME NEW i \in left PROVE Between(pts, r, left, i)
  <2>1. a \in (r[1]..(r[2] - 1)) \ left /\ b \in (r[1]..(r[2] - 1)) \ left
    BY <1>1
  <2>2. a < i /\ i < b /\ (a + 1)..(b - 1) \subseteq left
    BY <1>1
  <2>3. NearLine(pts, Line(pts[a], pts[b]), i)
    BY <1>6 DEF Through
  <2> HIDE DEF a, b, left
  <2> QED
    BY <2>1, <2>2, <2>3 DEF Between
<1> HIDE DEF left
<1>10. left \subseteq (r[1] + 1)..(r[2] - 2)
  BY DEF left
<1>11. KeepsShape(pts, r, [mask |-> left, count |-> 2])
  BY <1>8, <1>9, <1>10 DEF KeepsShape
<1> QED
  BY <1>11 DEF left

\* Two ranges that share a point keep their shapes when joined.
LEMMA JoinedKeep ==
    ASSUME NEW pts, NEW s \in Int, NEW f \in Int, NEW e \in Int, s < f, f < e - 1,
           NEW p, NEW q,
           KeepsShape(pts, <<s, f + 1>>, p), KeepsShape(pts, <<f, e>>, q)
    PROVE  KeepsShape(pts, <<s, e>>, Joined(p, q))
<1> DEFINE left == p.mask \cup q.mask
<1>1. /\ p.mask \subseteq (s + 1)..(f - 1)
      /\ p.count = ((f + 1) - s) - Cardinality(p.mask)
      /\ \A i \in p.mask : Between(pts, <<s, f + 1>>, p.mask, i)
  BY DEF KeepsShape
<1>2. /\ q.mask \subseteq (f + 1)..(e - 2)
      /\ q.count = (e - f) - Cardinality(q.mask)
      /\ \A i \in q.mask : Between(pts, <<f, e>>, q.mask, i)
  BY DEF KeepsShape
<1>3. left \subseteq (s + 1)..(e - 2)
  BY <1>1, <1>2
<1>4. Cardinality(left) = Cardinality(p.mask) + Cardinality(q.mask)
      /\ Cardinality(p.mask) \in Int /\ Cardinality(q.mask) \in Int
  <2>1. IsFiniteSet(p.mask) /\ IsFiniteSet(q.mask)
    <3>1. s + 1 \in Int /\ f - 1 \in Int /\ f + 1 \in Int /\ e - 2 \in Int
      OBVIOUS
    <3>2. IsFiniteSet((s + 1)..(f - 1)) /\ IsFiniteSet((f + 1)..(e - 2))
      BY <3>1, FS_Interval, Zenon
    <3> QED
      BY <1>1, <1>2, <3>2, FS_Subset, Zenon
  <2>2. p.mask \cap q.mask = {}
    BY <1>1, <1>2
  <2>3. Cardinality(left) = Cardinality(p.mask) + Cardinality(q.mask) - Cardinality({})
    BY <2>1, <2>2, FS_Union
  <2>4. Cardinality({}) = 0 /\ Cardinality(p.mask) \in Nat /\ Cardinality(q.mask) \in Nat
    BY <2>1, FS_EmptySet, FS_CardinalityType
  <2> HIDE DEF left
  <2> QED
    BY <2>3, <2>4
<1>5. p.count + q.count - 1 = (e - s) - Cardinality(left)
  <2> HIDE DEF left
  <2> QED
    BY <1>1, <1>2, <1>4
<1>6. ASSUME NEW i \in p.mask PROVE Between(pts, <<s, e>>, left, i)
  <2>1. PICK a, b \in (s..f) \ p.mask :
           /\ a < i /\ i < b /\ (a + 1)..(b - 1) \subseteq p.mask
           /\ NearLine(pts, Line(pts[a], pts[b]), i)
    BY <1>1 DEF Between
  <2>2. a \in (s..(e - 1)) \ left /\ b \in (s..(e - 1)) \ left
    BY <1>2, <2>1
  <2>3. (a + 1)..(b - 1) \subseteq left
    BY <2>1
  <2> HIDE DEF left
  <2> QED
    BY <2>1, <2>2, <2>3 DEF Between
<1>7. ASSUME NEW i \in q.mask PROVE Between(pts, <<s, e>>, left, i)
  <2>1. PICK a, b \in (f..(e - 1)) \ q.mask :
           /\ a < i /\ i < b /\ (a + 1)..(b - 1) \subseteq q.mask
           /\ NearLine(pts, Line(pts[a], pts[b]), i)
    BY <1>2 DEF Between
  <2>2. a \in (s..(e - 1)) \ left /\ b \in (s..(e - 1)) \ left
    BY <1>1, <2>1
  <2>3. (a + 1)..(b - 1) \subseteq left
    BY <2>1
  <2> HIDE DEF left
  <2> QED
    BY <2>1, <2>2, <2>3 DEF Between
<1>8. /\ Joined(p, q).mask = left /\ Joined(p, q).count = p.count + q.count - 1
  BY DEF Joined
<1> HIDE DEF left
<1>9. \A i \in left : Between(pts, <<s, e>>, left, i)
  BY <1>6, <1>7 DEF left
<1> QED
  BY <1>3, <1>5, <1>8, <1>9 DEF KeepsShape

\* Every range keeps its shape, the short ones first.
LEMMA RangesKeep ==
    ASSUME NEW pts \in Seq(IntPoint), NEW h, Previews(pts, h)
    PROVE  \A r \in RangesOf(pts) : KeepsShape(pts, r, h[r])
<1> DEFINE n == Len(pts)
           S == {k \in 0..n : \E r \in RangesOf(pts) : r[2] - r[1] = k /\ ~KeepsShape(pts, r, h[r])}
<1>1. n \in Nat /\ \A r \in RangesOf(pts) :
                      r[1] \in 1..n /\ r[2] \in 2..(n + 1) /\ r[1] < r[2] /\ r = <<r[1], r[2]>>
  BY DEF RangesOf
<1>2. ASSUME NEW m \in S PROVE \E i \in 0..(m - 1) : i \in S
  <2> SUFFICES ASSUME \A i \in 0..(m - 1) : i \notin S PROVE FALSE
    OBVIOUS
  <2>1. PICK r \in RangesOf(pts) : r[2] - r[1] = m /\ ~KeepsShape(pts, r, h[r])
    OBVIOUS
  <2>2. h[r] = PreviewTurn(pts, h, r) /\ m \in 0..n
    BY DEF Previews
  <2>3. CASE r[2] - r[1] <= 2
    <3>1. h[r] = [mask |-> {}, count |-> r[2] - r[1]]
      BY <2>2, <2>3 DEF PreviewTurn
    <3>2. Cardinality({}) = 0
      BY FS_EmptySet
    <3>3. r[2] - r[1] = (r[2] - r[1]) - 0
      BY <1>1
    <3> QED
      BY <2>1, <3>1, <3>2, <3>3 DEF KeepsShape
  <2>4. CASE r[2] - r[1] > 2 /\ NearLine(pts, Through(pts, r), Farthest(pts, r))
    <3>1. ~(r[2] - r[1] <= 2)
      BY <1>1, <2>4
    <3>2. h[r] = [mask |-> (r[1] + 1)..(r[2] - 2), count |-> 2]
      BY <2>2, <2>4, <3>1 DEF PreviewTurn
    <3> QED
      BY <2>1, <2>4, <3>2, StraightKeeps
  <2>5. CASE r[2] - r[1] > 2 /\ ~NearLine(pts, Through(pts, r), Farthest(pts, r))
    <3> DEFINE s == r[1]
               e == r[2]
               f == Farthest(pts, r)
               first == <<s, f + 1>>
               second == <<f, e>>
    <3>1. ~(e - s <= 2)
      BY <1>1, <2>5
    <3>2. h[r] = Joined(h[first], h[second])
      BY <2>2, <2>5, <3>1 DEF PreviewTurn
    <3>3. /\ f \in (s + 1)..(e - 2) /\ first \in RangesOf(pts) /\ second \in RangesOf(pts)
          /\ (f + 1) - s < e - s /\ e - f < e - s
      BY <2>5, Halves, Zenon
    <3>4. s \in Int /\ e \in Int /\ f \in Int /\ s < f /\ f < e - 1 /\ r = <<s, e>>
      <4>1. s \in Int /\ e \in Int /\ r = <<s, e>>
        BY <1>1
      <4> HIDE DEF s, e, f
      <4> QED
        BY <3>3, <4>1
    <3>5. first[1] = s /\ first[2] = f + 1 /\ second[1] = f /\ second[2] = e
      OBVIOUS
    <3> HIDE DEF s, e, f
    <3>6. (f + 1) - s \in 0..(m - 1) /\ (f + 1) - s \in 0..n /\ e - f \in 0..(m - 1) /\ e - f \in 0..n
      <4>1. e - s = m /\ m \in 0..n
        BY <2>1, <2>2 DEF s, e
      <4>2. s + 1 <= f /\ f <= e - 2
        BY <3>3, <3>4
      <4>3. (f + 1) - s \in Nat /\ (f + 1) - s <= m - 1 /\ e - f \in Nat /\ e - f <= m - 1
        BY <3>4, <4>1, <4>2
      <4>4. m \in Nat /\ m <= n /\ n \in Nat
        BY <1>1, <4>1
      <4> HIDE DEF n
      <4> QED
        BY <4>3, <4>4
    <3>7. KeepsShape(pts, first, h[first])
      <4> HIDE DEF first
      <4> QED
        BY <3>3, <3>5, <3>6
    <3>8. KeepsShape(pts, second, h[second])
      <4> HIDE DEF second
      <4> QED
        BY <3>3, <3>5, <3>6
    <3> DEFINE p == h[first]
               q == h[second]
    <3>9. KeepsShape(pts, <<s, f + 1>>, p) /\ KeepsShape(pts, <<f, e>>, q)
      BY <3>7, <3>8
    <3> HIDE DEF p, q
    <3>10. KeepsShape(pts, <<s, e>>, Joined(p, q))
      BY <3>4, <3>9, JoinedKeep
    <3> QED
      BY <2>1, <3>2, <3>4, <3>10 DEF p, q
  <2> QED
    BY <1>1, <2>3, <2>4, <2>5
<1> HIDE DEF S
<1>3. S \in SUBSET (0..n)
  BY DEF S
<1>4. S = {}
  BY <1>1, <1>2, <1>3, BeginsNowhere
<1>5. ASSUME NEW r \in RangesOf(pts) PROVE KeepsShape(pts, r, h[r])
  <2>1. r[2] - r[1] \in 0..n
    BY <1>1
  <2> QED
    BY <1>4, <2>1 DEF S
<1> QED
  BY <1>5

\* What buildPreviewMask makes of a polyline, of any length.
LEMMA PolylinesKeep ==
    ASSUME NEW pts \in Seq(IntPoint), pts # <<>>
    PROVE  KeepsShape(pts, <<1, Len(pts) + 1>>, PolylinePreview(pts))
<1> DEFINE r == <<1, Len(pts) + 1>>
<1>1. Len(pts) \in Nat /\ Len(pts) # 0
  BY EmptySeq
<1>2. CASE Len(pts) > LengthThreshold
  <2>1. PolylinePreview(pts) = PreviewOf(pts)
    BY <1>2 DEF PolylinePreview
  <2>2. PICK h : PreviewOf(pts) = h[r] /\ Previews(pts, h)
    BY LinePreviews
  <2>3. r \in RangesOf(pts)
    BY <1>1 DEF RangesOf
  <2> QED
    BY <2>1, <2>2, <2>3, RangesKeep
<1>3. CASE ~(Len(pts) > LengthThreshold)
  <2>1. PolylinePreview(pts) = [mask |-> {}, count |-> Len(pts)]
    BY <1>3 DEF PolylinePreview
  <2>2. Cardinality({}) = 0
    BY FS_EmptySet
  <2>3. Len(pts) = ((Len(pts) + 1) - 1) - 0
    BY <1>1
  <2> QED
    BY <2>1, <2>2, <2>3 DEF KeepsShape
<1> QED
  BY <1>2, <1>3

-----------------------------------------------------------------------------
(***************************************************************************)
(* The component.                                                          *)
(***************************************************************************)
\* What is shown is what the plot drew and what the two computations made of it.
PreviewInv ==
    /\ points \in Seq(IntPoint) /\ centers \in Seq(IntPoint)
    /\ \/ Done /\ preview = PolylinePreview(points) /\ mask = CircleMask(centers, Area)
       \/ ~Done /\ mask = {}

LEMMA PreviewInvMeans ==
    ASSUME PreviewInv
    PROVE  PreviewsKeepShapes
<1>1. Len(points) \in Nat /\ Len(centers) \in Nat
  BY DEF PreviewInv
<1>2. CASE ~Done
  BY <1>2 DEF PreviewInv, PreviewsKeepShapes, CountsWhatShows, RemovedAreNearTheLine, HiddenBehindShown
<1>3. CASE Done
  <2>1. preview = PolylinePreview(points) /\ mask = CircleMask(centers, Area)
    BY <1>3 DEF PreviewInv
  <2>2. HiddenBehindShown
    BY <1>1, <2>1, CirclesShow DEF HiddenBehindShown, Squared
  <2>3. CASE points = <<>>
    <3>1. Len(points) = 0 /\ ~(0 > LengthThreshold)
      BY <2>3, ThresholdsAssumption
    <3>2. preview = [mask |-> {}, count |-> 0]
      BY <2>1, <3>1 DEF PolylinePreview
    <3>3. Shown = {} /\ Cardinality({}) = 0
      BY <3>1, FS_EmptySet DEF Shown
    <3> QED
      BY <2>2, <2>3, <3>2, <3>3 DEF PreviewsKeepShapes, CountsWhatShows, RemovedAreNearTheLine
  <2>4. CASE points # <<>>
    <3> DEFINE n == Len(points)
    <3>1. /\ preview.mask \subseteq (1 + 1)..((n + 1) - 2)
          /\ preview.count = ((n + 1) - 1) - Cardinality(preview.mask)
          /\ \A i \in preview.mask : Between(points, <<1, n + 1>>, preview.mask, i)
      <4>1. KeepsShape(points, <<1, n + 1>>, preview)
        BY <2>1, <2>4, PolylinesKeep DEF PreviewInv
      <4> QED
        BY <4>1 DEF KeepsShape
    <3>2. n >= 1
      BY <1>1, <2>4, EmptySeq DEF PreviewInv
    <3>3. preview.mask \subseteq 1..n /\ {1, n} \subseteq Shown
      BY <1>1, <3>1, <3>2 DEF Shown
    <3>4. preview.count = Cardinality(Shown)
      <4>1. IsFiniteSet(1..n) /\ Cardinality(1..n) = n
        <5> HIDE DEF n
        <5>1. n \in Int /\ 1 \in Int /\ ~(1 > n) /\ n - 1 + 1 = n
          BY <1>1, <3>2 DEF n
        <5> QED
          BY <5>1, FS_Interval
      <4>2. Shown = (1..n) \ preview.mask /\ (1..n) \cap preview.mask = preview.mask
        BY <3>3 DEF Shown
      <4>3. Cardinality(Shown) = Cardinality(1..n) - Cardinality(preview.mask)
        <5> DEFINE all == 1..n
        <5>1. IsFiniteSet(all) /\ Shown = all \ preview.mask /\ all \cap preview.mask = preview.mask
          BY <4>1, <4>2
        <5> HIDE DEF n, all
        <5>2. Cardinality(Shown) = Cardinality(all) - Cardinality(preview.mask)
          <6>1. Cardinality(all \ preview.mask) = Cardinality(all) - Cardinality(all \cap preview.mask)
            BY <5>1, FS_Difference, Zenon
          <6> QED
            BY <5>1, <6>1, Zenon
        <5> QED
          BY <5>2 DEF all
      <4>4. Cardinality(preview.mask) \in Int
        BY <3>3, <4>1, FS_Subset, FS_CardinalityType
      <4> QED
        BY <1>1, <3>1, <4>1, <4>3, <4>4
    <3>5. RemovedAreNearTheLine
      <4>1. (1..((n + 1) - 1)) \ preview.mask = Shown
        BY <1>1 DEF Shown
      <4>2. <<1, n + 1>>[1] = 1 /\ <<1, n + 1>>[2] = n + 1
        OBVIOUS
      <4> HIDE DEF n
      <4>3. \A i \in preview.mask : \E a, b \in Shown :
               /\ a < i /\ i < b /\ (a + 1)..(b - 1) \subseteq preview.mask
               /\ NearLine(points, Line(points[a], points[b]), i)
        BY <3>1, <4>1, <4>2 DEF Between
      <4> QED
        BY <4>3 DEF RemovedAreNearTheLine
    <3> QED
      BY <2>2, <3>3, <3>4, <3>5 DEF PreviewsKeepShapes, CountsWhatShows
  <2> QED
    BY <2>3, <2>4
<1> QED
  BY <1>2, <1>3

\* A preview of any polyline and of any batch of circles counts what it shows
\* and leaves out only what is near something shown (buildPreviewMask).
THEOREM PreviewsAlwaysKeepShapes == PreviewSpec => []PreviewsKeepShapes
<1>1. PreviewInit => PreviewInv
  BY PreviewAssumption DEF PreviewInit, Draws, PreviewInv, Done, IntPoint
<1>2. PreviewInv /\ [Preview]_previewVars => PreviewInv'
  <2> SUFFICES ASSUME PreviewInv, [Preview]_previewVars PROVE PreviewInv'
    OBVIOUS
  <2>1. CASE Preview
    <3>1. /\ points' = points /\ centers' = centers
          /\ preview' = PolylinePreview(points)' /\ mask' = CircleMask(centers, Area)'
      BY <2>1 DEF Preview
    <3>2. Done'
      <4>1. CASE points = <<>>
        <5>1. Len(points) = 0 /\ ~(0 > LengthThreshold)
          BY <4>1, ThresholdsAssumption
        <5>2. preview'.count = 0
          BY <2>1, <5>1 DEF Preview, PolylinePreview
        <5> QED
          BY <5>2 DEF Done, Nothing
      <4>2. CASE points # <<>>
        <5> DEFINE n == Len(points)
                   p == PolylinePreview(points)
        <5>1. KeepsShape(points, <<1, n + 1>>, p)
          BY <4>2, PolylinesKeep DEF PreviewInv
        <5> HIDE DEF p
        <5>2. /\ p.mask \subseteq (1 + 1)..((n + 1) - 2)
              /\ p.count = ((n + 1) - 1) - Cardinality(p.mask)
          BY <5>1 DEF KeepsShape
        <5>3. n \in Nat
          BY DEF PreviewInv
        <5>4. Cardinality({}) = 0
          BY FS_EmptySet
        <5>5. p # Nothing
          <6>1. Nothing.mask = {} /\ Nothing.count = -1
            BY DEF Nothing
          <6>2. ASSUME p = Nothing PROVE FALSE
            <7>1. p.mask = {} /\ p.count = -1
              BY <6>1, <6>2
            <7>2. Cardinality(p.mask) = 0
              BY <5>4, <7>1
            <7> HIDE DEF n
            <7> QED
              BY <5>2, <5>3, <7>1, <7>2
          <6> QED
            BY <6>2
        <5> QED
          BY <2>1, <5>5 DEF Preview, Done, p, Nothing
      <4> QED
        BY <4>1, <4>2
    <3> QED
      BY <3>1, <3>2 DEF PreviewInv
  <2>2. CASE UNCHANGED previewVars
    BY <2>2 DEF PreviewInv, previewVars, Done
  <2> QED
    BY <2>1, <2>2
<1>3. PreviewInv => PreviewsKeepShapes
  BY PreviewInvMeans
<1> QED
  BY <1>1, <1>2, <1>3, PTL DEF PreviewSpec
===========================================================================
