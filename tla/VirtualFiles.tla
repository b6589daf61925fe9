---------------------------- MODULE VirtualFiles ----------------------------
(***************************************************************************)
(* The registry of virtual files (SourceFileManager): file ids to external *)
(* pointers, which hold a VirtualFileInfo.  The registry does not protect  *)
(* the pointers: attributes of srcfiles and breakpoints do.  R's collector *)
(* marks a pointer that nothing refers to whenever R allocates, and calls  *)
(* its finalizer later, when R evaluates something: until then the         *)
(* registry still has the pointer to give.  A saved workspace brings       *)
(* pointers back without their addresses, and loadState gives them their   *)
(* infos again.                                                            *)
(***************************************************************************)
EXTENDS Naturals, FiniteSets, Functions

CONSTANTS Srcfiles,    \* srcfile environments
          PathOf,      \* the id a srcfile gets from its path, or NoId when it has no path
          Ptrs,        \* external pointers
          MaxFileId,   \* bound on generated ids
          MaxSessions  \* bound on the processes, one after the other

Generated(n) == <<"gen", n>>
NoId == <<"none", 0>>
NoPtr == "no pointer"

\* Ids that come from a path or with a file of the client are not made with the
\* prefix of generateFileId.
ASSUME VirtualFilesAssumption ==
  /\ IsFiniteSet(Ptrs) /\ NoPtr \notin Ptrs
  /\ \A s \in Srcfiles : PathOf[s][1] # Generated(0)[1]

VARIABLES
  alive,      \* the srcfiles R code still refers to
  attr,       \* virtualFilePtrAttr of every srcfile
  info,       \* the id in the info a pointer holds, NoId for a null address
  marked,     \* pointers the collector has found unreachable: their finalizers will run
  stale,      \* srcfiles that were given a marked pointer
  registry,   \* virtualFiles
  counter,    \* currentGeneratedFileId
  breakpoints,\* the pointers breakpoints hold
  image,      \* the saved workspace
  saving,     \* what saveState has returned, until the image is written
  session,    \* which process this is
  loaded      \* whether it has loaded the workspace

vars == <<alive, attr, info, marked, stale, registry, counter, breakpoints, image, saving, session, loaded>>

Idle == [files |-> {}, at |-> "idle"]
NoImage == [alive |-> {}, attr |-> <<>>, files |-> {}, counter |-> 0,
            ids |-> <<>>]   \* `ids` is for a property only

Init ==
  /\ alive = {}
  /\ attr = [s \in Srcfiles |-> NoPtr]
  /\ info = [p \in Ptrs |-> NoId]
  /\ marked = {} /\ stale = {}
  /\ registry = <<>>
  /\ counter = 0
  /\ breakpoints = {}
  /\ image = NoImage
  /\ saving = Idle
  /\ session = 1
  /\ loaded = FALSE

Reachable == {attr[s] : s \in alive} \cup breakpoints \cup {f[1] : f \in saving.files}
Unused == {p \in Ptrs : p \notin Reachable \cup Range(registry) /\ info[p] = NoId}
Insert(new, f) ==
  [id \in DOMAIN new \cup DOMAIN f |-> IF id \in DOMAIN new THEN new[id] ELSE f[id]]
Erase(f, ids) == Restrict(f, DOMAIN f \ ids)
IdOf(s) == IF attr[s] = NoPtr THEN NoId ELSE info[attr[s]]

\* registerSrcfile looks at the address, which a deleted info leaves as it was.
Registered(s) == attr[s] # NoPtr /\ (info[attr[s]] # NoId \/ s \in stale)

\* Mutant of Collect: the finalizer forgets the registry.
CollectUnregistered(S) ==
  /\ info' = [p \in Ptrs |-> IF p \in S THEN NoId ELSE info[p]]
  /\ UNCHANGED registry

\* The finalizer of createVirtualFileInfo.
Collect(S) ==
  /\ info' = [p \in Ptrs |-> IF p \in S THEN NoId ELSE info[p]]
  /\ registry' = Erase(registry, {info[p] : p \in S})

\* The collector may run whenever R allocates, and marks any pointers nothing refers to.
MarkUnreachable ==
  /\ \E S \in SUBSET {p \in Ptrs \ (Reachable \cup marked) : info[p] # NoId} :
       S # {} /\ marked' = marked \cup S
  /\ UNCHANGED <<alive, attr, info, stale, registry, counter, breakpoints, image, saving, session, loaded>>

\* R runs all finalizers that are due before it evaluates something, and in gc(), whoever
\* has got a pointer since.
RunFinalizers ==
  /\ marked # {} /\ Collect(marked) /\ marked' = {}
  /\ UNCHANGED <<alive, attr, stale, counter, breakpoints, image, saving, session, loaded>>

GetVirtualFileById(id, p) ==
  IF id \in DOMAIN registry
  THEN p = registry[id] /\ UNCHANGED <<registry, info>>
  ELSE /\ p \in Unused
       /\ registry' = Insert([i \in {id} |-> p], registry)
       /\ info' = [info EXCEPT ![p] = id]

\* Mutant of FreshFileId: the counter alone is trusted.
FreshFileIdByCounter == counter

\* generateFileId: the first number from the counter on that no file has.
FreshFileId == CHOOSE n \in counter..(counter + Cardinality(Ptrs)) :
                 /\ Generated(n) \notin DOMAIN registry
                 /\ \A k \in counter..(n - 1) : Generated(k) \in DOMAIN registry

\* R code defines a function or parses a file.
NewSrcfile ==
  /\ saving.at = "idle"
  /\ \E s \in Srcfiles \ alive : alive' = alive \cup {s} /\ attr' = [attr EXCEPT ![s] = NoPtr]
  /\ UNCHANGED <<info, marked, stale, registry, counter, breakpoints, image, saving, session, loaded>>

DropSrcfile ==
  /\ saving.at = "idle"
  /\ \E s \in alive : /\ alive' = alive \ {s} /\ attr' = [attr EXCEPT ![s] = NoPtr]
                     /\ stale' = stale \ {s}
  /\ UNCHANGED <<info, marked, registry, counter, breakpoints, image, saving, session, loaded>>

RegisterSrcfile ==
  /\ saving.at = "idle"
  /\ \E s \in alive :
       /\ ~Registered(s)
       /\ \E n \in {IF PathOf[s] = NoId THEN FreshFileId ELSE 0} :
            \E id \in {IF PathOf[s] = NoId THEN Generated(n) ELSE PathOf[s]} : \E p \in Ptrs :
            /\ n <= MaxFileId
            /\ counter' = IF PathOf[s] = NoId THEN n + 1 ELSE counter
            /\ GetVirtualFileById(id, p)
            /\ attr' = [attr EXCEPT ![s] = p]
            /\ stale' = IF p \in marked THEN stale \cup {s} ELSE stale
  /\ UNCHANGED <<alive, marked, breakpoints, image, saving, session, loaded>>

\* addOrModifyBreakpoint: the client names a file that may not have been read yet.
AddBreakpoint ==
  /\ saving.at = "idle"
  /\ \E id \in {PathOf[s] : s \in Srcfiles} \ {NoId} : \E p \in Ptrs :
       GetVirtualFileById(id, p) /\ breakpoints' = breakpoints \cup {p}
  /\ UNCHANGED <<alive, attr, marked, stale, counter, image, saving, session, loaded>>

RemoveBreakpoint ==
  /\ saving.at = "idle"
  /\ \E p \in breakpoints : breakpoints' = breakpoints \ {p}
  /\ UNCHANGED <<alive, attr, info, marked, stale, registry, counter, image, saving, session, loaded>>

\* Mutant of Entries: the ids are left to the pointers.
EntriesOfPointers == {<<p, NoId>> : p \in Range(registry)}
Entries == {<<p, info[p]>> : p \in Range(registry)}

\* saveState evaluates nothing: no finalizer runs between its look at the registry and its
\* copies.  R evaluates before the image is written.
SaveState ==
  /\ saving.at = "idle"
  /\ saving' = [files |-> Entries, at |-> "copied"]
  /\ UNCHANGED <<alive, attr, info, marked, stale, registry, counter, breakpoints, image, session, loaded>>

NewSession ==
  /\ session < MaxSessions
  /\ session' = session + 1
  /\ loaded' = FALSE
  /\ alive' = {}
  /\ attr' = [s \in Srcfiles |-> NoPtr]
  /\ info' = [p \in Ptrs |-> NoId]
  /\ marked' = {} /\ stale' = {}
  /\ registry' = <<>>
  /\ counter' = 0
  /\ breakpoints' = {}
  /\ saving' = Idle

\* A workspace is saved when the process ends (SessionManager::quit).
SaveAndRestart ==
  /\ saving.at = "copied"
  /\ image' = [alive |-> alive, attr |-> attr, files |-> saving.files, counter |-> counter,
              ids |-> [s \in Srcfiles |-> IdOf(s)]]
  /\ NewSession

Crash == NewSession /\ UNCHANGED image

ImagePtrs == ({f[1] : f \in image.files} \cup Range(image.attr)) \ {NoPtr}

\* loadWorkspace at the start of a session, whose profile may have had a file registered: the image
\* brings the srcfiles and their pointers, without addresses, loadState their infos, except for
\* ids that are known, and the counter of the old session.
LoadWorkspace ==
  /\ saving.at = "idle" /\ ~loaded /\ Cardinality(alive) <= 1
  /\ alive \cap image.alive = {}
  /\ image # NoImage
  /\ ImagePtrs \cap (Range(registry) \cup Reachable) = {}     \* new objects
  /\ alive' = alive \cup image.alive
  /\ attr' = [s \in Srcfiles |-> IF s \in alive THEN attr[s] ELSE image.attr[s]]
  /\ counter' = image.counter
  /\ loaded' = TRUE
  /\ \E fresh \in {{f \in image.files : f[2] \notin DOMAIN registry \cup {NoId}}} :
       /\ info' = [p \in Ptrs |-> IF \E f \in fresh : f[1] = p THEN (CHOOSE f \in fresh : f[1] = p)[2]
                                  ELSE info[p]]
       /\ registry' = Insert([id \in {f[2] : f \in fresh} |-> (CHOOSE f \in fresh : f[2] = id)[1]], registry)
  /\ UNCHANGED <<marked, stale, breakpoints, image, saving, session>>

Next ==
  \/ NewSrcfile \/ DropSrcfile \/ RegisterSrcfile \/ MarkUnreachable \/ RunFinalizers
  \/ AddBreakpoint \/ RemoveBreakpoint
  \/ SaveState \/ SaveAndRestart \/ Crash \/ LoadWorkspace

Spec == Init /\ [][Next]_vars

-----------------------------------------------------------------------------
\* Properties

\* The registry and the infos that live are each other's inverse, through collections, saves and
\* loads: no id leads to a destroyed info, and no two infos answer for one file.
RegistryIsTheInfos ==
  /\ \A id \in DOMAIN registry : info[registry[id]] = id
  /\ \A p \in Ptrs : info[p] # NoId => info[p] \in DOMAIN registry /\ registry[info[p]] = p

\* Two srcfiles have one id only when they come from one path: a text of its own has an id of its
\* own, also when a workspace was loaded whose files took their ids in another session.
TextsHaveTheirOwnIds ==
  \A s, t \in alive : s # t /\ IdOf(s) # NoId /\ IdOf(s) = IdOf(t) => PathOf[s] # NoId /\ PathOf[s] = PathOf[t]

\* A srcfile of a session keeps its id as long as it lives, whatever is collected meanwhile:
\* breakpoints and the client's tabs go by that id.  The exception: a srcfile that was given its
\* pointer between the collector's look and the finalizer, which then deletes the info.
IdsStay ==
  [][\A s \in alive \cap alive' : IdOf(s) # NoId /\ s \notin stale => IdOf(s)' = IdOf(s)]_<<attr, info>>

\* A file of a restored workspace has the id it was saved with, unless the new session has given
\* that id to a file already.
IdsAreRestored ==
  [][LoadWorkspace =>
       \A s \in image.alive : image.ids[s] # NoId =>
         IdOf(s)' = image.ids[s] \/ image.ids[s] \in DOMAIN registry]_vars

\* A srcfile keeps its id while it lives, if its pointer was not marked when it got it, and gets
\* the id back with the workspace it was saved with unless the new session has given it away
\* (collector and finalizer, getVirtualFileById, saveState and loadState of SourceFileManager).
IdsOutliveSessions == IdsStay /\ IdsAreRestored

\* SourceFileManager.h says of VirtualFileInfo that "it's required to protect EXTPTR while you
\* work with" it: a breakpoint protects the pointer to its file, so the info lives.
ProtectedInfosLive == \A p \in breakpoints : info[p] # NoId
=============================================================================
