-------------------------- MODULE PersistentRefs --------------------------
(***************************************************************************)
(* References of the client to R values (copyToPersistentRef, View,        *)
(* disposePersistentRefs) and the data frames it shows, which live in the  *)
(* same storage: registerDataFrame, createRefresher, sort, filter,         *)
(* refresh, and the finalizer R's collector runs.                          *)
(*                                                                         *)
(* A call that creates, copies or refreshes is an immediate task and       *)
(* overtakes the ordinary tasks of disposePersistentRefs.  R has one       *)
(* variable that holds a table; the code reaches it from the global        *)
(* environment or from one it must keep alive by an index of its own.      *)
(***************************************************************************)
EXTENDS Naturals, Sequences

CONSTANTS Tables,      \* what the variable may hold
          MaxFrames,   \* bound: data frames ever made
          MaxSlots,    \* bound: slots in use at once
          MaxPending,  \* bound: disposals on their way
          MaxGiven     \* bound: indices ever given to the client

NoTable == "no table"
Content(is, of) == [is |-> is, of |-> of]
Null == Content("null", NoTable)
Nil == Content("nil", NoTable)         \* R_NilValue
Env == Content("env", NoTable)
Table(t) == Content("table", t)
Frame(f) == Content("frame", f)        \* the external pointer of a DataFrameInfo

INSTANCE IndexedStorage

Frames == 1..MaxFrames
Contents == {Null, Nil, Env} \cup {Table(t) : t \in Tables} \cup {Frame(f) : f \in Frames}

ASSUME RefAssumption ==
    /\ MaxFrames \in Nat /\ MaxSlots \in Nat /\ MaxPending \in Nat /\ MaxGiven \in Nat
    /\ NoTable \notin Tables /\ Tables # {}

VARIABLES
    refs,      \* persistentRefStorage
    frames,    \* the DataFrameInfo of each frame
    cache,     \* dataFrameCache
    rvar,      \* the table in R's variable
    creating,  \* between registerDataFrame and the end of the call
    pending,   \* disposals posted to the main thread, oldest first
    handles,   \* what the client holds, and what it was given it for
    given,     \* indices given so far
    lost,      \* history: slots nobody will ever free
    failed,    \* history: frames whose refresh has failed half way
    regiven    \* history: the client was given an index it held or was disposing of

refsVars == <<refs, frames, cache, rvar, creating, pending, handles, given, lost, failed,
              regiven>>

Ways == {"global", "member", "index", "view"}
Infos == [status : {"unborn", "live", "dead"},
          refIndex : 0..MaxSlots,
          table : Tables \cup {NoTable},     \* initialDataFrame, equalityVector
          shown : Tables \cup {NoTable},     \* dataFrame
          anchor : 0..MaxSlots,              \* the index finalizer removes, or 0
          refresh : {"none", "global", "member", "view"}]
NoCall == [frame |-> 0, way |-> "view"]

RefsTypeOK ==
    /\ refs.slots \in Seq(Contents) /\ Len(refs.slots) <= MaxSlots
    /\ refs.holes \in Seq(1..MaxSlots)
    /\ frames \in [Frames -> Infos]
    /\ cache \subseteq Frames
    /\ rvar \in Tables
    /\ creating \in [frame : Frames \cup {0}, way : Ways]
    /\ pending \in Seq(1..MaxSlots) /\ Len(pending) <= MaxPending
    /\ handles \subseteq [index : 1..MaxSlots, to : Contents, nth : {1, 2}]
    /\ given \in 0..MaxGiven
    /\ lost \subseteq 1..MaxSlots
    /\ failed \subseteq Frames
    /\ regiven \in BOOLEAN

NoInfo == [status |-> "unborn", refIndex |-> 0, table |-> NoTable, shown |-> NoTable,
           anchor |-> 0, refresh |-> "none"]

RefsInit ==
    /\ refs = EmptyStorage
    /\ frames = [f \in Frames |-> NoInfo] /\ cache = {}
    /\ rvar \in Tables
    /\ creating = NoCall /\ pending = <<>> /\ handles = {} /\ given = 0
    /\ lost = {} /\ failed = {} /\ regiven = FALSE

HasRoom == NextIndex(refs) <= MaxSlots
Unborn == {f \in Frames : frames[f].status = "unborn"}
Newborn == CHOOSE f \in Unborn : \A g \in Unborn : f <= g

\* dereference of a persistent index.
Dereference(i) == IF Has(refs, i) THEN refs.slots[i] ELSE Nil

\* The frame a call of the client is about, if any.
FramesAt(i) == {f \in Frames : Dereference(i) = Frame(f)}

Outstanding == {h.index : h \in handles} \cup {pending[i] : i \in 1..Len(pending)}

\* The client is given an index, perhaps once more.
Grant(i, to) ==
    LET first == [index |-> i, to |-> to, nth |-> 1]
    IN  /\ given < MaxGiven /\ given' = given + 1
        /\ regiven' = (regiven \/ i \in Outstanding)
        /\ handles' = handles \cup {IF first \in handles THEN [first EXCEPT !.nth = 2] ELSE first}
--------------------------------------------------------------------------
(* Plain references.                                                       *)

\* copyToPersistentRef, and View of what is no table.
CopyToPersistentRef ==
    /\ creating = NoCall /\ HasRoom
    /\ \E x \in {Table(rvar)} \cup {Dereference(h.index) : h \in handles} :
           /\ refs' = Add(refs, x)
           /\ Grant(NextIndex(refs), x)
    /\ UNCHANGED <<frames, cache, rvar, creating, pending, lost, failed>>

\* The client sends the call and forgets its handle.
Dispose ==
    /\ Len(pending) < MaxPending
    /\ \E h \in handles :
           /\ handles' = handles \ {h}
           /\ pending' = Append(pending, h.index)
    /\ UNCHANGED <<given, regiven, refs, frames, cache, rvar, creating, lost, failed>>

\* Its closure.
DisposePersistentRefs ==
    /\ creating = NoCall /\ pending # <<>>
    /\ pending' = Tail(pending)
    /\ refs' = IF Has(refs, Head(pending)) THEN Remove(refs, Head(pending)) ELSE refs
    /\ lost' = lost \ {Head(pending)}
    /\ UNCHANGED <<given, regiven, frames, cache, rvar, creating, handles, failed>>
--------------------------------------------------------------------------
(* Data frames.                                                            *)

\* Mutant of RegisteredFrames: every cached frame counts.
RegisteredFramesUnchecked(t) == {f \in cache : frames[f].table = t}

\* A cached frame counts only while its external pointer is at its index.
RegisteredFrames(t) ==
    {f \in cache : Dereference(frames[f].refIndex) = Frame(f) /\ frames[f].table = t}

NewInfo(t, i) == [NoInfo EXCEPT !.status = "live", !.refIndex = i, !.table = t, !.shown = t]

\* registerDataFrame of a table, for the call that goes on by way.  When
\* initDataFrame fails the frame stays in the cache, without an index, until
\* the collector comes.
RegisterDataFrame(t, way) ==
    /\ creating = NoCall
    /\ \/ \E f \in RegisteredFrames(t) :
              /\ creating' = [frame |-> f, way |-> way]
              /\ UNCHANGED <<refs, frames, cache, lost>>
       \/ /\ RegisteredFrames(t) = {} /\ Unborn # {} /\ HasRoom
          /\ cache' = cache \cup {Newborn}
          /\ \/ /\ refs' = Add(refs, Frame(Newborn))
                /\ frames' = [frames EXCEPT ![Newborn] = NewInfo(t, NextIndex(refs))]
                /\ creating' = [frame |-> Newborn, way |-> way]
             \/ /\ \E i \in 0..MaxSlots :
                       frames' = [frames EXCEPT ![Newborn] = [NewInfo(t, i) EXCEPT !.shown = NoTable]]
                /\ UNCHANGED <<refs, creating>>
          /\ UNCHANGED lost
    /\ UNCHANGED <<given, regiven, rvar, pending, handles, failed>>

Register ==
    \/ \E way \in {"global", "member", "view"} : RegisterDataFrame(rvar, way)
    \/ \E h \in handles : \E t \in Tables :
           Dereference(h.index) = Table(t) /\ RegisterDataFrame(t, "index")

Answer(f) == /\ Grant(frames[f].refIndex, Frame(f))
             /\ creating' = NoCall

\* createRefresher, when the environment needs no index, or viewHandler's
\* own refresher.
CreateRefresher ==
    LET f == creating.frame
    IN  /\ creating # NoCall /\ creating.way # "member"
        /\ frames' = IF creating.way = "index" THEN frames
                     ELSE [frames EXCEPT ![f].refresh = creating.way]
        /\ Answer(f)
        /\ lost' = lost \ {frames[f].refIndex}
        /\ UNCHANGED <<refs, cache, rvar, pending, failed>>

\* createRefresher keeps the environment alive; what finalizer would have
\* removed before is forgotten.
CreateAnchoredRefresher ==
    LET f == creating.frame
    IN  /\ creating # NoCall /\ creating.way = "member" /\ HasRoom
        /\ refs' = Add(refs, Env)
        /\ frames' = [frames EXCEPT ![f].anchor = NextIndex(refs), ![f].refresh = "member"]
        /\ Answer(f)
        /\ lost' = (lost \ {frames[f].refIndex}) \cup ({frames[f].anchor} \ {0})
        /\ UNCHANGED <<cache, rvar, pending, failed>>

\* The environment cannot be found any more: the call fails, and the client
\* never hears of the index.
RefresherFails ==
    /\ creating # NoCall /\ creating.way = "member"
    /\ creating' = NoCall
    /\ lost' = lost \cup {frames[creating.frame].refIndex}
    /\ UNCHANGED <<given, regiven, refs, frames, cache, rvar, pending, handles, failed>>

\* dataFrameSort, dataFrameFilter: a temporary frame, never in the cache.
SortOrFilter ==
    /\ creating = NoCall /\ Unborn # {} /\ HasRoom
    /\ \E h \in handles : \E f \in FramesAt(h.index) :
           /\ refs' = Add(refs, Frame(Newborn))
           /\ frames' = [frames EXCEPT ![Newborn] =
                  [NewInfo(NoTable, NextIndex(refs)) EXCEPT !.shown = frames[f].shown]]
           /\ Grant(NextIndex(refs), Frame(Newborn))
    /\ UNCHANGED <<cache, rvar, creating, pending, lost, failed>>

\* dataFrameRefresh, when the table has changed.  If initDataFrame fails it
\* has replaced initialDataFrame and equalityVector, not dataFrame.
Refresh ==
    /\ creating = NoCall
    /\ \E h \in handles : \E f \in FramesAt(h.index) :
           /\ frames[f].refresh # "none" /\ frames[f].table # rvar
           /\ frames[f].refresh = "member" => Dereference(frames[f].anchor) = Env
           /\ \/ /\ frames' = [frames EXCEPT ![f].table = rvar, ![f].shown = rvar]
                 /\ UNCHANGED failed
              \/ /\ frames' = [frames EXCEPT ![f].table = rvar]
                 /\ failed' = failed \cup {f}
    /\ UNCHANGED <<given, regiven, refs, cache, rvar, creating, pending, handles, lost>>

\* External: the collector finds the external pointer in no slot and runs
\* DataFrameInfo::~DataFrameInfo, at any allocation of R.
CollectFrame(f) ==
    /\ frames[f].status = "live"
    /\ \A i \in 1..Len(refs.slots) : refs.slots[i] # Frame(f)
    /\ refs' = IF frames[f].anchor = 0 THEN refs ELSE Remove(refs, frames[f].anchor)
    /\ frames' = [frames EXCEPT ![f] = [NoInfo EXCEPT !.status = "dead"]]
    /\ cache' = cache \ {f}
    /\ failed' = failed \ {f}
    /\ UNCHANGED <<given, regiven, rvar, creating, pending, handles, lost>>

\* External: R code assigns another table to the variable.
Assign ==
    /\ creating = NoCall
    /\ rvar' \in Tables \ {rvar}
    /\ UNCHANGED <<given, regiven, refs, frames, cache, creating, pending, handles, lost, failed>>
--------------------------------------------------------------------------
RefsNext ==
    \/ CopyToPersistentRef \/ Dispose \/ DisposePersistentRefs
    \/ Register \/ CreateRefresher \/ CreateAnchoredRefresher \/ RefresherFails
    \/ SortOrFilter \/ Refresh \/ Assign
    \/ \E f \in Frames : CollectFrame(f)

RefsSpec == RefsInit /\ [][RefsNext]_refsVars
--------------------------------------------------------------------------
\* A slot the storage takes for free is free, once: otherwise two values
\* would share it.  A frame's finalizer frees its index without asking has().
HolesAreFree == HolesMatch(refs)

\* The client's handle stands for what it was given for until the client
\* disposes of it, whatever other handles, finalizers and reused indices do
\* meanwhile.
HandlesHold == \A h \in handles : Dereference(h.index) = h.to

\* A frame that can be refreshed from an environment of its own still has
\* that environment.
AnchorsHold ==
    \A f \in Frames : frames[f].status = "live" /\ frames[f].anchor # 0
                        => Dereference(frames[f].anchor) = Env

\* Every slot in use will be freed by somebody - the client, a disposal on
\* its way, the finalizer of a frame - but for those a failed call has left.
SlotOwners ==
    Outstanding
    \cup {frames[f].anchor : f \in {g \in Frames : frames[g].status = "live"}}
    \cup {frames[f].refIndex : f \in {creating.frame} \ {0}}

NothingElseIsLost == \A i \in 1..Len(refs.slots) : Has(refs, i) => i \in SlotOwners \cup lost

\* No slot and no entry of the cache leads to a DataFrameInfo that has been
\* deleted: getDataFrameByRef follows the pointer without a test.
NoDanglingFrame ==
    \A f \in Frames : f \in cache \/ (\E i \in 1..Len(refs.slots) : refs.slots[i] = Frame(f))
                        => frames[f].status = "live"

\* What the client is given for a table is an index where that table's frame
\* is, and the frame shows the table unless a refresh of it has failed: the
\* cache may still know frames that are disposed of, or never got an index.
GivenFramesShowTheirTable ==
    creating # NoCall /\ ~regiven =>
        \A h \in handles' \ handles :
            LET f == creating.frame
            IN  /\ h.to = Frame(f) /\ Dereference(h.index)' = Frame(f)
                /\ frames[f].status = "live"
                /\ f \in failed \/ frames[f].shown = frames[f].table

\* Indices, handles and data frames agree: no slot is shared, lost or left to
\* a frame that is gone, the client's handles hold, and the frame it is given
\* shows its table (PersistentRefStorage, registerDataFrame, its refreshers and
\* finalizers).  A table that is registered again while its index is with the
\* client or on its way back ends all of this but that no frame dangles.
SlotsAreKept ==
    ~regiven => RefsTypeOK /\ HolesAreFree /\ HandlesHold /\ AnchorsHold /\ NothingElseIsLost
FramesAreKept ==
    /\ [](NoDanglingFrame /\ SlotsAreKept)
    /\ [][GivenFramesShowTheirTable]_refsVars
============================================================================
