----------------------------- MODULE Snapshots -----------------------------
(***************************************************************************)
(* The graphics devices: R's list of devices, the stack of MasterDevices   *)
(* (the proxy first, then the console's, then a chunk's), the snapshots    *)
(* each keeps (DeviceInfo and REagerGraphicsDevice), the png devices they  *)
(* draw on (slaves), the locks that hold a slot for them, the files and    *)
(* the recorded plots.                                                     *)
(*                                                                         *)
(* R is single-threaded, so an action is one command of R or one call of   *)
(* the client.  A drawing is a number, a page the set of the drawings on   *)
(* it.  A group of snapshots is its place in the stack: the files of a     *)
(* chunk go with it.  Sizes and resolutions are left out, and so are       *)
(* restarts of a living device (dev.new()) and devices of the user that    *)
(* stay open when a chunk starts.                                          *)
(***************************************************************************)
EXTENDS Naturals, Sequences, SequencesExt, FiniteSets

CONSTANTS MaxSlots,       \* R_MaxDevices - 1
          MaxDraws,       \* bound: drawings
          MaxInfos,       \* bound: snapshots of one device
          MaxStack,       \* bound: the stack, with the proxy
          MaxVersion,     \* bound: rescalings of a snapshot
          WritesBlank,    \* a closed png device that drew nothing leaves a file (Windows)
          InMemory        \* what the client asks graphicsInit for

VARIABLES g,         \* devices, snapshots, files and recordings
          drawn,     \* drawings so far
          fetched    \* what fetchPlot last returned, <<>> if nothing yet

vars == <<g, drawn, fetched>>

Slots == 1..MaxSlots
Free == <<"free">>
Proxy == 1
Console == 2
NewDevice == [blank |-> TRUE, created |-> TRUE, dumped |-> FALSE, page |-> FALSE,
              version |-> 0, open |-> FALSE, seen |-> {}]
NoDevice == [NewDevice EXCEPT !.created = FALSE]  \* nullptr
NewInfo == [device |-> NoDevice, hasRecorded |-> FALSE, hasDumped |-> FALSE,
            hasGgPlot |-> FALSE, hasRescaled |-> FALSE,
            truth |-> {}, gg |-> FALSE,  \* these three are not the program's
            astray |-> FALSE]            \* recorded while another device was selected

Current(w, p) == Len(w.masters[p].infos)
DeviceOf(w, p, n) == w.masters[p].infos[n].device
Top(w) == Len(w.masters)

(***************************************************************************)
(* R's list of devices: a new one takes the first free slot and is         *)
(* selected; when the selected one goes, R selects the next in the circle. *)
(***************************************************************************)
SlotOf(w, tag) == {s \in Slots : w.list[s] = tag}
FreeSlots(w) == SlotOf(w, Free)
Lowest(S) == CHOOSE s \in S : \A t \in S : s <= t
NextOf(list, s) ==
    LET used == {t \in Slots : list[t] # Free}
        after == {t \in used : t > s}
    IN IF used = {} THEN 0 ELSE IF after = {} THEN Lowest(used) ELSE Lowest(after)

AddDevice(w, tag) ==
    LET s == Lowest(FreeSlots(w)) IN [w EXCEPT !.list[s] = tag, !.selected = s]
KillDevice(w, tag) ==
    IF SlotOf(w, tag) = {} THEN w
    ELSE LET s == Lowest(SlotOf(w, tag))
             list == [w.list EXCEPT ![s] = Free]
         IN [w EXCEPT !.list = list,
                      !.selected = IF @ = s THEN NextOf(list, s) ELSE @]
Selected(w) == IF w.selected = 0 THEN Free ELSE w.list[w.selected]
Select(w, tag) == [w EXCEPT !.selected = Lowest(SlotOf(w, tag))]
Restore(w, old) ==  \* the destructor of InitHelper
    IF old.selected = 0 THEN w ELSE [w EXCEPT !.selected = old.selected]

(* SlaveDevice: a png() that fails changes nothing.                        *)
Png(w, tag) ==
    IF FreeSlots(w) = {} THEN w ELSE Restore(AddDevice(w, tag), w)

Lock(p) == <<"lock", p>>
Slave(p, n) == <<"slave", p, n>>
Master(p) == <<"master", p>>
Alive(w, p) == SlotOf(w, Master(p)) # {}
HasLock(w, p) == w.masters[p].slot # 0

Acquire(w, p) == KillDevice(w, Lock(p))
Release(w, p) ==
    IF HasLock(w, p) /\ w.list[w.masters[p].slot] = Free THEN Png(w, Lock(p)) ELSE w

(***************************************************************************)
(* REagerGraphicsDevice: getSlave, shutdownSlaveDevice, dump, rescale.     *)
(***************************************************************************)
Opened(w, p, n) ==
    [(IF SlotOf(w, Slave(p, n)) = {} THEN Release(w, p) ELSE w)
       EXCEPT !.masters[p].infos[n].device.open = TRUE,
              !.masters[p].infos[n].device.seen = IF p = Proxy THEN @ ELSE {}]
OpenSlave(w, p, n) ==
    Opened(Png(IF HasLock(w, p) THEN Acquire(w, p) ELSE w, Slave(p, n)), p, n)
GetSlave(w, p, n) == IF DeviceOf(w, p, n).open THEN w ELSE OpenSlave(w, p, n)

Written(w, p, n, name) ==
    LET seen == DeviceOf(w, p, n).seen
    IN IF p = Proxy \/ (seen = {} /\ ~WritesBlank) THEN w.files
       ELSE [f \in DOMAIN w.files \cup {name} |-> IF f = name THEN seen ELSE w.files[f]]
NameOf(w, p, n) ==
    IF DeviceOf(w, p, n).dumped THEN <<p, "dummy">>
    ELSE <<p, n, DeviceOf(w, p, n).version>>
CloseSlave(w, p, n) ==
    LET closed == [w EXCEPT !.masters[p].infos[n].device.open = FALSE]
    IN IF ~DeviceOf(w, p, n).open THEN w
       ELSE IF SlotOf(w, Slave(p, n)) = {} THEN closed
       ELSE Release(KillDevice([closed EXCEPT !.files = Written(w, p, n, NameOf(w, p, n))],
                               Slave(p, n)), p)

DumpDevice(w, p, n) == [CloseSlave(w, p, n) EXCEPT !.masters[p].infos[n].device.dumped = TRUE]
(* replay selects the slave itself, which draws even for inMemory.         *)
Replayed(w, p, n) ==
    IF SlotOf(w, Slave(p, n)) = {} THEN w
    ELSE [w EXCEPT !.masters[p].infos[n].device.seen = w.recorded[<<p, n>>]]
Replay(w, p, n) == Replayed(GetSlave(w, p, n), p, n)
Rescale(w, p, n) ==
    LET w1 == [CloseSlave(w, p, n) EXCEPT !.masters[p].infos[n].device.version = @ + 1,
                                          !.masters[p].infos[n].device.dumped = FALSE]
    IN DumpDevice(Replay(w1, p, n), p, n)

(***************************************************************************)
(* MasterDevice: the current snapshot and the callbacks of R.              *)
(***************************************************************************)
GetCurrent(w, p) ==
    LET n == Current(w, p)
    IN IF DeviceOf(w, p, n).created THEN w
       ELSE GetSlave([w EXCEPT !.masters[p].infos[n].device = NewDevice], p, n)
AddNewDevice(w, p) == [w EXCEPT !.masters[p].infos = Append(@, NewInfo),
                                !.masters[p].isNextGgPlot = FALSE]

(* size, strWidth and metricInfo open a slave, as every drawing does.      *)
MeasureOn(w, p) == GetSlave(GetCurrent(w, p), p, Current(w, p))

Drawn(w, p, n, marks) ==
    LET draws == p = Proxy \/ (~w.masters[p].inMemory /\ SlotOf(w, Slave(p, n)) # {})
        display == IF p = Proxy THEN {} ELSE w.masters[p].display \cup marks
    IN [w EXCEPT !.masters[p].display = display,
                 !.masters[p].infos[n].truth = display,
                 !.masters[p].infos[n].device.blank = FALSE,
                 !.masters[p].infos[n].device.seen = IF draws THEN @ \cup marks ELSE @]
DrawOn(w, p, marks) == Drawn(MeasureOn(w, p), p, Current(w, p), marks)

NextPage(w, p) ==
    IF DeviceOf(w, p, Current(w, p)).blank THEN w
    ELSE AddNewDevice(CloseSlave(w, p, Current(w, p)), p)
MarkPage(w, p, hasGgPlot) ==
    [w EXCEPT !.masters[p].infos[Current(w, p)].hasGgPlot = hasGgPlot,
              !.masters[p].isNextGgPlot = FALSE]
OnNewPage(w, p) == MarkPage(NextPage(GetCurrent(w, p), p), p, w.masters[p].isNextGgPlot)

PageTaken(w, p, n, isGg) ==
    [w EXCEPT !.masters[p].display = {},
              !.masters[p].infos[n].gg = isGg,
              !.masters[p].infos[n].device.page = TRUE,
              !.masters[p].infos[n].device.seen = IF w.masters[p].inMemory THEN @ ELSE {}]
NewPageHere(w, p, isGg) == PageTaken(MeasureOn(w, p), p, Current(w, p), isGg)
NewPageOn(w, p, isGg) == NewPageHere(OnNewPage(w, p), p, isGg)

(* What recordPlot() finds: the display list of the selected device; those *)
(* of the proxy and of the user's files are off.                           *)
DisplayOf(w) == IF \E p \in 2..Top(w) : Selected(w) = Master(p)
                THEN w.masters[Selected(w)[2]].display ELSE {}
Record(w, p, n) ==
    [w EXCEPT !.recorded = [k \in DOMAIN w.recorded \cup {<<p, n>>} |->
                              IF k = <<p, n>> THEN DisplayOf(w) ELSE w.recorded[k]],
              !.masters[p].infos[n].hasRecorded = TRUE,
              !.masters[p].infos[n].astray = Selected(w) # Master(p)]

RecordLast(w, isGg) ==
    LET p == Top(w)
        w1 == IF Selected(w) = Master(Proxy) THEN Select(w, Master(p)) ELSE w
        w2 == [w1 EXCEPT !.masters[p].isNextGgPlot = isGg]
        n == Current(w, p)
    IN IF ~Alive(w, p) THEN w
       ELSE IF DeviceOf(w, p, n).blank THEN w2
       ELSE IF Selected(w2) = Master(p) THEN Record(w2, p, n)
       ELSE AddNewDevice(Restore(Record(Select(w2, Master(p)), p, n), w2), p)

(***************************************************************************)
(* Commits: a snapshot is recorded and dumped once, then perhaps rescaled. *)
(***************************************************************************)
DumpNormal(w, p, n) ==
    LET w1 == IF DeviceOf(w, p, n).page THEN w ELSE Replay(CloseSlave(w, p, n), p, n)
    IN [DumpDevice(w1, p, n) EXCEPT !.masters[p].infos[n].hasDumped = TRUE]
\* Mutant of RecordAndDumpIfNecessary: what the hook recorded is enough.
DumpAsRecorded(w, p, n) ==
    LET info == w.masters[p].infos[n]
        w1 == IF info.hasRecorded THEN w ELSE Record(w, p, n)
    IN IF info.hasDumped THEN w1 ELSE DumpNormal(w1, p, n)
RecordAndDumpIfNecessary(w, p, n) ==
    LET info == w.masters[p].infos[n]
        stale == ~info.hasRecorded \/ (n = Current(w, p) /\ ~info.hasDumped)
        w1 == IF stale THEN Record(w, p, n) ELSE w
    IN IF info.hasDumped THEN w1 ELSE DumpNormal(w1, p, n)
CanCommit(w, p, n) == Alive(w, p) /\ ~DeviceOf(w, p, n).blank
(* `other' says whether the new size is another than the last one.         *)
RescaleAndDumpIfNecessary(w, p, n, other) ==
    IF other \/ ~w.masters[p].infos[n].hasRescaled
    THEN [Rescale(w, p, n) EXCEPT !.masters[p].infos[n].hasRescaled = TRUE]
    ELSE w
CommitByNumber(w, p, n, withRescale, other) ==
    IF ~CanCommit(w, p, n) THEN w
    ELSE IF withRescale THEN RescaleAndDumpIfNecessary(RecordAndDumpIfNecessary(w, p, n), p, n, other)
    ELSE RecordAndDumpIfNecessary(w, p, n)

CommitAllLast(w, withRescale, other) ==
    LET p == Top(w)
        stops == {n \in 1..Current(w, p) : w.masters[p].infos[n].hasDumped}
        first == IF stops = {} THEN 1 ELSE 1 + CHOOSE n \in stops : \A k \in stops : k <= n
        numbers == [i \in 1..(Current(w, p) + 1 - first) |-> Current(w, p) + 1 - i]
        w1 == FoldLeft(LAMBDA v, n : CommitByNumber(v, p, n, withRescale, other), w, numbers)
    IN IF \E i \in DOMAIN numbers : CanCommit(w, p, numbers[i]) THEN AddNewDevice(w1, p) ELSE w1

(***************************************************************************)
(* The life of a MasterDevice.                                             *)
(***************************************************************************)
InitNew(w, isProxy) ==
    LET p == Top(w) + 1
        previous == IF Selected(w) = Master(Proxy) THEN Free ELSE Selected(w)
        m == [slot |-> 0, infos |-> <<NewInfo>>, isNextGgPlot |-> FALSE, display |-> {},
              inMemory |-> isProxy \/ InMemory, previous |-> previous]
        w1 == Png([w EXCEPT !.masters = Append(@, m)], Lock(p))
        slot == Lowest(SlotOf(w1, Lock(p)))
        w2 == IF isProxy THEN KillDevice(w1, Lock(p)) ELSE [w1 EXCEPT !.masters[p].slot = slot]
    IN IF SlotOf(w1, Lock(p)) = {} \/ FreeSlots(w2) = {} THEN w ELSE AddDevice(w2, Master(p))

(* GEkillDevice takes the device off the list before it calls finalize.    *)
Finalize(w, p) ==
    LET w1 == KillDevice(w, Master(p)) IN CloseSlave(w1, p, Current(w1, p))

ShutdownLast(w) ==
    LET p == Top(w)
        w1 == IF Alive(w, p) THEN Finalize(w, p) ELSE w
        w2 == FoldLeft(LAMBDA v, n : KillDevice(v, Slave(p, n)), w1, [n \in 1..Current(w1, p) |-> n])
        w3 == KillDevice(w2, Lock(p))
        keep == {k \in DOMAIN w.recorded : k[1] # p \/ w.masters[p].inMemory}
        w4 == [w3 EXCEPT !.masters = Front(@),
                         !.recorded = [k \in keep |-> w.recorded[k]],
                         !.files = [f \in {f \in DOMAIN @ : f[1] # p} |-> @[f]]]
        previous == w.masters[p].previous
    IN IF SlotOf(w4, previous) = {} \/ previous = Free THEN w4 ELSE Select(w4, previous)

(***************************************************************************)
(* fetchPlot replays a recording twice on the proxy.                       *)
(***************************************************************************)
ReplayOnProxy(w, p, n) ==
    LET w1 == Select(AddNewDevice(w, Proxy), Master(Proxy))
        w2 == DrawOn(NewPageOn(w1, Proxy, FALSE), Proxy, w.recorded[<<p, n>>])
    IN Restore(w2, w)
ClearAllDevices(w, p) ==
    LET w1 == FoldLeft(LAMBDA v, n : KillDevice(v, Slave(p, n)), w, [n \in 1..Current(w, p) |-> n])
    IN [w1 EXCEPT !.masters[p].infos = <<NewInfo>>, !.masters[p].isNextGgPlot = FALSE]

Empty == [list |-> [s \in Slots |-> Free], selected |-> 0, masters |-> <<>>,
          files |-> <<>>, recorded |-> <<>>]
Init ==
    /\ g = InitNew(InitNew(Empty, TRUE), FALSE)
    /\ drawn = 0 /\ fetched = <<>>

(***************************************************************************)
(* Commands of R.  A plot runs the hook, takes a page on what is selected  *)
(* then, and draws; `pairs' runs the hook for every panel.                 *)
(***************************************************************************)
IsOurs(tag) == tag[1] = "master"
Fits(w) == \A p \in 1..Top(w) : Current(w, p) <= MaxInfos
Becomes(w) == g' = w /\ Fits(w)
Marks == {drawn + 1}

PageOnSelected(w, isGg) ==
    IF IsOurs(Selected(w)) THEN NewPageOn(w, Selected(w)[2], isGg) ELSE w
DrawOnSelected(w) ==
    IF IsOurs(Selected(w)) THEN DrawOn(w, Selected(w)[2], Marks) ELSE w

NewPlot ==
    /\ drawn < MaxDraws
    /\ drawn' = drawn + 1
    /\ \E isGg, draws \in BOOLEAN :
          LET w == PageOnSelected(RecordLast(g, isGg), isGg)
          IN Becomes(IF draws THEN DrawOnSelected(w) ELSE w)
    /\ UNCHANGED fetched
Panel ==
    /\ drawn < MaxDraws /\ Selected(g) = Master(Top(g))
    /\ drawn' = drawn + 1
    /\ \E isGg \in BOOLEAN :
          /\ isGg = g.masters[Top(g)].infos[Current(g, Top(g))].gg
          /\ Becomes(DrawOnSelected(RecordLast(g, isGg)))
    /\ UNCHANGED fetched
Continue ==
    /\ drawn < MaxDraws
    /\ drawn' = drawn + 1
    /\ Becomes(DrawOnSelected(g))
    /\ UNCHANGED fetched
Measure ==
    /\ IsOurs(Selected(g))
    /\ Becomes(MeasureOn(g, Selected(g)[2]))
    /\ UNCHANGED <<drawn, fetched>>
OpenForeign ==
    /\ SlotOf(g, <<"foreign">>) = {} /\ FreeSlots(g) # {}
    /\ Becomes(AddDevice(g, <<"foreign">>))
    /\ UNCHANGED <<drawn, fetched>>
DevOff ==
    /\ Selected(g) \in {<<"foreign">>, Master(Top(g))}
    /\ Becomes(IF IsOurs(Selected(g)) THEN Finalize(g, Top(g)) ELSE KillDevice(g, Selected(g)))
    /\ UNCHANGED <<drawn, fetched>>

(***************************************************************************)
(* Calls of the client, which sends the numbers it got from a dump.        *)
(***************************************************************************)
Snapshot(p, n) == g.masters[p].infos[n]
Reported == {n \in 1..Current(g, Top(g)) : g.masters[Top(g)].infos[n].hasDumped}

GraphicsDump ==
    /\ Becomes(CommitAllLast(g, FALSE, FALSE))
    /\ UNCHANGED <<drawn, fetched>>
GraphicsRescale ==
    /\ g.masters[Top(g)].inMemory
    /\ \E other \in BOOLEAN :
          \/ Becomes(CommitAllLast(g, TRUE, other))
          \/ \E n \in Reported : /\ DeviceOf(g, Top(g), n).version < MaxVersion
                                 /\ Becomes(CommitByNumber(g, Top(g), n, TRUE, other))
    /\ UNCHANGED <<drawn, fetched>>
GraphicsRescaleStored ==  \* of another group, whose files are not followed
    /\ Alive(g, Top(g))
    /\ Becomes(Release(KillDevice(Png(Acquire(g, Top(g)), <<"stored">>), <<"stored">>), Top(g)))
    /\ UNCHANGED <<drawn, fetched>>
GraphicsFetchPlot ==
    /\ \E n \in Reported : \E w1 \in {ReplayOnProxy(g, Top(g), n)} :
       \E w2 \in {ReplayOnProxy(w1, Top(g), n)} :
          /\ Becomes(ClearAllDevices(w2, Proxy))
          /\ fetched' = <<DeviceOf(w1, Proxy, Current(w1, Proxy)).seen,
                          DeviceOf(w2, Proxy, Current(w2, Proxy)).seen,
                          Snapshot(Top(g), n).truth, Snapshot(Top(g), n).astray>>
    /\ UNCHANGED drawn
GraphicsInit ==
    /\ Top(g) < MaxStack /\ SlotOf(g, <<"foreign">>) = {}
    /\ Becomes(InitNew(g, FALSE)) /\ g' # g
    /\ UNCHANGED <<drawn, fetched>>
GraphicsShutdown ==
    /\ Top(g) > 2 /\ SlotOf(g, <<"foreign">>) = {}
    /\ Becomes(ShutdownLast(g))
    /\ UNCHANGED <<drawn, fetched>>

Next ==
    \/ NewPlot \/ Panel \/ Continue \/ Measure \/ OpenForeign \/ DevOff
    \/ GraphicsDump \/ GraphicsRescale \/ GraphicsRescaleStored \/ GraphicsFetchPlot
    \/ GraphicsInit \/ GraphicsShutdown

Spec == Init /\ [][Next]_vars

----------------------------------------------------------------------------
TypeOK ==
    /\ drawn \in 0..MaxDraws
    /\ g.selected \in 0..MaxSlots
    /\ g.selected # 0 => g.list[g.selected] # Free
    /\ \A p \in 1..Top(g) : \A n \in 1..Current(g, p) :
          LET d == DeviceOf(g, p, n) IN
          /\ d.created \/ d = NoDevice
          /\ SlotOf(g, Slave(p, n)) # {} => d.open

Ours == 2..Top(g)

(* A dumped snapshot has its recording, and the recording is of all that   *)
(* was drawn while the snapshot was the current one: recordPlot() sees the *)
(* last plot only, so record must not come too early or too late.  Except  *)
(* one that a dump recorded astray, of another device than its own.        *)
RecordingsAreTrue ==
    \A p \in Ours : \A n \in 1..Current(g, p) :
       Snapshot(p, n).hasDumped /\ ~Snapshot(p, n).astray =>
          <<p, n>> \in DOMAIN g.recorded /\ g.recorded[<<p, n>>] = Snapshot(p, n).truth

(* The file graphicsGetSnapshotPath names shows the whole plot, whatever   *)
(* opened a slave for the snapshot before or after the dump: an inMemory   *)
(* snapshot has it once it was rescaled.  Except a file that was replayed  *)
(* from a recording that went astray.                                      *)
DumpedFilesAreTrue ==
    \A p \in Ours : \A n \in 1..Current(g, p) :
       LET d == DeviceOf(g, p, n)
           name == <<p, n, d.version>>
           written == ~g.masters[p].inMemory \/ Snapshot(p, n).hasRescaled
           replayed == ~d.page \/ Snapshot(p, n).hasRescaled
       IN Snapshot(p, n).hasDumped /\ written /\ ~(replayed /\ Snapshot(p, n).astray)
            => name \in DOMAIN g.files /\ g.files[name] = Snapshot(p, n).truth

(* commitAllLast stops at the first dumped snapshot: nothing that was      *)
(* drawn may wait behind one.                                              *)
NothingBehindADump ==
    \A p \in Ours : \A i, j \in 1..Current(g, p) :
       i < j /\ Snapshot(p, j).hasDumped /\ ~Snapshot(p, i).hasDumped => DeviceOf(g, p, i).blank

(* A plot is recorded with ggplot2 if and only if ggplot2 made its page.   *)
GgPlotsAreMarked ==
    \A p \in Ours : \A n \in 1..Current(g, p) :
       DeviceOf(g, p, n).created /\ DeviceOf(g, p, n).page => Snapshot(p, n).hasGgPlot = Snapshot(p, n).gg

(* The slot before the console's device is never a gap a device of the     *)
(* user could take: it has the lock's dummy or one of the device's slaves. *)
(* (A chunk's can be one, if the console's was closed and something was    *)
(* drawn on the proxy before the chunk.)                                   *)
SlotsAreHeld ==
    Alive(g, Console) =>
       LET tag == g.list[g.masters[Console].slot]
       IN tag[1] \in {"lock", "slave"} /\ tag[2] = Console

(* Both replays on the proxy show the plot that was asked for, unless its  *)
(* recording went astray.                                                  *)
FetchedIsTrue ==
    fetched # <<>> /\ ~fetched[4] => fetched[1] = fetched[3] /\ fetched[2] = fetched[3]

ShowTheirPlots ==
    /\ TypeOK /\ RecordingsAreTrue /\ DumpedFilesAreTrue /\ NothingBehindADump
    /\ GgPlotsAreMarked /\ SlotsAreHeld /\ FetchedIsTrue
============================================================================
