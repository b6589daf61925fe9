---------------------------- MODULE Breakpoints ----------------------------
(***************************************************************************)
(* The breakpoints of RDebugger: the table by id, the lists by line that   *)
(* each VirtualFileInfo keeps, the links between a breakpoint and the      *)
(* slaves that wait for it, and the part of doStep that hits one.          *)
(*                                                                         *)
(* The debug* methods change them by immediate tasks, which the main       *)
(* thread also runs while R evaluates the condition or the log expression  *)
(* of a breakpoint: doStep is three steps, and tasks come between them.    *)
(*                                                                         *)
(* Pointers are ids: a Breakpoint lives as long as its entry of the table. *)
(* Condition and log expression are a choice of their outcome; suspend and *)
(* the messages to the console are left out.  A slave may be left with a   *)
(* pointer to the freed memory of its master, which may be given out again *)
(* to a new breakpoint; what the code does to the slaves it finds there is *)
(* taken to change nothing of the model, or it crashes.  No task removes   *)
(* the breakpoint that is being checked: the code would go on with it.     *)
(* A file keeps its info, and so its lists, while a breakpoint is in them: *)
(* VirtualFiles says when it does not.                                     *)
(***************************************************************************)
EXTENDS Naturals, Sequences, FiniteSets

CONSTANTS Ids,        \* ids the client gives its breakpoints
          Positions,  \* pairs of a virtual file and a line
          None,       \* no breakpoint: nullptr
          Gone,       \* a pointer to a breakpoint that has been removed,
          PassedOver, \* and one of a slave whose master had more slaves than
                      \* the loop of removeBreakpointById frees
          Settings    \* the settings it gives them

VARIABLES table,      \* breakpoints, with None for ids that have none
          byLine,     \* breakpointsByLine of all files
          muted,      \* breakpointsMuted
          checked,    \* the breakpoint doStep is looking at, or None
          phase       \* what doStep waits for

breakpointVars == <<table, byLine, muted, checked, phase>>

Breakpoint == [at : Positions, settings : Settings,
               master : Ids \cup {None, Gone, PassedOver},
               slaveLeaveEnabled : BOOLEAN, slaves : Seq(Ids),
               masterWasHit : BOOLEAN]

ASSUME BreakpointsAssumption ==
    /\ None \notin Ids \cup Breakpoint
    /\ Gone \notin Ids \cup {None, PassedOver} /\ PassedOver \notin Ids \cup {None}
    /\ Settings \subseteq [enabled : BOOLEAN, removeAfterHit : BOOLEAN]

Live == {b \in Ids : table[b] # None}

BreakpointsInit ==
    /\ table = [b \in Ids |-> None]
    /\ byLine = [p \in Positions |-> <<>>]
    /\ muted = FALSE
    /\ checked = None
    /\ phase = "idle"

(***************************************************************************)
(* removeFromVector, on all of a vector and on a vector under iteration:   *)
(* erase moves what follows one place down, and leaves the last cell of    *)
(* the memory as it was, where the range-for that goes on may read it.     *)
(***************************************************************************)
RemoveFromVector(vector, b) ==
    LET at == {i \in 1..Len(vector) : vector[i] = b}
        first == CHOOSE i \in at : \A j \in at : i <= j
    IN IF at = {} THEN vector
       ELSE SubSeq(vector, 1, first - 1) \o SubSeq(vector, first + 1, Len(vector))

EraseInPlace(memory, size, b) ==
    LET left == RemoveFromVector(SubSeq(memory, 1, size), b)
    IN left \o SubSeq(memory, Len(left) + 1, Len(memory))

\* Mutant of SetMaster: the old master keeps the breakpoint as its slave.
SetMasterKeepsOld(t, b, newMaster, leave) ==
    LET linked == [t EXCEPT ![b].master = newMaster,
                            ![b].masterWasHit = FALSE,
                            ![b].slaveLeaveEnabled = leave]
    IN IF t[b].master = newMaster THEN t
       ELSE IF newMaster = None THEN linked
       ELSE [linked EXCEPT ![newMaster].slaves = Append(@, b)]

\* setMasterBreakpoint on the table t.
SetMaster(t, b, newMaster, leave) ==
    LET old == t[b].master
        left == [t EXCEPT ![b].slaveLeaveEnabled = leave]
        apart == IF old \notin Ids THEN left
                 ELSE [left EXCEPT ![old].slaves = RemoveFromVector(@, b)]
        linked == [apart EXCEPT ![b].master = newMaster,
                                ![b].masterWasHit = FALSE]
    IN IF old = newMaster THEN left
       ELSE IF newMaster = None THEN linked
       ELSE [linked EXCEPT ![newMaster].slaves = Append(@, b)]

\* A turn of the loop of removeBreakpointById over the slaves of b, which
\* shrink as it goes: it takes what is in the i-th cell.
Turn(s, i, b) ==
    LET slave == s.memory[i]
    IN [t |-> SetMaster(s.t, slave, None, FALSE),
        memory |-> EraseInPlace(s.memory, Len(s.t[b].slaves),
                     IF s.t[slave].master = b THEN slave ELSE None)]
FreeSlaves(t, b) ==
    LET turns[i \in 0..Len(t[b].slaves)] ==
            IF i = 0 THEN [t |-> t, memory |-> t[b].slaves]
            ELSE Turn(turns[i - 1], i, b)
    IN turns[Len(t[b].slaves)].t

\* The slaves that loop frees: of three it passes one over.
LoopFrees == 2

\* removeBreakpointById: the table and the lists without b.  The slaves that
\* have not been freed point to freed memory.
Removed(b) ==
    LET alone == SetMaster(table, b, None, FALSE)
        freed == FreeSlaves(alone, b)
        left == IF Len(alone[b].slaves) > LoopFrees THEN PassedOver ELSE Gone
    IN /\ table' = [s \in Ids |->
                     IF s = b THEN None
                     ELSE IF freed[s] # None /\ freed[s].master = b
                     THEN [freed[s] EXCEPT !.master = left] ELSE freed[s]]
       /\ byLine' = [byLine EXCEPT ![table[b].at] = RemoveFromVector(@, b)]

(***************************************************************************)
(* The immediate tasks of the debug* methods.                              *)
(***************************************************************************)

AddOrModifyBreakpoint(b, at, settings) ==
    LET isNew == table[b] = None
        moves == isNew \/ table[b].at # at
        left == IF isNew THEN byLine
                ELSE [byLine EXCEPT ![table[b].at] = RemoveFromVector(@, b)]
    IN /\ table' = [table EXCEPT ![b] =
            IF isNew THEN [at |-> at, settings |-> settings, master |-> None,
                           slaveLeaveEnabled |-> FALSE, slaves |-> <<>>,
                           masterWasHit |-> FALSE]
            ELSE [@ EXCEPT !.at = at, !.settings = settings]]
       /\ byLine' = IF moves THEN [left EXCEPT ![at] = Append(@, b)]
                    ELSE byLine
       /\ UNCHANGED <<muted, checked, phase>>

\* A master that does not exist is none.  One that has got the memory of the
\* removed master is taken for it.
SetMasterBreakpoint(b, m, leave) ==
    /\ b \in Live
    /\ \/ table' = SetMaster(table, b, IF m \in Live THEN m ELSE None, leave)
       \/ /\ m \in Live /\ table[b].master \in {Gone, PassedOver}
          /\ table' = [table EXCEPT ![b].slaveLeaveEnabled = leave]
    /\ UNCHANGED <<byLine, muted, checked, phase>>

RemoveBreakpointById(b) ==
    /\ b \in Live /\ b # checked
    /\ Removed(b)
    /\ UNCHANGED <<muted, checked, phase>>

MuteBreakpoints(mute) ==
    /\ muted' = mute
    /\ UNCHANGED <<table, byLine, checked, phase>>

(***************************************************************************)
(* doStep before a statement at a position that takes breakpoints.  Only   *)
(* the first breakpoint of the line counts.                                *)
(***************************************************************************)
\* Its tests, up to the evaluation of the condition.
CheckBreakpoint(at) ==
    /\ phase = "idle"
    /\ ~muted
    /\ byLine[at] # <<>>
    /\ LET b == Head(byLine[at])
       IN /\ table[b].settings.enabled
          /\ table[b].master = None \/ table[b].masterWasHit
          /\ checked' = b
    /\ phase' = "condition"
    /\ UNCHANGED <<table, byLine, muted>>

ConditionFails ==
    /\ phase = "condition"
    /\ phase' = "idle" /\ checked' = None
    /\ UNCHANGED <<table, byLine, muted>>

\* The condition holds: the slaves of the breakpoint are armed.
Hit ==
    /\ phase = "condition"
    /\ LET b == checked
           used == [table EXCEPT ![b].masterWasHit =
                      @ /\ table[b].slaveLeaveEnabled]
       IN table' = [s \in Ids |->
            IF \E i \in DOMAIN table[b].slaves : table[b].slaves[i] = s
            THEN [used[s] EXCEPT !.masterWasHit = TRUE] ELSE used[s]]
    /\ phase' = "log"
    /\ UNCHANGED <<byLine, muted, checked>>

\* After the log expression: stop or not, and go when one hit is all.  The
\* prompt is left to module Stepping.
HitEnds ==
    /\ phase = "log"
    /\ IF table[checked].settings.removeAfterHit THEN Removed(checked)
       ELSE UNCHANGED <<table, byLine>>
    /\ phase' = "idle" /\ checked' = None
    /\ UNCHANGED muted

BreakpointsNext ==
    \/ \E b \in Ids, at \in Positions, settings \in Settings :
         AddOrModifyBreakpoint(b, at, settings)
    \/ \E b \in Ids, m \in Ids \cup {None}, leave \in BOOLEAN :
         SetMasterBreakpoint(b, m, leave)
    \/ \E b \in Ids : RemoveBreakpointById(b)
    \/ \E mute \in BOOLEAN : MuteBreakpoints(mute)
    \/ \E at \in Positions : CheckBreakpoint(at)
    \/ ConditionFails \/ Hit \/ HitEnds

BreakpointsSpec == BreakpointsInit /\ [][BreakpointsNext]_breakpointVars

-----------------------------------------------------------------------------
\* The variables have their types.
BreakpointsTypeOK ==
    /\ table \in [Ids -> Breakpoint \cup {None}]
    /\ byLine \in [Positions -> Seq(Ids)]
    /\ muted \in BOOLEAN
    /\ checked \in Ids \cup {None}
    /\ phase \in {"idle", "condition", "log"}

\* How often x is in the sequence s.
Count(s, x) == Cardinality({i \in DOMAIN s : s[i] = x})

\* addOrModifyBreakpoint and removeBreakpointById keep the lists by line in
\* step with the table: every breakpoint is in the list of its own line,
\* once, and no list holds a breakpoint that has moved away or is gone.
EachOnItsLine ==
    \A p \in Positions, b \in Ids :
        Count(byLine[p], b) = IF b \in Live /\ table[b].at = p THEN 1 ELSE 0

\* setMasterBreakpoint and the loop of removeBreakpointById keep the links
\* in step: a master is a breakpoint that exists and lists each of its slaves
\* once, and lists no other.  A pointer to a removed breakpoint is left to
\* nobody but slaves of one that had more than LoopFrees.
LinksAgree ==
    \A m \in Live, b \in Ids :
        Count(table[m].slaves, b) =
            IF b \in Live /\ table[b].master = m THEN 1 ELSE 0
MastersExist == \A b \in Live : table[b].master \in Live \cup {None, PassedOver}

\* A breakpoint with a master waits for it: it becomes armed only by a hit of
\* the breakpoint that is its master at that time, and such a hit arms every
\* slave.
ArmedByMaster ==
    /\ \A b \in Live : ~table[b].masterWasHit /\ table'[b] # None
           /\ table'[b].masterWasHit
           => phase = "condition" /\ table[b].master = checked
    /\ phase = "condition" /\ phase' = "log"
           => \A b \in Live : table[b].master = checked
                                => table'[b].masterWasHit

\* Breakpoints, their lists by line and their links stay in step, and a slave
\* is armed by its master's hit and by nothing else, whatever was linked, moved
\* or removed before, as long as nobody removes the breakpoint doStep is looking
\* at.  The exception: of more than two slaves whose master is removed some are
\* passed over, which keep a pointer to freed memory and are not armed until
\* they are given another master (addOrModifyBreakpoint, setMasterBreakpoint,
\* removeBreakpointById, doStep).
BreakpointsKeepTheirLinks ==
    /\ [](BreakpointsTypeOK /\ EachOnItsLine /\ LinksAgree /\ MastersExist)
    /\ [][ArmedByMaster]_breakpointVars
=============================================================================
