----------------------------- MODULE End_proofs -----------------------------
(***************************************************************************)
(* What is proved of the end: of the termination timer, of a session and   *)
(* of the pipes of a fork.                                                 *)
(***************************************************************************)
EXTENDS Termination, Session, ForkPipes, SequenceTheorems, FiniteSetTheorems, WellFoundedInduction, TLAPS

--------------------------------------------------------------------------
(***************************************************************************)
(* The timer, for every length of the timeout, the grace and the waits: a  *)
(* kernel is not ended early, not later than the bound, and not aborted    *)
(* while it only waits for its client and its server.                      *)
(*                                                                         *)
(* The invariant relates the time that is left to the timer with the time  *)
(* since the last call, in both directions: below it a call would be       *)
(* missed, above it a dead client would be waited for.  A call in a round  *)
(* resets what is counted, so the bounds depend on rpcHappened; the second *)
(* half adds up the grace: what is left, what the main thread spent before *)
(* quitRPIService, and what it has waited in it.                           *)
(***************************************************************************)

Types ==
    /\ rpcHappened \in BOOLEAN /\ termination \in BOOLEAN
    /\ timer \in {"clears", "checks", "dozes", "sleeps", "decides", "ended"}
    /\ phase \in {"watch", "grace"} /\ left \in Nat /\ notified \in BOOLEAN
    /\ main \in {"free", "busy", "saves", "tells", "waits", "shuts", "joins",
                 "joined", "gone"}
    /\ wait \in Nat /\ silent \in Nat /\ spent \in Nat
    /\ proceed \in BOOLEAN /\ full \in BOOLEAN /\ aborted \in BOOLEAN

\* Only the end of quitRPIService stops the timer, and only for that it ends;
\* of the rounds only those of the watch clear.
Ends ==
    /\ termination => main \in {"joined", "gone"}
    /\ main = "joined" => termination
    /\ timer = "ended" => main \in {"joined", "gone"}
    /\ timer = "decides" => termination \/ left = 0
    /\ timer = "clears" => phase = "watch"
    /\ aborted => main = "gone"

\* What the timer knows of the time since the last call.
RoundIsSilent ==
    phase = "watch" /\ timer # "clears" /\ ~rpcHappened => silent + left >= RpcTimeout

SilenceIsShort ==
    /\ phase = "watch" /\ timer = "clears" => silent <= RpcTimeout
    /\ phase = "watch" /\ timer # "clears" /\ rpcHappened => silent + left <= RpcTimeout
    /\ phase = "watch" /\ timer # "clears" => silent + left <= 2 * RpcTimeout /\ left <= RpcTimeout
    /\ phase = "grace" => silent + left <= MaxSilence

\* What the grace was spent on.
Early == {"free", "busy", "saves", "tells"}
GraceAddsUp ==
    /\ main = "waits" => wait <= ProceedWait
    /\ main = "shuts" => wait <= ShutdownWait
    /\ phase = "grace" =>
           /\ main \in Early => spent + left >= Grace
           /\ main = "waits" => spent + left + ProceedWait >= Grace + wait
           /\ main = "shuts" => spent + left + ProceedWait + ShutdownWait >= Grace + wait
           /\ main = "joins" => spent + left + ProceedWait + ShutdownWait >= Grace

IInv ==
    Types /\ Ends /\ RoundIsSilent /\ SilenceIsShort /\ GraceAddsUp
        /\ GoneInTime /\ AbortOnlyWhenStuck
----------------------------------------------------------------------------
LEMMA Start == Init => IInv
<1> SUFFICES ASSUME Init PROVE IInv
  OBVIOUS
<1> USE DEF Init
<1>1. /\ rpcHappened \in BOOLEAN /\ termination \in BOOLEAN /\ notified \in BOOLEAN
      /\ proceed \in BOOLEAN /\ full \in BOOLEAN /\ aborted \in BOOLEAN
  BY Zenon
<1>2. Types
  BY <1>1 DEF Types
<1>3. Ends /\ GraceAddsUp /\ AbortOnlyWhenStuck
  BY DEF Ends, GraceAddsUp, AbortOnlyWhenStuck
<1>4. RoundIsSilent /\ SilenceIsShort /\ GoneInTime
  BY TerminationAssumption DEF RoundIsSilent, SilenceIsShort, GoneInTime, MaxSilence
<1> QED
  BY <1>2, <1>3, <1>4 DEF IInv

(* A call resets the silence, and nothing else of the client counts.       *)
LEMMA ClientKeep ==
    ASSUME IInv, main # "gone",
           Call \/ CallQuit \/ CallProceed \/ ReadEvents \/ FillEvents \/ ClientDies
    PROVE  IInv'
<1> USE TerminationAssumption DEF IInv, Types, Ends, RoundIsSilent, SilenceIsShort,
        GraceAddsUp, Early, GoneInTime, AbortOnlyWhenStuck, MaxSilence,
        thread, kernel, client
<1>1. CASE Call
  BY <1>1 DEF Call, RpcBegins, Serving
<1>2. CASE CallQuit
  BY <1>2 DEF CallQuit, RpcBegins, Serving
<1>3. CASE CallProceed
  BY <1>3 DEF CallProceed, RpcBegins, Serving
<1>4. CASE ReadEvents
  <2>1. full' \in BOOLEAN
    BY <1>4, Zenon DEF ReadEvents
  <2> QED
    BY <1>4, <2>1 DEF ReadEvents
<1>5. CASE FillEvents
  BY <1>5 DEF FillEvents
<1>6. CASE ClientDies
  BY <1>6 DEF ClientDies
<1> QED
  BY <1>1, <1>2, <1>3, <1>4, <1>5, <1>6

(* The timer's own steps take no time.                                     *)
LEMMA TimerStepsKeep ==
    ASSUME IInv, main # "gone",
           Clears \/ Checks \/ FallsAsleep \/ Wakes \/ Watches \/ GivesUp
    PROVE  IInv'
<1> USE TerminationAssumption DEF IInv, Types, Ends, RoundIsSilent, SilenceIsShort,
        GraceAddsUp, Early, GoneInTime, AbortOnlyWhenStuck, MaxSilence,
        thread, kernel, client
<1>1. CASE Clears
  <2>1. rpcHappened' \in BOOLEAN
    BY <1>1, Zenon DEF Clears, ClearRpc
  <2>2. /\ timer = "clears" /\ timer' = "checks" /\ left' = RpcTimeout /\ rpcHappened' = FALSE
        /\ UNCHANGED <<phase, notified, aborted, kernel, client, spent>> /\ phase = "watch"
    BY <1>1 DEF Clears, ClearRpc, Deadline
  <2>3. Types' /\ Ends'
    BY <2>1, <2>2
  <2>4. phase = "watch" => silent' + left' <= 2 * RpcTimeout
    BY <2>2
  <2>5. RoundIsSilent' /\ SilenceIsShort' /\ GoneInTime'
    BY <2>2, <2>4
  <2>6. GraceAddsUp' /\ AbortOnlyWhenStuck'
    BY <2>2
  <2> QED
    BY <2>3, <2>5, <2>6
<1>2. CASE Checks
  BY <1>2 DEF Checks
<1>3. CASE FallsAsleep
  <2>1. notified' \in BOOLEAN
    BY <1>3, Zenon DEF FallsAsleep
  <2> QED
    BY <1>3, <2>1 DEF FallsAsleep
<1>4. CASE Wakes
  BY <1>4 DEF Wakes
<1>5. CASE Watches
  BY <1>5 DEF Watches
<1>6. CASE GivesUp
  BY <1>6 DEF GivesUp
<1> QED
  BY <1>1, <1>2, <1>3, <1>4, <1>5, <1>6

(* Nor do those of the main thread.                                        *)
LEMMA MainStepsKeep ==
    ASSUME IInv, main # "gone",
           \/ RunCode \/ Quit \/ QuitFails \/ Saved \/ Tell
           \/ Proceed \/ Shutdown \/ StopTimer \/ Joined
    PROVE  IInv'
<1> USE TerminationAssumption DEF IInv, Types, Ends, RoundIsSilent, SilenceIsShort,
        GraceAddsUp, Early, GoneInTime, AbortOnlyWhenStuck, MaxSilence,
        thread, kernel, client
<1>1. CASE RunCode
  BY <1>1 DEF RunCode, Goes
<1>2. CASE Quit
  BY <1>2 DEF Quit
<1>3. CASE QuitFails
  BY <1>3 DEF QuitFails, Goes
<1>4. CASE Saved
  BY <1>4 DEF Saved, Goes
<1>5. CASE Tell
  BY <1>5 DEF Tell, Goes, WaitTime
<1>6. CASE Proceed
  BY <1>6 DEF Proceed, Goes
<1>7. CASE Shutdown
  BY <1>7 DEF Shutdown, Goes
<1>8. CASE StopTimer
  BY <1>8 DEF StopTimer, Goes
<1>9. CASE Joined
  BY <1>9 DEF Joined, Goes
<1> QED
  BY <1>1, <1>2, <1>3, <1>4, <1>5, <1>6, <1>7, <1>8, <1>9

(* Time passes only while the timer sleeps with time left: with it ended,  *)
(* the main thread is about to join it.                                    *)
LEMMA TickKeeps ==
    ASSUME IInv, Tick
    PROVE  IInv'
<1> USE TerminationAssumption DEF IInv, Types, Ends, MaxSilence
<1>1. timer = "sleeps" /\ left > 0 /\ ~(main = "waits" /\ wait = 0)
          /\ ~(main = "shuts" /\ wait = 0) /\ main \notin {"joins", "gone"}
  BY DEF Tick, Due
<1>2. silent + left <= MaxSilence
  BY <1>1 DEF SilenceIsShort
<1>3. silent' = silent + 1 /\ left' = left - 1 /\ left' \in Nat
          /\ wait' = (IF wait = 0 THEN 0 ELSE wait - 1)
  BY <1>1, <1>2 DEF Tick, Minus
<1>4. Types' /\ Ends'
  BY <1>1, <1>3 DEF Tick
<1>5. RoundIsSilent' /\ SilenceIsShort' /\ GoneInTime'
  BY <1>1, <1>3 DEF Tick, RoundIsSilent, SilenceIsShort, GoneInTime
<1>6. GraceAddsUp' /\ AbortOnlyWhenStuck'
  BY <1>1, <1>3 DEF Tick, GraceAddsUp, Early, AbortOnlyWhenStuck
<1> QED
  BY <1>4, <1>5, <1>6

LEMMA StepKeeps == IInv /\ [Next]_vars => IInv'
<1> SUFFICES ASSUME IInv, [Next]_vars PROVE IInv'
  OBVIOUS
<1>1. CASE UNCHANGED vars
  BY <1>1 DEF vars, thread, kernel, client, IInv, Types, Ends, RoundIsSilent,
     SilenceIsShort, GraceAddsUp, Early, GoneInTime, AbortOnlyWhenStuck
<1>2. CASE Tick
  BY <1>2, TickKeeps
<1>3. CASE Next /\ ~Tick
  BY <1>3, ClientKeep, TimerStepsKeep, MainStepsKeep DEF Next, Timer, MainQuits
<1> QED
  BY <1>1, <1>2, <1>3

(* The invariant holds always.                                             *)
THEOREM Inductive == Spec => []IInv
<1>1. Spec => Init /\ [][Next]_vars
  BY PTL DEF Spec
<1> QED
  BY <1>1, Start, StepKeeps, PTL

(* No kernel is left behind: with its client silent it is gone within two  *)
(* timeouts and the grace.                                                 *)
THEOREM AlwaysGoneInTime == Spec => []GoneInTime
<1>1. IInv => GoneInTime
  BY DEF IInv
<1> QED
  BY <1>1, Inductive, PTL

(* The grace is aborted only when something before quitRPIService has used *)
(* the time: the waits for the client and the server fit in.               *)
THEOREM AlwaysAbortOnlyWhenStuck == Spec => []AbortOnlyWhenStuck
<1>1. IInv => AbortOnlyWhenStuck
  BY DEF IInv
<1> QED
  BY <1>1, Inductive, PTL

(* No kernel is made to quit before a whole timeout without a call.        *)
THEOREM NeverEarly == Spec => NoEarlyEnd
<1>1. IInv /\ [Next]_vars => (phase = "watch" /\ phase' = "grace" => silent >= RpcTimeout)
  <2> SUFFICES ASSUME IInv, [Next]_vars, phase = "watch", phase' = "grace"
               PROVE  silent >= RpcTimeout
    OBVIOUS
  <2>1. Watches
    BY DEF Next, vars, thread, kernel, client, Call, CallQuit, CallProceed, RpcBegins,
       ReadEvents, FillEvents, ClientDies, Timer, Clears, Checks, FallsAsleep, Wakes,
       GivesUp, RunCode, Goes, Quit, QuitFails, MainQuits, Saved, Tell, Proceed,
       Shutdown, StopTimer, Joined, Tick
  <2>2. timer = "decides" /\ ~termination /\ ~rpcHappened
    BY <2>1 DEF Watches
  <2>3. left = 0
    BY <2>2 DEF IInv, Ends
  <2> QED
    BY <2>2, <2>3 DEF IInv, RoundIsSilent, Types
<1> QED
  BY <1>1, Inductive, PTL DEF Spec, NoEarlyEnd

--------------------------------------------------------------------------
(***************************************************************************)
(* A session.  The invariant is about what is left to do, as a set: the    *)
(* steps are made in one order, the way back to the directory is left      *)
(* while R is away from it, `exit` while a session has begun to end, and   *)
(* an image is written while the helper is there.                          *)
(***************************************************************************)

LEMMA Least ==
    ASSUME NEW S \in SUBSET Nat, S # {}
    PROVE  \E m \in S : \A i \in S : m <= i
<1> DEFINE below == {0..(m - 1) : m \in S}
<1>1. below \subseteq FiniteSubsetsOf(Nat) /\ below # {}
  <2>1. \A m \in S : 0..(m - 1) \subseteq Nat /\ IsFiniteSet(0..(m - 1))
    BY FS_Interval
  <2> QED
    BY <2>1 DEF FiniteSubsetsOf
<1>2. PICK B \in below : \A R \in below : ~(<<R, B>> \in StrictSubsetOrdering(Nat))
  <2> HIDE DEF below
  <2> QED
    BY <1>1, FS_StrictSubsetOrderingWellFounded, WFMin
<1>3. PICK m \in S : B = 0..(m - 1)
  BY <1>2
<1>4. ASSUME NEW i \in S, i < m PROVE FALSE
  <2> DEFINE R == 0..(i - 1)
  <2>1. i \in Nat /\ m \in Nat
    OBVIOUS
  <2>2. R \in below /\ R \subseteq Nat /\ B \subseteq Nat
    BY <1>3, <2>1
  <2>3. i \in B /\ i \notin R
    BY <1>3, <1>4, <2>1
  <2>4. R \subseteq B
    BY <1>3, <1>4, <2>1
  <2> HIDE DEF R, below
  <2> QED
    BY <1>2, <2>2, <2>3, <2>4 DEF StrictSubsetOrdering
<1> QED
  BY <1>4
----------------------------------------------------------------------------
(***************************************************************************)
(* Source files, for any number of srcfiles, pointers, ids and sessions.   *)
(* First, the registry and the infos are each other's inverse (IInv).      *)
(* What carries it over a restart is that the saved pairs are one to one,  *)
(* and they are since a pointer being saved is protected from the moment   *)
(* it was copied.                                                          *)
(* Then, who has which id (OwnInv).  Every id is its srcfile's path or was *)
(* generated, and an id is generated only when the registry does not have  *)
(* it: among as many numbers as there are pointers and one more one is     *)
(* free.  The image keeps the same of the srcfiles it brings back.         *)
(***************************************************************************)

\* The order in which the steps are made, whatever of them is left.
Rank == [s \in {"Last", "quitRWrapper", "markDone", "assign", "saveState", "dirCreate", "setwd",
                "saveImage", "savedCat", "rm", "setwdLoad", "sysLoadImage", "loadState",
                "rmLoaded", "restoredCat", "setwdBack", "quitService", "exit", "raise"} |->
    CASE s = "Last" -> 1 [] s = "quitRWrapper" -> 2 [] s = "markDone" -> 3
      [] s = "assign" -> 4 [] s = "saveState" -> 5 [] s = "dirCreate" -> 6
      [] s = "setwd" -> 7 [] s = "saveImage" -> 8 [] s = "savedCat" -> 9 [] s = "rm" -> 10
      [] s = "setwdLoad" -> 11 [] s = "sysLoadImage" -> 12 [] s = "loadState" -> 13
      [] s = "rmLoaded" -> 14 [] s = "restoredCat" -> 15
      [] s = "setwdBack" -> 16 [] s = "quitService" -> 17 [] s = "exit" -> 18 [] s = "raise" -> 19]
StepNames == DOMAIN Rank
InOrder(s) == \A i, j \in 1..Len(s) : i < j => Rank[s[i]] < Rank[s[j]]

Elements(s) == {s[i] : i \in 1..Len(s)}
Left == Elements(todo)
Saves == {"assign", "saveState", "dirCreate", "setwd", "saveImage", "savedCat"}
Loads == {"setwdLoad", "sysLoadImage", "loadState", "rmLoaded", "restoredCat"}

SessionTypes ==
    /\ todo \in Seq(StepNames) /\ InOrder(todo)
    /\ data \in Nat /\ helper \in BOOLEAN /\ wd \in {"home", "workspace"}
    /\ image \in [data : Nat, helper : BOOLEAN]
    /\ saveOnExit \in BOOLEAN /\ quitDone \in BOOLEAN /\ told \in BOOLEAN
    /\ process \in {"runs", "exited", "crashed"}
    /\ errors \in Nat /\ interrupted \in BOOLEAN /\ wish \in BOOLEAN
    /\ before \in [image : [data : Nat, helper : BOOLEAN], wish : BOOLEAN, errors : Nat]

\* What the rest of a procedure still has and cannot have.
Procedures ==
    /\ Left \cap (Saves \cup Loads \cup {"rm"}) # {} => "setwdBack" \in Left
    /\ "markDone" \in Left => "exit" \in Left
    /\ Left \cap {"Last", "quitRWrapper"} # {} => Left \subseteq {"Last", "quitRWrapper"}
    /\ Left \cap Loads # {} => Left \subseteq Loads \cup {"setwdBack"}
    /\ ~("exit" \in Left /\ "raise" \in Left)

\* The helper is there while a save that counts on it goes on.
HelperIsThere ==
    /\ "saveImage" \in Left => helper \/ "assign" \in Left
    /\ "rm" \in Left /\ ~helper /\ ~interrupted =>
           wd = "home" /\ ("setwd" \in Left => "assign" \in Left)

\* The way back and the way out.
QuitGoesOn ==
    /\ wish = saveOnExit
    /\ before.errors <= errors
    /\ process = "runs" /\ ~interrupted /\ wd = "workspace" => "setwdBack" \in Left
    /\ process = "runs" /\ ~interrupted /\ quitDone => "exit" \in Left
    /\ process = "runs" /\ ~interrupted /\ "exit" \in Left =>
           /\ told \/ "quitService" \in Left
           /\ before.wish /\ errors = before.errors => image.data = data \/ "saveImage" \in Left
           /\ ~before.wish => image = before.image /\ "saveImage" \notin Left
    /\ process = "exited" /\ ~interrupted => wd = "home"

SessionInv ==
    SessionTypes /\ Procedures /\ HelperIsThere /\ QuitGoesOn /\ QuitDoesAsAsked /\ ImagesAreComplete

--------------------------------------------------------------------------
(* The steps.                                                              *)

LEMMA RankFacts ==
    /\ Rank["Last"] = 1 /\ Rank["quitRWrapper"] = 2 /\ Rank["markDone"] = 3
    /\ Rank["assign"] = 4 /\ Rank["saveState"] = 5 /\ Rank["dirCreate"] = 6
    /\ Rank["setwd"] = 7 /\ Rank["saveImage"] = 8 /\ Rank["savedCat"] = 9 /\ Rank["rm"] = 10
    /\ Rank["setwdLoad"] = 11 /\ Rank["sysLoadImage"] = 12 /\ Rank["loadState"] = 13
    /\ Rank["rmLoaded"] = 14 /\ Rank["restoredCat"] = 15
    /\ Rank["setwdBack"] = 16 /\ Rank["quitService"] = 17 /\ Rank["exit"] = 18 /\ Rank["raise"] = 19
    /\ StepNames = {"Last", "quitRWrapper", "markDone", "assign", "saveState", "dirCreate", "setwd",
                    "saveImage", "savedCat", "rm", "setwdLoad", "sysLoadImage", "loadState",
                    "rmLoaded", "restoredCat", "setwdBack", "quitService", "exit", "raise"}
    /\ \A s \in StepNames : Rank[s] \in Nat
BY DEF Rank, StepNames

LEMMA SingleFacts ==
    ASSUME NEW x \in StepNames
    PROVE  /\ <<x>> \in Seq(StepNames) /\ InOrder(<<x>>) /\ Elements(<<x>>) = {x}
BY DEF InOrder, Elements

LEMMA NoSteps == <<>> \in Seq(StepNames) /\ InOrder(<<>>) /\ Elements(<<>>) = {}
BY DEF InOrder, Elements

LEMMA JoinedFacts ==
    ASSUME NEW a \in Seq(StepNames), NEW b \in Seq(StepNames), InOrder(a), InOrder(b),
           \A x \in Elements(a), y \in Elements(b) : Rank[x] < Rank[y]
    PROVE  a \o b \in Seq(StepNames) /\ InOrder(a \o b) /\ Elements(a \o b) = Elements(a) \cup Elements(b)
<1> DEFINE c == a \o b
<1>1. /\ Len(a) \in Nat /\ Len(b) \in Nat
      /\ c \in Seq(StepNames) /\ Len(c) = Len(a) + Len(b)
      /\ \A i \in 1..Len(c) : c[i] = IF i <= Len(a) THEN a[i] ELSE b[i - Len(a)]
  BY ConcatProperties, LenProperties
<1> HIDE DEF c
<1>2. \A i \in 1..Len(c) : \/ i \in 1..Len(a) /\ c[i] = a[i]
                           \/ i > Len(a) /\ i - Len(a) \in 1..Len(b) /\ c[i] = b[i - Len(a)]
  BY <1>1
<1>3. \A i \in 1..Len(a) : i \in 1..Len(c) /\ c[i] = a[i]
  BY <1>1
<1>4. ASSUME NEW i \in 1..Len(b)
      PROVE  i + Len(a) \in 1..Len(c) /\ c[i + Len(a)] = b[i]
  <2>1. i + Len(a) \in 1..Len(c) /\ ~(i + Len(a) <= Len(a)) /\ (i + Len(a)) - Len(a) = i
    BY <1>1
  <2> QED
    BY <2>1, <1>1
<1>5. Elements(c) = Elements(a) \cup Elements(b)
  <2>1. ASSUME NEW x \in Elements(c)
        PROVE  x \in Elements(a) \cup Elements(b)
    <3>1. PICK i \in 1..Len(c) : x = c[i]
      BY DEF Elements
    <3>2. CASE i \in 1..Len(a) /\ c[i] = a[i]
      BY <3>1, <3>2 DEF Elements
    <3>3. CASE i > Len(a) /\ i - Len(a) \in 1..Len(b) /\ c[i] = b[i - Len(a)]
      BY <3>1, <3>3 DEF Elements
    <3> QED
      BY <1>2, <3>2, <3>3
  <2>2. ASSUME NEW x \in Elements(a)
        PROVE  x \in Elements(c)
    BY <1>3 DEF Elements
  <2>3. ASSUME NEW x \in Elements(b)
        PROVE  x \in Elements(c)
    <3>1. PICK i \in 1..Len(b) : x = b[i]
      BY DEF Elements
    <3> QED
      BY <3>1, <1>4 DEF Elements
  <2> QED
    BY <2>1, <2>2, <2>3
<1>6. InOrder(c)
  <2> SUFFICES ASSUME NEW i \in 1..Len(c), NEW j \in 1..Len(c), i < j
               PROVE  Rank[c[i]] < Rank[c[j]]
    BY DEF InOrder
  <2>1. CASE i \in 1..Len(a) /\ j \in 1..Len(a)
    BY <2>1, <1>3 DEF InOrder
  <2>2. CASE i \in 1..Len(a) /\ j > Len(a)
    <3>1. c[i] \in Elements(a) /\ c[j] \in Elements(b)
      BY <2>2, <1>1, <1>2, <1>3 DEF Elements
    <3> QED
      BY <3>1
  <2>3. CASE i > Len(a)
    <3>1. i - Len(a) \in 1..Len(b) /\ j - Len(a) \in 1..Len(b) /\ i - Len(a) < j - Len(a)
             /\ c[i] = b[i - Len(a)] /\ c[j] = b[j - Len(a)]
      BY <2>3, <1>1, <1>2
    <3> QED
      BY <3>1 DEF InOrder
  <2> QED
    BY <1>1, <1>2, <2>1, <2>2, <2>3
<1> QED
  BY <1>1, <1>5, <1>6 DEF c

LEMMA PartFacts ==
    /\ SaveSteps \in Seq(StepNames) /\ InOrder(SaveSteps) /\ Elements(SaveSteps) = Saves
    /\ SaveCleanup \in Seq(StepNames) /\ InOrder(SaveCleanup) /\ Elements(SaveCleanup) = {"rm", "setwdBack"}
    /\ LoadSteps \in Seq(StepNames) /\ InOrder(LoadSteps) /\ Elements(LoadSteps) = Loads
    /\ LoadCleanup \in Seq(StepNames) /\ InOrder(LoadCleanup) /\ Elements(LoadCleanup) = {"setwdBack"}
    /\ QuitSteps \in Seq(StepNames) /\ InOrder(QuitSteps) /\ Elements(QuitSteps) = {"quitService", "exit"}
<1>1. SaveSteps \in Seq(StepNames) /\ InOrder(SaveSteps) /\ Elements(SaveSteps) = Saves
  <2>1. SaveSteps \in Seq(StepNames)
    BY RankFacts DEF SaveSteps
  <2>2. InOrder(SaveSteps)
    BY RankFacts DEF SaveSteps, InOrder
  <2>3. Elements(SaveSteps) = Saves
    BY DEF SaveSteps, Elements, Saves
  <2> QED
    BY <2>1, <2>2, <2>3
<1>2. SaveCleanup \in Seq(StepNames) /\ InOrder(SaveCleanup) /\ Elements(SaveCleanup) = {"rm", "setwdBack"}
  BY RankFacts DEF SaveCleanup, InOrder, Elements
<1>3. LoadSteps \in Seq(StepNames) /\ InOrder(LoadSteps) /\ Elements(LoadSteps) = Loads
  <2>1. LoadSteps \in Seq(StepNames)
    BY RankFacts DEF LoadSteps
  <2>2. InOrder(LoadSteps)
    BY RankFacts DEF LoadSteps, InOrder
  <2>3. Elements(LoadSteps) = Loads
    BY DEF LoadSteps, Elements, Loads
  <2> QED
    BY <2>1, <2>2, <2>3
<1>4. LoadCleanup \in Seq(StepNames) /\ InOrder(LoadCleanup) /\ Elements(LoadCleanup) = {"setwdBack"}
  BY RankFacts DEF LoadCleanup, InOrder, Elements
<1>5. QuitSteps \in Seq(StepNames) /\ InOrder(QuitSteps) /\ Elements(QuitSteps) = {"quitService", "exit"}
  BY RankFacts DEF QuitSteps, InOrder, Elements
<1> QED
  BY <1>1, <1>2, <1>3, <1>4, <1>5

\* What is left of an ordered sequence from a position on.
LEMMA SuffixFacts ==
    ASSUME NEW s \in Seq(StepNames), InOrder(s), NEW m \in 1..(Len(s) + 1), NEW t \in Seq(StepNames),
           Len(t) = Len(s) - m + 1, \A i \in 1..Len(t) : t[i] = s[m + i - 1]
    PROVE  InOrder(t) /\ Elements(t) = {s[i] : i \in m..Len(s)}
<1>1. Len(s) \in Nat /\ Len(t) \in Nat
  BY LenProperties
<1>2. ASSUME NEW i \in 1..Len(t)
      PROVE  (m + i) - 1 \in m..Len(s) /\ (m + i) - 1 \in 1..Len(s) /\ t[i] = s[(m + i) - 1]
  BY <1>1
<1>3. ASSUME NEW i \in m..Len(s)
      PROVE  (i - m) + 1 \in 1..Len(t) /\ t[(i - m) + 1] = s[i]
  <2>1. (i - m) + 1 \in 1..Len(t) /\ (m + ((i - m) + 1)) - 1 = i
    BY <1>1
  <2> QED
    BY <2>1, <1>2
<1>4. InOrder(t)
  <2> SUFFICES ASSUME NEW i \in 1..Len(t), NEW j \in 1..Len(t), i < j
               PROVE  Rank[t[i]] < Rank[t[j]]
    BY DEF InOrder
  <2>1. (m + i) - 1 < (m + j) - 1
    BY <1>1
  <2> QED
    BY <2>1, <1>2 DEF InOrder
<1>5. Elements(t) = {s[i] : i \in m..Len(s)}
  <2>1. ASSUME NEW x \in Elements(t)
        PROVE  x \in {s[i] : i \in m..Len(s)}
    <3>1. PICK i \in 1..Len(t) : x = t[i]
      BY DEF Elements
    <3> QED
      BY <3>1, <1>2
  <2>2. ASSUME NEW i \in m..Len(s)
        PROVE  s[i] \in Elements(t)
    BY <1>3 DEF Elements
  <2> QED
    BY <2>1, <2>2
<1> QED
  BY <1>4, <1>5

\* Different positions hold different steps.
LEMMA OrderFacts ==
    ASSUME NEW s \in Seq(StepNames), InOrder(s), NEW i \in 1..Len(s), NEW j \in 1..Len(s)
    PROVE  /\ Rank[s[i]] \in Nat
           /\ Rank[s[i]] <= Rank[s[j]] => i <= j
           /\ i <= j => Rank[s[i]] <= Rank[s[j]]
<1>1. Rank[s[i]] \in Nat /\ Rank[s[j]] \in Nat /\ Len(s) \in Nat
  BY RankFacts, LenProperties, ElementOfSeq
<1>2. CASE i < j
  BY <1>1, <1>2 DEF InOrder
<1>3. CASE j < i
  BY <1>1, <1>3 DEF InOrder
<1>4. CASE i = j
  BY <1>1, <1>4
<1> QED
  BY <1>1, <1>2, <1>3, <1>4

LEMMA TailFacts ==
    ASSUME NEW s \in Seq(StepNames), InOrder(s), s # <<>>
    PROVE  /\ Tail(s) \in Seq(StepNames) /\ InOrder(Tail(s))
           /\ Elements(s) \subseteq StepNames /\ Head(s) \in Elements(s)
           /\ Elements(Tail(s)) = Elements(s) \ {Head(s)}
           /\ \A x \in Elements(s) : x = Head(s) \/ Rank[Head(s)] < Rank[x]
<1>1. Len(s) \in Nat /\ Len(s) # 0 /\ Head(s) = s[1] /\ Elements(s) \subseteq StepNames
  BY LenProperties, EmptySeq, ElementOfSeq DEF Elements
<1>2. Tail(s) \in Seq(StepNames) /\ Len(Tail(s)) = Len(s) - 1 /\ \A i \in 1..Len(Tail(s)) : Tail(s)[i] = s[i + 1]
  BY HeadTailProperties
<1>3. InOrder(Tail(s)) /\ Elements(Tail(s)) = {s[i] : i \in 2..Len(s)}
  <2> DEFINE t == Tail(s)
  <2>1. t \in Seq(StepNames) /\ Len(t) = Len(s) - 2 + 1 /\ 2 \in 1..(Len(s) + 1)
           /\ \A i \in 1..Len(t) : t[i] = s[2 + i - 1]
    BY <1>1, <1>2
  <2> HIDE DEF t
  <2>2. InOrder(t) /\ Elements(t) = {s[i] : i \in 2..Len(s)}
    BY <2>1, SuffixFacts
  <2> QED
    BY <2>2 DEF t
<1>4. \A i \in 2..Len(s) : i \in 1..Len(s) /\ Rank[s[1]] < Rank[s[i]] /\ s[i] # s[1]
  <2> SUFFICES ASSUME NEW i \in 2..Len(s)
               PROVE  i \in 1..Len(s) /\ Rank[s[1]] < Rank[s[i]] /\ s[i] # s[1]
    OBVIOUS
  <2>1. i \in 1..Len(s) /\ 1 \in 1..Len(s) /\ 1 < i
    BY <1>1
  <2>2. Rank[s[1]] < Rank[s[i]] /\ Rank[s[1]] \in Nat
    BY <2>1, OrderFacts DEF InOrder
  <2> QED
    BY <2>1, <2>2
<1>5. \A x \in Elements(s) : x = s[1] \/ \E i \in 2..Len(s) : x = s[i]
  BY <1>1 DEF Elements
<1>6. s[1] \in Elements(s) /\ \A i \in 2..Len(s) : s[i] \in Elements(s)
  BY <1>1 DEF Elements
<1>7. Elements(Tail(s)) = Elements(s) \ {s[1]}
  BY <1>3, <1>4, <1>5, <1>6
<1>8. \A x \in Elements(s) : x = s[1] \/ Rank[s[1]] < Rank[x]
  BY <1>4, <1>5
<1> QED
  BY <1>1, <1>2, <1>3, <1>6, <1>7, <1>8

\* What From leaves, when it finds something: all from the first of the kinds on.
LEMMA FromFacts ==
    ASSUME NEW s \in Seq(StepNames), InOrder(s), NEW kinds, Elements(s) \cap kinds # {}
    PROVE  /\ From(s, kinds) \in Seq(StepNames) /\ InOrder(From(s, kinds))
           /\ \E k \in Elements(s) \cap kinds :
                  /\ \A x \in Elements(s) \cap kinds : Rank[k] <= Rank[x]
                  /\ Elements(From(s, kinds)) = {x \in Elements(s) : Rank[k] <= Rank[x]}
<1> DEFINE at == {i \in 1..Len(s) : s[i] \in kinds}
           m == CHOOSE i \in at : \A j \in at : i <= j
           t == SubSeq(s, m, Len(s))
<1>1. Len(s) \in Nat
  BY LenProperties
<1>2. at \in SUBSET Nat /\ at # {}
  BY <1>1 DEF Elements
<1>3. m \in at /\ \A j \in at : m <= j
  <2> HIDE DEF at
  <2>1. \E i \in at : \A j \in at : i <= j
    BY <1>2, Least
  <2> QED
    BY <2>1
<1>4. From(s, kinds) = t
  BY <1>2 DEF From
<1>5. m \in 1..Len(s) /\ s[m] \in kinds
  <2> HIDE DEF m
  <2> QED
    BY <1>3
<1> HIDE DEF m
<1>6. t \in Seq(StepNames) /\ Len(t) = Len(s) - m + 1 /\ \A i \in 1..Len(t) : t[i] = s[m + i - 1]
  <2>1. \A i \in m..Len(s) : s[i] \in StepNames
    BY <1>1, <1>5, ElementOfSeq
  <2>2. m \in Int /\ Len(s) \in Int /\ m <= Len(s)
    BY <1>1, <1>5
  <2> QED
    BY <2>1, <2>2, SubSeqProperties
<1> HIDE DEF t
<1>7. InOrder(t) /\ Elements(t) = {s[i] : i \in m..Len(s)}
  <2>1. m \in 1..(Len(s) + 1)
    BY <1>1, <1>5
  <2> QED
    BY <2>1, <1>6, SuffixFacts
<1>8. Elements(t) = {x \in Elements(s) : Rank[s[m]] <= Rank[x]}
  <2>1. ASSUME NEW i \in 1..Len(s)
        PROVE  i \in m..Len(s) <=> Rank[s[m]] <= Rank[s[i]]
    <3>1. i \in m..Len(s) <=> m <= i
      BY <1>1, <1>5
    <3> QED
      BY <3>1, <1>5, OrderFacts
  <2>2. m..Len(s) \subseteq 1..Len(s)
    BY <1>1, <1>5
  <2> QED
    BY <1>7, <2>1, <2>2 DEF Elements
<1>9. s[m] \in Elements(s) \cap kinds
  BY <1>5 DEF Elements
<1>10. \A x \in Elements(s) \cap kinds : Rank[s[m]] <= Rank[x]
  <2> SUFFICES ASSUME NEW j \in 1..Len(s), s[j] \in kinds
               PROVE  Rank[s[m]] <= Rank[s[j]]
    BY DEF Elements
  <2> QED
    BY <1>3, <1>5, OrderFacts
<1> QED
  BY <1>4, <1>6, <1>7, <1>8, <1>9, <1>10

\* A caught error leaves the cleanup and what follows.
LEMMA CaughtFacts ==
    ASSUME NEW s \in Seq(StepNames), InOrder(s), "setwdBack" \in Elements(s)
    PROVE  /\ Caught(s) \in Seq(StepNames) /\ InOrder(Caught(s))
           /\ "rm" \in Elements(s) => Elements(Caught(s)) = {x \in Elements(s) : 10 <= Rank[x]}
           /\ "rm" \notin Elements(s) => Elements(Caught(s)) = {x \in Elements(s) : 16 <= Rank[x]}
<1>1. Elements(s) \cap {"rm", "setwdBack"} # {}
  OBVIOUS
<1>2. Caught(s) \in Seq(StepNames) /\ InOrder(Caught(s))
  BY <1>1, FromFacts DEF Caught
<1>3. PICK k \in Elements(s) \cap {"rm", "setwdBack"} :
          /\ \A x \in Elements(s) \cap {"rm", "setwdBack"} : Rank[k] <= Rank[x]
          /\ Elements(Caught(s)) = {x \in Elements(s) : Rank[k] <= Rank[x]}
  BY <1>1, FromFacts DEF Caught
<1>4. "rm" \in Elements(s) => k = "rm"
  BY <1>3, RankFacts
<1>5. "rm" \notin Elements(s) => k = "setwdBack"
  BY <1>3
<1> QED
  BY <1>2, <1>3, <1>4, <1>5, RankFacts

\* The procedures, and what is left when one is given up.
LEMMA SaveWorkspaceFacts ==
    /\ SaveWorkspace \in Seq(StepNames) /\ InOrder(SaveWorkspace)
    /\ Elements(SaveWorkspace) = Saves \cup {"rm", "setwdBack"}
<1>1. \A x \in Saves, y \in {"rm", "setwdBack"} : Rank[x] < Rank[y]
  BY RankFacts DEF Saves
<1> QED
  BY <1>1, PartFacts, JoinedFacts DEF SaveWorkspace

LEMMA LoadWorkspaceFacts ==
    /\ LoadWorkspace \in Seq(StepNames) /\ InOrder(LoadWorkspace)
    /\ Elements(LoadWorkspace) \in {{}, Loads \cup {"setwdBack"}}
<1>1. \A x \in Loads, y \in {"setwdBack"} : Rank[x] < Rank[y]
  BY RankFacts DEF Loads
<1>2. CASE image = NoImage
  BY <1>2, NoSteps DEF LoadWorkspace
<1>3. CASE image # NoImage
  <2>1. LoadSteps \o LoadCleanup \in Seq(StepNames) /\ InOrder(LoadSteps \o LoadCleanup)
           /\ Elements(LoadSteps \o LoadCleanup) = Loads \cup {"setwdBack"}
    BY <1>1, PartFacts, JoinedFacts
  <2> QED
    BY <1>3, <2>1 DEF LoadWorkspace
<1> QED
  BY <1>2, <1>3

LEMMA QuittingFacts ==
    ASSUME NEW save \in BOOLEAN
    PROVE  /\ Quitting(save) \in Seq(StepNames) /\ InOrder(Quitting(save))
           /\ quitDone => Elements(Quitting(save)) = {"exit"}
           /\ ~quitDone => Elements(Quitting(save)) =
                  {"markDone", "quitService", "exit"} \cup (IF save THEN Saves \cup {"rm", "setwdBack"} ELSE {})
<1> DEFINE saving == IF save THEN SaveWorkspace ELSE <<>>
           kept == IF save THEN Saves \cup {"rm", "setwdBack"} ELSE {}
<1>1. <<"exit">> \in Seq(StepNames) /\ InOrder(<<"exit">>) /\ Elements(<<"exit">>) = {"exit"}
  BY SingleFacts, RankFacts
<1>2. <<"markDone">> \in Seq(StepNames) /\ InOrder(<<"markDone">>) /\ Elements(<<"markDone">>) = {"markDone"}
  BY SingleFacts, RankFacts
<1>3. saving \in Seq(StepNames) /\ InOrder(saving) /\ Elements(saving) = kept
  BY SaveWorkspaceFacts, NoSteps
<1>4. kept \subseteq Saves \cup {"rm", "setwdBack"}
  OBVIOUS
<1>5. \A x \in kept : 3 < Rank[x] /\ Rank[x] < 17
  BY <1>4, RankFacts DEF Saves
<1>6. Quitting(save) = IF quitDone THEN <<"exit">> ELSE (<<"markDone">> \o saving) \o QuitSteps
  BY DEF Quitting
<1> HIDE DEF saving, kept
<1>7. <<"markDone">> \o saving \in Seq(StepNames) /\ InOrder(<<"markDone">> \o saving)
         /\ Elements(<<"markDone">> \o saving) = {"markDone"} \cup kept
  <2>1. \A x \in {"markDone"}, y \in kept : Rank[x] < Rank[y]
    BY <1>5, RankFacts
  <2> QED
    BY <2>1, <1>2, <1>3, JoinedFacts
<1>8. (<<"markDone">> \o saving) \o QuitSteps \in Seq(StepNames) /\ InOrder((<<"markDone">> \o saving) \o QuitSteps)
         /\ Elements((<<"markDone">> \o saving) \o QuitSteps) = ({"markDone"} \cup kept) \cup {"quitService", "exit"}
  <2>1. \A x \in {"markDone"} \cup kept : x \in StepNames /\ Rank[x] < 17
    BY <1>4, <1>5, RankFacts DEF Saves
  <2>2. \A x \in {"markDone"} \cup kept, y \in {"quitService", "exit"} : Rank[x] < Rank[y]
    BY <2>1, RankFacts
  <2> DEFINE begun == <<"markDone">> \o saving
  <2>3. begun \in Seq(StepNames) /\ InOrder(begun) /\ Elements(begun) = {"markDone"} \cup kept
    BY <1>7
  <2> HIDE DEF begun
  <2>4. \A x \in Elements(begun), y \in Elements(QuitSteps) : Rank[x] < Rank[y]
    BY <2>2, <2>3, PartFacts
  <2>5. begun \o QuitSteps \in Seq(StepNames) /\ InOrder(begun \o QuitSteps)
           /\ Elements(begun \o QuitSteps) = Elements(begun) \cup Elements(QuitSteps)
    BY <2>3, <2>4, PartFacts, JoinedFacts
  <2>6. begun \o QuitSteps \in Seq(StepNames) /\ InOrder(begun \o QuitSteps)
           /\ Elements(begun \o QuitSteps) = ({"markDone"} \cup kept) \cup {"quitService", "exit"}
    BY <2>3, <2>5, PartFacts
  <2> QED
    BY <2>6 DEF begun
<1> QED
  BY <1>1, <1>6, <1>8 DEF kept

LEMMA ShortFacts ==
    /\ GivenUp \in Seq(StepNames) /\ InOrder(GivenUp) /\ Elements(GivenUp) \subseteq {"quitRWrapper"}
    /\ \A runLast \in BOOLEAN :
           LET plan == (IF runLast THEN <<"Last">> ELSE <<>>) \o <<"quitRWrapper">>
           IN  plan \in Seq(StepNames) /\ InOrder(plan) /\ Elements(plan) \subseteq {"Last", "quitRWrapper"}
    /\ \A save \in BOOLEAN :
           LET plan == (IF save THEN SaveWorkspace ELSE <<>>) \o <<"raise">>
           IN  /\ plan \in Seq(StepNames) /\ InOrder(plan)
               /\ Elements(plan) \in {{"raise"}, Saves \cup {"rm", "setwdBack", "raise"}}
<1>1. <<"quitRWrapper">> \in Seq(StepNames) /\ InOrder(<<"quitRWrapper">>)
         /\ Elements(<<"quitRWrapper">>) = {"quitRWrapper"}
  BY SingleFacts, RankFacts
<1>2. <<"Last">> \in Seq(StepNames) /\ InOrder(<<"Last">>) /\ Elements(<<"Last">>) = {"Last"}
  BY SingleFacts, RankFacts
<1>3. <<"raise">> \in Seq(StepNames) /\ InOrder(<<"raise">>) /\ Elements(<<"raise">>) = {"raise"}
  BY SingleFacts, RankFacts
<1>4. GivenUp \in Seq(StepNames) /\ InOrder(GivenUp) /\ Elements(GivenUp) \subseteq {"quitRWrapper"}
  BY <1>1, NoSteps DEF GivenUp
<1>5. ASSUME NEW runLast \in BOOLEAN
      PROVE  LET plan == (IF runLast THEN <<"Last">> ELSE <<>>) \o <<"quitRWrapper">>
             IN  plan \in Seq(StepNames) /\ InOrder(plan) /\ Elements(plan) \subseteq {"Last", "quitRWrapper"}
  <2> DEFINE first == IF runLast THEN <<"Last">> ELSE <<>>
  <2>1. first \in Seq(StepNames) /\ InOrder(first) /\ Elements(first) \subseteq {"Last"}
    BY <1>2, NoSteps
  <2> HIDE DEF first
  <2>2. \A x \in Elements(first), y \in {"quitRWrapper"} : Rank[x] < Rank[y]
    BY <2>1, RankFacts
  <2>3. first \o <<"quitRWrapper">> \in Seq(StepNames) /\ InOrder(first \o <<"quitRWrapper">>)
           /\ Elements(first \o <<"quitRWrapper">>) = Elements(first) \cup {"quitRWrapper"}
    BY <2>1, <2>2, <1>1, JoinedFacts
  <2> QED
    BY <2>1, <2>3 DEF first
<1>6. ASSUME NEW save \in BOOLEAN
      PROVE  LET plan == (IF save THEN SaveWorkspace ELSE <<>>) \o <<"raise">>
             IN  /\ plan \in Seq(StepNames) /\ InOrder(plan)
                 /\ Elements(plan) \in {{"raise"}, Saves \cup {"rm", "setwdBack", "raise"}}
  <2> DEFINE saving == IF save THEN SaveWorkspace ELSE <<>>
  <2>1. saving \in Seq(StepNames) /\ InOrder(saving) /\ Elements(saving) \in {{}, Saves \cup {"rm", "setwdBack"}}
    BY SaveWorkspaceFacts, NoSteps
  <2> HIDE DEF saving
  <2>2. \A x \in Elements(saving), y \in {"raise"} : Rank[x] < Rank[y]
    <3>1. \A x \in Saves \cup {"rm", "setwdBack"} : Rank[x] < 19
      BY RankFacts DEF Saves
    <3>2. Elements(saving) \subseteq Saves \cup {"rm", "setwdBack"}
      BY <2>1
    <3> QED
      BY <3>1, <3>2, RankFacts
  <2>3. saving \o <<"raise">> \in Seq(StepNames) /\ InOrder(saving \o <<"raise">>)
           /\ Elements(saving \o <<"raise">>) = Elements(saving) \cup {"raise"}
    BY <2>1, <2>2, <1>3, JoinedFacts
  <2> QED
    BY <2>1, <2>3 DEF saving
<1> QED
  BY <1>4, <1>5, <1>6

\* What is left after a step, and at the prompt.
LEMMA NewLeft ==
    ASSUME todo' \in Seq(StepNames), InOrder(todo')
    PROVE  (todo \in Seq(StepNames) /\ InOrder(todo))' /\ Left' = Elements(todo')
BY DEF InOrder, Left, Elements

LEMMA NothingLeft == todo = <<>> => Left = {}
BY NoSteps DEF Left

LEMMA SomethingLeft ==
    ASSUME todo \in Seq(StepNames), InOrder(todo), todo # <<>>
    PROVE  /\ Head(todo) \in Left /\ Left \subseteq StepNames
           /\ \A x \in Left : x = Head(todo) \/ Rank[Head(todo)] < Rank[x]
BY TailFacts DEF Left

--------------------------------------------------------------------------
(* The steps of a session keep the invariant.                              *)

LEMMA SessionStarts == SessionInit => SessionInv
<1> SUFFICES ASSUME SessionInit PROVE SessionInv
  OBVIOUS
<1>1. todo \in Seq(StepNames) /\ InOrder(todo) /\ Left = {}
  BY NoSteps DEF SessionInit, Left
<1>2. SessionTypes
  BY <1>1 DEF SessionInit, SessionTypes, NoImage, NotQuitting
<1>3. Procedures /\ HelperIsThere
  BY <1>1 DEF Procedures, HelperIsThere
<1>4. QuitGoesOn
  <2>1. wish = saveOnExit /\ before.errors = 0 /\ errors = 0 /\ wd = "home" /\ quitDone = FALSE
    BY DEF SessionInit, NotQuitting
  <2> QED
    BY <1>1, <2>1 DEF QuitGoesOn
<1>5. QuitDoesAsAsked /\ ImagesAreComplete
  BY DEF SessionInit, QuitDoesAsAsked, ImagesAreComplete
<1> QED
  BY <1>2, <1>3, <1>4, <1>5 DEF SessionInv

LEMMA PromptKeeps ==
    ASSUME SessionInv, ChangeData \/ SetSaveOnExit \/ Die
    PROVE  SessionInv'
<1>1. Left' = Left /\ (todo \in Seq(StepNames) /\ InOrder(todo))'
  BY NewLeft DEF SessionInv, SessionTypes, ChangeData, SetSaveOnExit, Die, Left
<1>2. CASE ChangeData
  <2>1. Left = {}
    BY <1>2, NothingLeft DEF ChangeData, AtPrompt
  <2>2. SessionTypes'
    BY <1>1, <1>2 DEF SessionInv, SessionTypes, ChangeData, AtPrompt, files, others
  <2> QED
    BY <1>1, <1>2, <2>1, <2>2 DEF SessionInv, SessionTypes, Procedures, HelperIsThere, QuitGoesOn, QuitDoesAsAsked,
         ImagesAreComplete, ChangeData, AtPrompt, files, others
<1>3. CASE SetSaveOnExit
  <2>1. SessionTypes'
    BY <1>1, <1>3 DEF SessionInv, SessionTypes, SetSaveOnExit, files, others
  <2> QED
    BY <1>1, <1>3, <2>1 DEF SessionInv, SessionTypes, Procedures, HelperIsThere, QuitGoesOn, QuitDoesAsAsked,
         ImagesAreComplete, SetSaveOnExit, files, others
<1>4. CASE Die
  <2>1. SessionTypes'
    BY <1>1, <1>4 DEF SessionInv, SessionTypes, Die, files, others
  <2> QED
    BY <1>1, <1>4, <2>1 DEF SessionInv, SessionTypes, Procedures, HelperIsThere, QuitGoesOn, QuitDoesAsAsked,
         ImagesAreComplete, Die, files, others
<1> QED
  BY <1>2, <1>3, <1>4

\* At the prompt nothing is left to do: R is in its directory, and no session is half ended.
LEMMA NewPlan ==
    ASSUME SessionInv, AtPrompt
    PROVE  Left = {} /\ (~interrupted => wd = "home" /\ ~quitDone)
BY NothingLeft DEF SessionInv, AtPrompt, QuitGoesOn, SessionTypes

LEMMA DoQuitKeeps ==
    ASSUME SessionInv, UserQuits \/ ClientQuits
    PROVE  SessionInv'
<1>1. PICK arg \in {"yes", "no", "default"}, runLast \in BOOLEAN, by \in {"user", "client"} : DoQuit(arg, runLast, by)
  BY DEF UserQuits, ClientQuits
<1>2. Left = {} /\ (~interrupted => wd = "home" /\ ~quitDone)
  BY <1>1, NewPlan DEF DoQuit
<1>3. (todo \in Seq(StepNames) /\ InOrder(todo))' /\ Left' \subseteq {"Last", "quitRWrapper"}
  <2>1. todo' \in Seq(StepNames) /\ InOrder(todo') /\ Elements(todo') \subseteq {"Last", "quitRWrapper"}
    BY <1>1, ShortFacts DEF DoQuit
  <2> QED
    BY <2>1, NewLeft
<1>4. saveOnExit' \in BOOLEAN /\ wish' = saveOnExit'
  BY <1>1 DEF DoQuit, SaveArgument, SessionInv, SessionTypes, QuitGoesOn
<1>5. SessionTypes'
  BY <1>1, <1>3, <1>4 DEF DoQuit, SessionInv, SessionTypes, files
<1>6. Procedures' /\ HelperIsThere'
  BY <1>3 DEF Procedures, HelperIsThere, Saves, Loads
<1> QED
  BY <1>1, <1>2, <1>3, <1>4, <1>5, <1>6
     DEF DoQuit, SessionInv, SessionTypes, QuitGoesOn, QuitDoesAsAsked, ImagesAreComplete, AtPrompt, files

LEMMA QuitRWrapperKeeps ==
    ASSUME SessionInv, QuitRWrapper
    PROVE  SessionInv'
<1>1. "quitRWrapper" \in Left /\ Left \subseteq {"Last", "quitRWrapper"}
  BY SomethingLeft DEF QuitRWrapper, At, SessionInv, SessionTypes, Procedures
<1>2. process = "runs" /\ (~interrupted => wd = "home" /\ ~quitDone)
  BY <1>1 DEF SessionInv, QuitRWrapper, At, QuitGoesOn, SessionTypes
<1>3. saveOnExit \in BOOLEAN
  BY DEF SessionInv, SessionTypes
<1>4. (todo \in Seq(StepNames) /\ InOrder(todo))' /\ Left' = Elements(Quitting(saveOnExit))
  BY <1>3, QuittingFacts, NewLeft DEF QuitRWrapper
<1>5. /\ quitDone => Left' = {"exit"}
      /\ ~quitDone => Left' = {"markDone", "quitService", "exit"}
                                  \cup (IF saveOnExit THEN Saves \cup {"rm", "setwdBack"} ELSE {})
  BY <1>3, <1>4, QuittingFacts
<1>6. SessionTypes'
  BY <1>4 DEF QuitRWrapper, SessionInv, SessionTypes, files, others
<1>7. Procedures'
  BY <1>5 DEF Procedures, Saves, Loads
<1>8. HelperIsThere'
  BY <1>2, <1>5 DEF HelperIsThere, Saves, QuitRWrapper, files, others
<1>9. /\ before'.wish = wish /\ before'.image = image /\ before'.errors = errors
      /\ UNCHANGED <<data, helper, wd, image, saveOnExit, quitDone, told, process, errors, interrupted, wish>>
  BY DEF QuitRWrapper, files, others
<1>10. "exit" \in Left' /\ (~quitDone => "quitService" \in Left')
       /\ (~quitDone /\ saveOnExit => "saveImage" \in Left') /\ (~saveOnExit => "saveImage" \notin Left')
  BY <1>5 DEF Saves
<1>11. QuitGoesOn'
  BY <1>2, <1>9, <1>10 DEF SessionInv, SessionTypes, QuitGoesOn
<1>12. QuitDoesAsAsked' /\ ImagesAreComplete'
  BY <1>2, <1>9 DEF SessionInv, QuitDoesAsAsked, ImagesAreComplete
<1> QED
  BY <1>6, <1>7, <1>8, <1>11, <1>12 DEF SessionInv

\* Whatever runs outside a save or a load finds R in its directory; what goes on instead is
\* quitting again or nothing.
LEMMA GivingUpKeeps ==
    ASSUME SessionInv, LastFails \/ StackOverflow \/ Interrupt
    PROVE  SessionInv'
<1>1. todo' \in {<<>>, GivenUp} /\ process = "runs"
  BY DEF LastFails, StackOverflow, Interrupt, At
<1>2. (todo \in Seq(StepNames) /\ InOrder(todo))' /\ Left' \subseteq {"quitRWrapper"}
  BY <1>1, ShortFacts, NoSteps, NewLeft
<1>3. /\ errors' \in Nat /\ errors <= errors' /\ interrupted' \in BOOLEAN
      /\ UNCHANGED <<data, helper, wd, image, saveOnExit, quitDone, told, process, wish, before>>
  <2>1. errors \in Nat /\ interrupted \in BOOLEAN
    BY DEF SessionInv, SessionTypes
  <2>2. CASE LastFails
    BY <2>1, <2>2 DEF LastFails, files, others
  <2>3. CASE StackOverflow
    BY <2>1, <2>3 DEF StackOverflow, files, others
  <2>4. CASE Interrupt
    BY <2>1, <2>4 DEF Interrupt, files
  <2> QED
    BY <2>2, <2>3, <2>4
<1>4. interrupted' = FALSE => wd = "home" /\ ~quitDone
  <2>1. CASE LastFails \/ StackOverflow
    <3>1. "Last" \in Left /\ Left \subseteq {"Last", "quitRWrapper"}
      BY <2>1, SomethingLeft DEF LastFails, StackOverflow, At, SessionInv, SessionTypes, Procedures
    <3>2. interrupted' = interrupted
      BY <2>1 DEF LastFails, StackOverflow, others
    <3> QED
      BY <1>1, <3>1, <3>2 DEF SessionInv, SessionTypes, QuitGoesOn
  <2>2. CASE Interrupt
    BY <2>2 DEF Interrupt
  <2> QED
    BY <2>1, <2>2
<1>5. SessionTypes'
  BY <1>2, <1>3 DEF SessionInv, SessionTypes
<1>6. Procedures' /\ HelperIsThere'
  BY <1>2 DEF Procedures, HelperIsThere, Saves, Loads
<1>7. QuitGoesOn'
  BY <1>1, <1>2, <1>3, <1>4, <1>5 DEF SessionInv, SessionTypes, QuitGoesOn
<1>8. QuitDoesAsAsked' /\ ImagesAreComplete'
  BY <1>1, <1>3 DEF SessionInv, QuitDoesAsAsked, ImagesAreComplete
<1> QED
  BY <1>5, <1>6, <1>7, <1>8 DEF SessionInv

LEMMA SegfaultKeeps ==
    ASSUME SessionInv, Segfault
    PROVE  SessionInv'
<1>1. Left = {} /\ (~interrupted => wd = "home" /\ ~quitDone) /\ process = "runs"
  BY NewPlan DEF Segfault, AtPrompt
<1>2. (todo \in Seq(StepNames) /\ InOrder(todo))' /\ Left' \in {{"raise"}, Saves \cup {"rm", "setwdBack", "raise"}}
  BY ShortFacts, NewLeft DEF Segfault, SessionInv, SessionTypes
<1>3. SessionTypes'
  BY <1>2 DEF Segfault, SessionInv, SessionTypes, files
<1>4. Procedures'
  BY <1>2 DEF Procedures, Saves, Loads
<1>5. HelperIsThere'
  BY <1>1, <1>2 DEF HelperIsThere, Saves, Segfault, files
<1>6. /\ before'.errors = errors /\ UNCHANGED <<data, wd, image, saveOnExit, quitDone, process, errors, interrupted, wish>>
      /\ "exit" \notin Left'
  BY <1>2 DEF Segfault, files, Saves
<1>7. QuitGoesOn'
  BY <1>1, <1>6 DEF SessionInv, SessionTypes, QuitGoesOn
<1>8. QuitDoesAsAsked' /\ ImagesAreComplete'
  BY <1>1, <1>6 DEF SessionInv, QuitDoesAsAsked, ImagesAreComplete
<1> QED
  BY <1>3, <1>4, <1>5, <1>7, <1>8 DEF SessionInv

LEMMA NewSessionKeeps ==
    ASSUME SessionInv, NewSession
    PROVE  SessionInv'
<1>1. (todo \in Seq(StepNames) /\ InOrder(todo))' /\ Left' \in {{}, Loads \cup {"setwdBack"}}
  BY LoadWorkspaceFacts, NewLeft DEF NewSession
<1>2. SessionTypes'
  BY <1>1 DEF NewSession, SessionInv, SessionTypes, NotQuitting, NoImage
<1>3. Procedures' /\ HelperIsThere' /\ "exit" \notin Left'
  BY <1>1 DEF Procedures, HelperIsThere, Saves, Loads
<1>4. /\ before'.errors = 0 /\ wish' = saveOnExit' /\ wd' = "home" /\ quitDone' = FALSE /\ process' = "runs"
      /\ image' = image /\ errors' \in Nat
  BY <1>2 DEF NewSession, NotQuitting, SessionTypes
<1>5. QuitGoesOn'
  BY <1>3, <1>4 DEF QuitGoesOn
<1>6. QuitDoesAsAsked' /\ ImagesAreComplete'
  BY <1>4 DEF SessionInv, QuitDoesAsAsked, ImagesAreComplete
<1> QED
  BY <1>2, <1>3, <1>5, <1>6 DEF SessionInv

\* An error in a save or a load leaves the cleanup, and the way out, to do; one of rm ends the
\* cleanup, which had found no helper and so never left its directory.
LEMMA FailKeeps ==
    ASSUME SessionInv, Fail
    PROVE  SessionInv'
<1>1. /\ errors' = errors + 1 /\ process = "runs" /\ todo # <<>>
      /\ UNCHANGED <<data, helper, wd, image, saveOnExit, quitDone, told, process, before, interrupted, wish>>
  BY DEF Fail, files, others
<1>2. errors \in Nat /\ before.errors \in Nat /\ before.errors <= errors /\ errors' \in Nat /\ errors' # before.errors
  BY <1>1 DEF SessionInv, SessionTypes, QuitGoesOn
<1>3. /\ Head(todo) \in Left /\ Left \subseteq StepNames
      /\ \A x \in Left : x = Head(todo) \/ Rank[Head(todo)] < Rank[x]
  BY <1>1, SomethingLeft DEF SessionInv, SessionTypes
<1>4. Tail(todo) \in Seq(StepNames) /\ InOrder(Tail(todo)) /\ Elements(Tail(todo)) = Left \ {Head(todo)}
  BY <1>1, TailFacts DEF SessionInv, SessionTypes, Left
<1>5. Range(SaveSteps) = Saves /\ Range(LoadSteps) = Loads
  BY DEF Range, SaveSteps, LoadSteps, Saves, Loads
<1>6. /\ (todo \in Seq(StepNames) /\ InOrder(todo))'
      /\ Left' \subseteq Left /\ Left' \cap (Saves \cup Loads \cup {"markDone", "Last", "quitRWrapper"}) = {}
      /\ \A x \in {"quitService", "exit", "raise"} : x \in Left => x \in Left'
      /\ "rm" \in Left' \/ (wd = "workspace" /\ ~interrupted) => "setwdBack" \in Left'
      /\ "Last" \notin Left /\ "quitRWrapper" \notin Left
  <2>1. CASE Head(todo) \in Saves \cup Loads /\ todo' = Caught(Tail(todo))
    <3>1. "setwdBack" \in Left /\ Left \cap {"markDone", "Last", "quitRWrapper"} = {}
      <4>1. "setwdBack" \in Left
        BY <2>1, <1>3 DEF SessionInv, Procedures
      <4>2. 4 <= Rank[Head(todo)] /\ Head(todo) \notin {"markDone", "Last", "quitRWrapper"}
        BY <2>1, RankFacts DEF Saves, Loads
      <4>3. \A x \in {"markDone", "Last", "quitRWrapper"} : Rank[x] < 4
        BY RankFacts
      <4>4. ASSUME NEW x \in Left
            PROVE  4 <= Rank[x]
        <5>1. Rank[x] \in Nat /\ Rank[Head(todo)] \in Nat
          BY <1>3, RankFacts
        <5>2. x = Head(todo) \/ Rank[Head(todo)] < Rank[x]
          BY <1>3
        <5> QED
          BY <5>1, <5>2, <4>2
      <4> QED
        BY <4>1, <4>3, <4>4, <1>3, RankFacts
    <3>2. "setwdBack" \in Elements(Tail(todo))
      BY <3>1, <2>1, <1>4 DEF Saves, Loads
    <3>3. Caught(Tail(todo)) \in Seq(StepNames) /\ InOrder(Caught(Tail(todo)))
      BY <3>2, <1>4, CaughtFacts
    <3>4. (todo \in Seq(StepNames) /\ InOrder(todo))' /\ Left' = Elements(Caught(Tail(todo)))
      BY <3>3, <2>1, NewLeft
    <3>5. \/ Left' = {x \in Left \ {Head(todo)} : 10 <= Rank[x]} /\ "rm" \in Left
          \/ Left' = {x \in Left \ {Head(todo)} : 16 <= Rank[x]} /\ "rm" \notin Left \ {Head(todo)}
      BY <3>2, <3>4, <1>4, CaughtFacts
    <3>6. \A x \in Saves : Rank[x] < 10
      BY RankFacts DEF Saves
    <3>7. \A x \in Loads : Rank[x] < 16
      BY RankFacts DEF Loads
    <3>8. "rm" \in Left => Left \cap Loads = {}
      BY DEF SessionInv, Procedures, Loads
    <3>9. Head(todo) \notin {"quitService", "exit", "raise", "setwdBack"}
      BY <2>1 DEF Saves, Loads
    <3>10. Left' \cap (Saves \cup Loads) = {}
      BY <3>5, <3>6, <3>7, <3>8, <1>3, RankFacts DEF Saves, Loads
    <3>11. \A x \in {"setwdBack", "quitService", "exit", "raise"} : x \in Left => x \in Left'
      BY <3>5, <3>9, RankFacts
    <3>12. Left' \subseteq Left
      BY <3>5
    <3> QED
      BY <3>1, <3>4, <3>10, <3>11, <3>12
  <2>2. CASE Head(todo) = "rm" /\ ~helper /\ todo' = Tail(Tail(todo))
    <3>1. "setwdBack" \in Left /\ Left \cap Loads = {}
      BY <2>2, <1>3 DEF SessionInv, Procedures, Loads
    <3>2. "setwdBack" \in Elements(Tail(todo)) /\ Tail(todo) # <<>>
      <4>1. "setwdBack" \in Elements(Tail(todo))
        BY <3>1, <2>2, <1>4
      <4>2. ASSUME Tail(todo) = <<>>
            PROVE  FALSE
        <5>1. "setwdBack" \in Elements(<<>>)
          BY <4>1, <4>2
        <5> QED
          BY <5>1, NoSteps
      <4> QED
        BY <4>1, <4>2
    <3>3. /\ Tail(Tail(todo)) \in Seq(StepNames) /\ InOrder(Tail(Tail(todo)))
          /\ Head(Tail(todo)) \in Left \ {"rm"}
          /\ Elements(Tail(Tail(todo))) = (Left \ {"rm"}) \ {Head(Tail(todo))}
          /\ Head(Tail(todo)) = "setwdBack" \/ Rank[Head(Tail(todo))] < Rank["setwdBack"]
      BY <3>2, <2>2, <1>4, TailFacts
    <3>4. \A x \in Left : x # "rm" => 10 < Rank[x]
      BY <2>2, <1>3, RankFacts
    <3>5. Head(Tail(todo)) = "setwdBack"
      <4>1. \A x \in StepNames : 10 < Rank[x] /\ Rank[x] < 16 => x \in Loads
        BY RankFacts DEF Loads
      <4> QED
        BY <4>1, <3>1, <3>3, <3>4, <1>3, RankFacts
    <3>6. (todo \in Seq(StepNames) /\ InOrder(todo))' /\ Left' = (Left \ {"rm"}) \ {"setwdBack"}
      BY <3>3, <3>5, <2>2, NewLeft
    <3>7. wd = "home" \/ interrupted
      BY <2>2, <1>3 DEF SessionInv, HelperIsThere
    <3>8. \A x \in Saves \cup {"markDone", "Last", "quitRWrapper"} : Rank[x] < 10 /\ x # "rm"
      BY RankFacts DEF Saves
    <3>9. \A x \in Saves \cup {"markDone", "Last", "quitRWrapper"} : x \notin Left
      BY <3>4, <3>8, RankFacts DEF Saves
    <3> QED
      BY <3>1, <3>6, <3>7, <3>9
  <2> QED
    BY <2>1, <2>2, <1>5 DEF Fail
<1>7. SessionTypes'
  BY <1>1, <1>2, <1>6 DEF SessionInv, SessionTypes
<1>8. Procedures'
  BY <1>6 DEF SessionInv, Procedures
<1>9. HelperIsThere'
  <2>1. "saveImage" \notin Left' /\ "setwd" \notin Left'
    BY <1>6 DEF Saves
  <2>2. "rm" \in Left' => "rm" \in Left
    BY <1>6
  <2> QED
    BY <2>1, <2>2, <1>1 DEF SessionInv, HelperIsThere
<1>10. QuitGoesOn'
  <2>1. wish' = saveOnExit' /\ before'.errors <= errors'
    BY <1>1, <1>2 DEF SessionInv, QuitGoesOn
  <2>2. "saveImage" \notin Left' /\ ("exit" \in Left' => "exit" \in Left)
    BY <1>6 DEF Saves
  <2>3. interrupted \/ (told \/ "quitService" \in Left) \/ "exit" \notin Left
    BY <1>1 DEF SessionInv, QuitGoesOn
  <2>4. ~interrupted /\ "exit" \in Left /\ ~before.wish => image = before.image
    BY <1>1 DEF SessionInv, QuitGoesOn
  <2>5. ~interrupted /\ quitDone => "exit" \in Left
    BY <1>1 DEF SessionInv, QuitGoesOn
  <2> QED
    BY <2>1, <2>2, <2>3, <2>4, <2>5, <1>1, <1>2, <1>6 DEF QuitGoesOn
<1>11. QuitDoesAsAsked' /\ ImagesAreComplete'
  BY <1>1 DEF SessionInv, QuitDoesAsAsked, ImagesAreComplete
<1> QED
  BY <1>7, <1>8, <1>9, <1>10, <1>11 DEF SessionInv

\* A step that succeeds: whatever is left ranks higher.
LEMMA StepKeepsSession ==
    ASSUME SessionInv, Step
    PROVE  SessionInv'
<1> DEFINE step == Head(todo)
<1>1. /\ process = "runs" /\ todo # <<>> /\ step # "quitRWrapper"
      /\ todo' = Tail(todo) /\ UNCHANGED <<saveOnExit, errors, before, interrupted, wish>>
  BY DEF Step, others
<1>2. /\ step \in Left /\ Left \subseteq StepNames
      /\ \A x \in Left : x = step \/ Rank[step] < Rank[x]
  BY <1>1, SomethingLeft DEF SessionInv, SessionTypes
<1>3. (todo \in Seq(StepNames) /\ InOrder(todo))' /\ Left' = Left \ {step}
  <2>1. Tail(todo) \in Seq(StepNames) /\ InOrder(Tail(todo)) /\ Elements(Tail(todo)) = Left \ {step}
    BY <1>1, TailFacts DEF SessionInv, SessionTypes, Left
  <2> QED
    BY <2>1, <1>1, NewLeft
<1>4. /\ helper' = CASE step = "assign" -> TRUE
                     [] step = "sysLoadImage" -> image.helper
                     [] step \in {"rm", "rmLoaded"} -> FALSE
                     [] OTHER -> helper
      /\ wd' = CASE step \in {"setwd", "setwdLoad"} -> "workspace"
                 [] step = "setwdBack" -> "home"
                 [] OTHER -> wd
      /\ image' = IF step = "saveImage" THEN [data |-> data, helper |-> helper] ELSE image
      /\ data' = IF step = "sysLoadImage" THEN image.data ELSE data
      /\ quitDone' = (quitDone \/ step = "markDone")
      /\ told' = (told \/ step = "quitService")
      /\ process' = CASE step = "exit" -> "exited"
                      [] step = "raise" -> "crashed"
                      [] OTHER -> process
  BY DEF Step
<1> HIDE DEF step
<1>5. SessionTypes'
  <2>1. helper' \in BOOLEAN /\ wd' \in {"home", "workspace"} /\ data' \in Nat /\ process' \in {"runs", "exited", "crashed"}
    BY <1>1, <1>4 DEF SessionInv, SessionTypes
  <2>2. image' \in [data : Nat, helper : BOOLEAN] /\ quitDone' \in BOOLEAN /\ told' \in BOOLEAN
    BY <1>1, <1>4 DEF SessionInv, SessionTypes
  <2> QED
    BY <2>1, <2>2, <1>1, <1>3 DEF SessionInv, SessionTypes
<1>6. Procedures'
  <2>1. step = "setwdBack" => Left' \cap (Saves \cup Loads \cup {"rm"}) = {}
    <3>1. \A x \in Saves \cup Loads \cup {"rm"} : x \in StepNames /\ Rank[x] < 16
      BY RankFacts DEF Saves, Loads
    <3>2. ASSUME step = "setwdBack", NEW x \in Left', x \in Saves \cup Loads \cup {"rm"}
          PROVE  FALSE
      <4>1. x \in StepNames /\ Rank[x] < 16 /\ Rank[x] \in Nat
        BY <3>1, <3>2, RankFacts
      <4>2. x \in Left /\ x # step
        BY <3>2, <1>3
      <4>3. 16 < Rank[x]
        BY <4>2, <3>2, <1>2, RankFacts
      <4> QED
        BY <4>1, <4>3
    <3> QED
      BY <3>2
  <2>2. step = "exit" => "markDone" \notin Left'
    BY <1>2, <1>3, RankFacts
  <2> QED
    BY <2>1, <2>2, <1>3 DEF SessionInv, Procedures
<1>7. HelperIsThere'
  <2>1. "saveImage" \in Left' => helper' \/ "assign" \in Left'
    <3>1. "saveImage" \in Left' => step \notin {"rm", "rmLoaded", "sysLoadImage"} /\ "saveImage" \in Left
      <4> SUFFICES ASSUME "saveImage" \in Left'
                   PROVE  step \notin {"rm", "rmLoaded", "sysLoadImage"} /\ "saveImage" \in Left
        OBVIOUS
      <4>1. "saveImage" \in Left /\ "saveImage" # step
        BY <1>3
      <4>2. Rank[step] < Rank["saveImage"]
        BY <4>1, <1>2
      <4> QED
        BY <4>1, <4>2, RankFacts
    <3> QED
      BY <3>1, <1>3, <1>4 DEF SessionInv, HelperIsThere
  <2>2. ASSUME "rm" \in Left', ~helper', ~interrupted
        PROVE  wd' = "home" /\ ("setwd" \in Left' => "assign" \in Left')
    <3>1. "rm" \in Left /\ step # "rm" /\ step \notin Loads /\ step # "assign"
      BY <2>2, <1>2, <1>3, <1>4 DEF SessionInv, Procedures, Loads
    <3>2. ~helper
      BY <2>2, <3>1, <1>4 DEF Loads
    <3>3. wd = "home" /\ ("setwd" \in Left => "assign" \in Left)
      BY <2>2, <3>1, <3>2 DEF SessionInv, HelperIsThere
    <3>4. step # "setwd"
      BY <3>3, <1>2, RankFacts
    <3> QED
      BY <3>1, <3>3, <3>4, <1>3, <1>4 DEF Loads
  <2> QED
    BY <2>1, <2>2, <1>1 DEF HelperIsThere
<1>8. step = "exit" => \A x \in Left : x \in {"exit", "raise"}
  <2>1. \A x \in StepNames : 18 < Rank[x] => x = "raise"
    BY RankFacts
  <2> QED
    BY <2>1, <1>2, RankFacts
<1>9. QuitGoesOn'
  <2>1. wish' = saveOnExit' /\ before'.errors <= errors'
    BY <1>1 DEF SessionInv, QuitGoesOn
  <2>2. process' = "runs" /\ ~interrupted /\ wd' = "workspace" => "setwdBack" \in Left'
    <3>1. step \in {"setwd", "setwdLoad"} => "setwdBack" \in Left'
      BY <1>2, <1>3 DEF SessionInv, Procedures, Saves, Loads
    <3>2. step \notin {"setwd", "setwdLoad", "setwdBack"} => wd' = wd
      BY <1>4
    <3>3. step = "setwdBack" => wd' = "home"
      BY <1>4
    <3> QED
      BY <3>1, <3>2, <3>3, <1>1, <1>3 DEF SessionInv, QuitGoesOn
  <2>3. process' = "runs" /\ ~interrupted /\ quitDone' => "exit" \in Left'
    BY <1>1, <1>2, <1>3, <1>4 DEF SessionInv, QuitGoesOn, Procedures
  <2>4. ASSUME process' = "runs", ~interrupted, "exit" \in Left'
        PROVE  /\ told' \/ "quitService" \in Left'
               /\ before.wish /\ errors = before.errors => image'.data = data' \/ "saveImage" \in Left'
               /\ ~before.wish => image' = before.image /\ "saveImage" \notin Left'
    <3>1. /\ "exit" \in Left
          /\ told \/ "quitService" \in Left
          /\ before.wish /\ errors = before.errors => image.data = data \/ "saveImage" \in Left
          /\ ~before.wish => image = before.image /\ "saveImage" \notin Left
      BY <2>4, <1>1, <1>3 DEF SessionInv, QuitGoesOn
    <3>2. step \notin Loads
      BY <3>1, <1>2 DEF SessionInv, Procedures, Loads
    <3>3. data' = data
      BY <3>2, <1>4 DEF Loads
    <3>4. step = "saveImage" => image'.data = data
      BY <1>4
    <3>5. step # "saveImage" => image' = image
      BY <1>4
    <3>6. told' \/ "quitService" \in Left'
      BY <3>1, <1>3, <1>4
    <3> QED
      BY <3>1, <3>3, <3>4, <3>5, <3>6, <1>2, <1>3
  <2> QED
    BY <2>1, <2>2, <2>3, <2>4, <1>1, <1>8, <1>3, <1>4 DEF QuitGoesOn, SessionInv, SessionTypes
<1>10. QuitDoesAsAsked' /\ ImagesAreComplete'
  <2>1. QuitDoesAsAsked'
    <3> SUFFICES ASSUME process' = "exited", ~interrupted
                 PROVE  /\ told'
                        /\ before.wish /\ errors = before.errors => image'.data = data'
                        /\ ~before.wish => image' = before.image
      BY <1>1 DEF QuitDoesAsAsked
    <3>1. step = "exit"
      BY <1>1, <1>4
    <3>2. told' = told /\ data' = data /\ image' = image
      BY <3>1, <1>4 DEF SessionInv, SessionTypes
    <3>3. "quitService" \notin Left /\ "saveImage" \notin Left
      BY <3>1, <1>8
    <3> QED
      BY <3>1, <3>2, <3>3, <1>1, <1>2 DEF SessionInv, QuitGoesOn
  <2>2. ImagesAreComplete'
    <3>1. step = "saveImage" => helper
      BY <1>2, RankFacts DEF SessionInv, HelperIsThere
    <3> QED
      BY <3>1, <1>4 DEF SessionInv, ImagesAreComplete
  <2> QED
    BY <2>1, <2>2
<1> QED
  BY <1>5, <1>6, <1>7, <1>9, <1>10 DEF SessionInv

THEOREM SessionKeeps == SessionInv /\ [SessionNext]_sessionVars => SessionInv'
<1> SUFFICES ASSUME SessionInv, [SessionNext]_sessionVars
             PROVE  SessionInv'
  OBVIOUS
<1>1. CASE UNCHANGED sessionVars
  <2>1. Left' = Left /\ (todo \in Seq(StepNames) /\ InOrder(todo))'
    BY <1>1, NewLeft DEF sessionVars, SessionInv, SessionTypes, Left
  <2>2. SessionTypes'
    BY <1>1, <2>1 DEF sessionVars, SessionInv, SessionTypes
  <2> QED
    BY <1>1, <2>1, <2>2 DEF sessionVars, SessionInv, Procedures, HelperIsThere, QuitGoesOn, QuitDoesAsAsked,
                            ImagesAreComplete
<1> QED
  BY <1>1, PromptKeeps, DoQuitKeeps, QuitRWrapperKeeps, StepKeepsSession, FailKeeps, GivingUpKeeps, SegfaultKeeps,
     NewSessionKeeps DEF SessionNext

\* A session that ends has told its client and saved as it was asked to, and R is back in its directory.
THEOREM SessionsAlwaysEndAsAsked == SessionSpec => []SessionsEndAsAsked
<1>1. SessionInv => SessionsEndAsAsked
  <2> SUFFICES ASSUME SessionInv
               PROVE  DirectoryComesBack
    BY DEF SessionsEndAsAsked, SessionInv
  <2>1. CASE AtPrompt
    BY <2>1, NewPlan DEF DirectoryComesBack
  <2>2. CASE process = "exited"
    BY <2>2 DEF DirectoryComesBack, SessionInv, QuitGoesOn
  <2> QED
    BY <2>1, <2>2 DEF DirectoryComesBack
<1> QED
  BY <1>1, SessionStarts, SessionKeeps, PTL DEF SessionSpec

--------------------------------------------------------------------------
(***************************************************************************)
(* The pipes of a fork.  The invariant says whose the numbers are that the *)
(* globals and the threads remember, so what they close is their own.      *)
(***************************************************************************)

\* A number holds an end of a pipe.
Holds(n, k, id, end) == n \in Numbers /\ fds[n] = End(k, id, end)

PipesTypes ==
    /\ fds = [n \in Numbers |-> fds[n]]
    /\ forks \in Nat
    /\ readers \subseteq [fork : 1..forks, id : {"stdout", "stderr"}, fd : Numbers]

\* A thread has its number until it closes it.
ReadersReadTheirs == \A r \in readers : fds[r.fd] = End(r.fork, r.id, "read")

\* The globals are the numbers of the fork that is going on.
FirstPipe ==
    forker = "pipes" =>
        /\ forks # 0 /\ globalStderrPipeFd = Unset
        /\ Holds(globalStdoutPipeFd[1], forks, "stdout", "read")
        /\ Holds(globalStdoutPipeFd[2], forks, "stdout", "write")
        /\ \A r \in readers : r.fork # forks
BothPipes ==
    forker \in {"forks", "parent"} /\ HasPipes =>
        /\ Holds(globalStdoutPipeFd[2], forks, "stdout", "write")
        /\ Holds(globalStderrPipeFd[2], forks, "stderr", "write")

PipesInv ==
    PipesTypes /\ ReadersReadTheirs /\ FirstPipe /\ BothPipes /\ ClosesOwnOnly /\ ChildrenHaveTheirEnds

--------------------------------------------------------------------------
(* The system gives the lowest numbers that are free.                      *)

LEMMA MinIsIn ==
    ASSUME NEW S \in SUBSET Numbers, S # {}
    PROVE  Min(S) \in S
<1>1. \E m \in S : \A i \in S : m <= i
  BY Least DEF Numbers
<1> QED
  BY <1>1 DEF Min

LEMMA PipeNumbersAreFree ==
    ASSUME CanPipe
    PROVE  /\ PipeNumbers[1] \in Numbers /\ PipeNumbers[2] \in Numbers
           /\ fds[PipeNumbers[1]] = Free /\ fds[PipeNumbers[2]] = Free
           /\ PipeNumbers[1] # PipeNumbers[2] /\ PipeNumbers # Unset
<1> DEFINE F == FreeNumbers(fds)
<1>1. F \subseteq Numbers /\ IsFiniteSet(F) /\ Cardinality(F) >= 2
  <2>1. IsFiniteSet(Numbers)
    BY PipesAssumption, FS_Interval DEF Numbers
  <2> QED
    BY <2>1, FS_Subset DEF FreeNumbers, CanPipe
<1> DEFINE n == Min(F)
<1> HIDE DEF F
<1>2. F # {}
  BY <1>1, FS_EmptySet
<1>3. n \in F
  BY <1>1, <1>2, MinIsIn
<1> HIDE DEF n
<1>4. F \ {n} # {}
  <2>1. IsFiniteSet(F \ {n}) /\ Cardinality(F \ {n}) = Cardinality(F) - 1
    BY <1>1, <1>3, FS_RemoveElement
  <2>2. Cardinality(F) \in Nat
    BY <1>1, FS_CardinalityType
  <2>3. Cardinality(F \ {n}) # 0
    BY <2>1, <2>2, <1>1
  <2> QED
    BY <2>1, <2>3, FS_EmptySet
<1>5. Min(F \ {n}) \in F \ {n}
  BY <1>1, <1>4, MinIsIn
<1> DEFINE m == Min(F \ {n})
<1>6. PipeNumbers = <<n, m>>
  BY DEF PipeNumbers, n, F
<1> HIDE DEF m
<1>7. n \in Numbers /\ m \in Numbers /\ n # m /\ fds[n] = Free /\ fds[m] = Free
  BY <1>3, <1>5 DEF F, FreeNumbers, m
<1>8. n # 0
  BY <1>7 DEF Numbers
<1> QED
  BY <1>6, <1>7, <1>8 DEF Unset

\* What ends are, and are not.
LEMMA EndFacts ==
    ASSUME NEW k, NEW id, NEW end, NEW k2, NEW id2, NEW end2
    PROVE  /\ End(k, id, end) # Free /\ End(k, id, end) # Other
           /\ End(k, id, end) = End(k2, id2, end2) => k = k2 /\ id = id2 /\ end = end2
           /\ OfFork(End(k, id, end), k)
<1>1. End(k, id, end)[1] = "pipe" /\ End(k, id, end)[2] = k /\ End(k, id, end)[3] = id /\ End(k, id, end)[4] = end
      /\ End(k2, id2, end2)[2] = k2 /\ End(k2, id2, end2)[3] = id2 /\ End(k2, id2, end2)[4] = end2
  BY DEF End
<1>2. Free[1] = "free" /\ Other[1] = "other"
  BY DEF Free, Other
<1>3. End(k, id, end) # Free /\ End(k, id, end) # Other
  BY <1>1, <1>2
<1>4. End(k, id, end) = End(k2, id2, end2) => k = k2 /\ id = id2 /\ end = end2
  BY <1>1
<1> QED
  BY <1>1, <1>3, <1>4 DEF OfFork

\* Opening takes numbers that were free, so whatever holds an end still does.
LEMMA OpenedFacts ==
    ASSUME PipesTypes, CanPipe, NEW k, NEW id, fds' = Opened(k, id, PipeNumbers)
    PROVE  /\ fds' = [n \in Numbers |-> fds'[n]]
           /\ \A n \in Numbers : fds[n] # Free => fds'[n] = fds[n]
           /\ fds'[PipeNumbers[1]] = End(k, id, "read") /\ fds'[PipeNumbers[2]] = End(k, id, "write")
<1> DEFINE p == PipeNumbers[1]
           q == PipeNumbers[2]
<1>1. p \in Numbers /\ q \in Numbers /\ p # q /\ fds[p] = Free /\ fds[q] = Free
  BY PipeNumbersAreFree
<1>2. fds' = [fds EXCEPT ![p] = End(k, id, "read"), ![q] = End(k, id, "write")]
  BY DEF Opened
<1> HIDE DEF p, q
<1>3. fds = [n \in Numbers |-> fds[n]]
  BY DEF PipesTypes
<1>4. fds' = [n \in Numbers |-> fds'[n]] /\ fds'[p] = End(k, id, "read") /\ fds'[q] = End(k, id, "write")
      /\ \A n \in Numbers : n # p /\ n # q => fds'[n] = fds[n]
  BY <1>1, <1>2, <1>3
<1> QED
  BY <1>1, <1>4 DEF p, q

\* Closing numbers that hold ends of the fork.
LEMMA CloseFacts ==
    ASSUME NEW ns, NEW k, Close(ns, k), ClosesOwnOnly,
           \A n \in ns \cap Numbers : fds[n] = Free \/ OfFork(fds[n], k)
    PROVE  /\ fds' = [n \in Numbers |-> fds'[n]] /\ ClosesOwnOnly'
           /\ \A n \in Numbers : n \notin ns => fds'[n] = fds[n]
<1>1. fds' = [n \in Numbers |-> IF n \in ns THEN Free ELSE fds[n]]
  BY DEF Close
<1>2. foreign' = FALSE
  BY DEF Close, ClosesOwnOnly
<1> QED
  BY <1>1, <1>2 DEF ClosesOwnOnly

--------------------------------------------------------------------------
(* The steps.                                                              *)

LEMMA PipesStart == PipesInit => PipesInv
<1> SUFFICES ASSUME PipesInit PROVE PipesInv
  OBVIOUS
<1>1. PipesTypes /\ ReadersReadTheirs
  BY DEF PipesInit, PipesTypes, ReadersReadTheirs
<1>2. FirstPipe /\ BothPipes
  BY DEF PipesInit, FirstPipe, BothPipes
<1> QED
  BY <1>1, <1>2 DEF PipesInit, PipesInv, ClosesOwnOnly, ChildrenHaveTheirEnds

LEMMA OthersKeepPipes ==
    ASSUME PipesInv, Others
    PROVE  PipesInv'
<1>1. UNCHANGED <<globals, forker, forks, children, readers, foreign>>
  BY DEF Others
<1>2. fds = [n \in Numbers |-> fds[n]]
  BY DEF PipesInv, PipesTypes
<1>3. /\ fds' = [n \in Numbers |-> fds'[n]]
      /\ \A n \in Numbers : fds[n] # Free /\ fds[n] # Other => fds'[n] = fds[n]
  <2>1. CASE \E n \in Numbers : fds[n] = Other /\ fds' = [fds EXCEPT ![n] = Free]
    BY <1>2, <2>1
  <2>2. CASE \E n \in Numbers : /\ n \in FreeNumbers(fds) /\ n = Min(FreeNumbers(fds))
                                /\ fds' = [fds EXCEPT ![n] = Other]
    BY <1>2, <2>2 DEF FreeNumbers
  <2> QED
    BY <2>1, <2>2 DEF Others
<1>4. ASSUME NEW n \in Numbers, NEW k, NEW id, NEW end, fds[n] = End(k, id, end)
      PROVE  fds'[n] = End(k, id, end)
  BY <1>3, <1>4, EndFacts
<1>5. PipesTypes'
  BY <1>1, <1>3 DEF PipesInv, PipesTypes
<1>6. ReadersReadTheirs'
  BY <1>1, <1>4 DEF PipesInv, PipesTypes, ReadersReadTheirs
<1>7. FirstPipe'
  BY <1>1, <1>4 DEF PipesInv, FirstPipe, Holds, globals
<1>8. BothPipes'
  BY <1>1, <1>4 DEF PipesInv, BothPipes, Holds, globals, HasPipes
<1> QED
  BY <1>1, <1>5, <1>6, <1>7, <1>8 DEF PipesInv, ClosesOwnOnly, ChildrenHaveTheirEnds

LEMMA PrepareKeeps ==
    ASSUME PipesInv, Prepare
    PROVE  PipesInv'
<1>1. /\ forker = "runs" /\ forks' = forks + 1 /\ globalStderrPipeFd' = Unset
      /\ UNCHANGED <<children, readers, foreign>>
  BY DEF Prepare
<1>2. forks \in Nat /\ 1..forks \subseteq 1..forks' /\ forks' \notin 1..forks /\ forks' # 0
  BY <1>1 DEF PipesInv, PipesTypes
<1>3. ClosesOwnOnly' /\ ChildrenHaveTheirEnds' /\ ~HasPipes'
  BY <1>1 DEF PipesInv, ClosesOwnOnly, ChildrenHaveTheirEnds, HasPipes
<1>4. \A r \in readers : r.fork # forks' /\ r.fd \in Numbers /\ fds[r.fd] = End(r.fork, r.id, "read") /\ fds[r.fd] # Free
  BY <1>2, EndFacts DEF PipesInv, PipesTypes, ReadersReadTheirs
<1>5. readers' \subseteq [fork : 1..forks', id : {"stdout", "stderr"}, fd : Numbers]
  BY <1>1, <1>2 DEF PipesInv, PipesTypes
<1>6. CASE CanPipe
  <2>1. globalStdoutPipeFd' = PipeNumbers /\ fds' = Opened(forks', "stdout", PipeNumbers) /\ forker' = "pipes"
    BY <1>6 DEF Prepare
  <2>2. /\ fds' = [n \in Numbers |-> fds'[n]]
        /\ \A n \in Numbers : fds[n] # Free => fds'[n] = fds[n]
        /\ fds'[PipeNumbers[1]] = End(forks', "stdout", "read") /\ fds'[PipeNumbers[2]] = End(forks', "stdout", "write")
    BY <1>6, <2>1, OpenedFacts DEF PipesInv
  <2>3. PipeNumbers[1] \in Numbers /\ PipeNumbers[2] \in Numbers
    BY <1>6, PipeNumbersAreFree
  <2>4. PipesTypes'
    BY <1>1, <1>2, <1>5, <2>2 DEF PipesTypes
  <2>5. ReadersReadTheirs'
    BY <1>1, <1>4, <2>2 DEF ReadersReadTheirs
  <2>6. FirstPipe' /\ BothPipes'
    BY <1>1, <1>2, <1>4, <2>1, <2>2, <2>3 DEF FirstPipe, BothPipes, Holds
  <2> QED
    BY <1>3, <2>4, <2>5, <2>6 DEF PipesInv
<1>7. CASE ~CanPipe
  <2>1. fds' = fds /\ forker' = "forks"
    BY <1>7 DEF Prepare
  <2>2. PipesTypes' /\ ReadersReadTheirs'
    BY <1>1, <1>2, <1>5, <2>1 DEF PipesInv, PipesTypes, ReadersReadTheirs
  <2>3. FirstPipe' /\ BothPipes'
    BY <2>1, <1>3 DEF FirstPipe, BothPipes
  <2> QED
    BY <1>3, <2>2, <2>3 DEF PipesInv
<1> QED
  BY <1>6, <1>7

LEMMA PipeStderrKeeps ==
    ASSUME PipesInv, PipeStderr
    PROVE  PipesInv'
<1>1. /\ forker = "pipes" /\ CanPipe /\ globalStderrPipeFd' = PipeNumbers
      /\ fds' = Opened(forks, "stderr", PipeNumbers) /\ forker' = "forks"
      /\ UNCHANGED <<globalStdoutPipeFd, forks, children, foreign>>
      /\ readers' = readers \cup {[fork |-> forks, id |-> "stdout", fd |-> globalStdoutPipeFd[1]],
                                  [fork |-> forks, id |-> "stderr", fd |-> PipeNumbers[1]]}
  BY DEF PipeStderr
<1>2. /\ fds' = [n \in Numbers |-> fds'[n]]
      /\ \A n \in Numbers : fds[n] # Free => fds'[n] = fds[n]
      /\ fds'[PipeNumbers[1]] = End(forks, "stderr", "read") /\ fds'[PipeNumbers[2]] = End(forks, "stderr", "write")
  BY <1>1, OpenedFacts DEF PipesInv
<1>3. PipeNumbers[1] \in Numbers /\ PipeNumbers[2] \in Numbers
  BY <1>1, PipeNumbersAreFree
<1>4. ASSUME NEW n \in Numbers, NEW k, NEW id, NEW end, fds[n] = End(k, id, end)
      PROVE  fds'[n] = End(k, id, end)
  BY <1>2, <1>4, EndFacts
<1>5. /\ globalStdoutPipeFd[1] \in Numbers /\ fds'[globalStdoutPipeFd[1]] = End(forks, "stdout", "read")
      /\ globalStdoutPipeFd[2] \in Numbers /\ fds'[globalStdoutPipeFd[2]] = End(forks, "stdout", "write")
  BY <1>1, <1>4 DEF PipesInv, FirstPipe, Holds
<1>6. forks \in 1..forks
  <2>1. forks \in Nat /\ forks # 0
    BY <1>1 DEF PipesInv, PipesTypes, FirstPipe
  <2> QED
    BY <2>1
<1>7. PipesTypes'
  BY <1>1, <1>2, <1>3, <1>5, <1>6 DEF PipesInv, PipesTypes
<1>8. ReadersReadTheirs'
  <2>1. ASSUME NEW r \in readers
        PROVE  fds'[r.fd] = End(r.fork, r.id, "read")
    BY <1>4 DEF PipesInv, PipesTypes, ReadersReadTheirs
  <2> QED
    BY <1>1, <1>2, <1>5, <2>1 DEF ReadersReadTheirs
<1>9. FirstPipe' /\ BothPipes'
  BY <1>1, <1>2, <1>3, <1>5 DEF FirstPipe, BothPipes, Holds
<1> QED
  BY <1>1, <1>7, <1>8, <1>9 DEF PipesInv, ClosesOwnOnly, ChildrenHaveTheirEnds

LEMMA PipeStderrFailsKeeps ==
    ASSUME PipesInv, PipeStderrFails
    PROVE  PipesInv'
<1>1. /\ forker = "pipes" /\ forker' = "forks" /\ UNCHANGED <<globals, forks, children, readers>>
      /\ Close({globalStdoutPipeFd[1], globalStdoutPipeFd[2]}, forks)
  BY DEF PipeStderrFails
<1>2. /\ fds[globalStdoutPipeFd[1]] = End(forks, "stdout", "read")
      /\ fds[globalStdoutPipeFd[2]] = End(forks, "stdout", "write")
      /\ globalStderrPipeFd = Unset /\ \A r \in readers : r.fork # forks
  BY <1>1 DEF PipesInv, FirstPipe, Holds
<1>3. /\ fds' = [n \in Numbers |-> fds'[n]] /\ ClosesOwnOnly'
      /\ \A n \in Numbers : n \notin {globalStdoutPipeFd[1], globalStdoutPipeFd[2]} => fds'[n] = fds[n]
  BY <1>1, <1>2, EndFacts, CloseFacts DEF PipesInv
<1>4. PipesTypes'
  BY <1>1, <1>3 DEF PipesInv, PipesTypes
<1>5. ReadersReadTheirs'
  <2>1. ASSUME NEW r \in readers
        PROVE  r.fd \in Numbers /\ r.fd \notin {globalStdoutPipeFd[1], globalStdoutPipeFd[2]}
    <3>1. r.fd \in Numbers /\ fds[r.fd] = End(r.fork, r.id, "read") /\ r.fork # forks
      BY <1>2 DEF PipesInv, PipesTypes, ReadersReadTheirs
    <3> QED
      BY <3>1, <1>2, EndFacts
  <2> QED
    BY <2>1, <1>1, <1>3 DEF PipesInv, ReadersReadTheirs
<1>6. FirstPipe' /\ BothPipes'
  BY <1>1, <1>2 DEF FirstPipe, BothPipes, HasPipes, globals
<1> QED
  BY <1>1, <1>3, <1>4, <1>5, <1>6 DEF PipesInv, ChildrenHaveTheirEnds

LEMMA ForkKeeps ==
    ASSUME PipesInv, Fork
    PROVE  PipesInv'
<1>1. /\ forker = "forks" /\ forker' = "parent" /\ UNCHANGED <<fds, globals, forks, readers, foreign>>
      /\ children' = children \cup
             {[fork |-> forks, ends |-> IF HasPipes THEN {fds[n] : n \in WriteEnds \cap Numbers} ELSE {}]}
  BY DEF Fork
<1>2. HasPipes => {fds[n] : n \in WriteEnds \cap Numbers} = {End(forks, id, "write") : id \in {"stdout", "stderr"}}
  <2> SUFFICES ASSUME HasPipes
               PROVE  {fds[n] : n \in WriteEnds \cap Numbers} = {End(forks, id, "write") : id \in {"stdout", "stderr"}}
    OBVIOUS
  <2> DEFINE p == globalStdoutPipeFd[2]
             q == globalStderrPipeFd[2]
  <2>1. p \in Numbers /\ q \in Numbers /\ fds[p] = End(forks, "stdout", "write") /\ fds[q] = End(forks, "stderr", "write")
    BY <1>1 DEF PipesInv, BothPipes, Holds
  <2>2. WriteEnds \cap Numbers = {p, q}
    BY <2>1 DEF WriteEnds
  <2> HIDE DEF p, q
  <2>3. {fds[n] : n \in {p, q}} = {fds[p], fds[q]}
    OBVIOUS
  <2>4. {End(forks, id, "write") : id \in {"stdout", "stderr"}} = {End(forks, "stdout", "write"), End(forks, "stderr", "write")}
    OBVIOUS
  <2> QED
    BY <2>1, <2>2, <2>3, <2>4
<1>3. ChildrenHaveTheirEnds'
  <2> DEFINE born == [fork |-> forks, ends |-> IF HasPipes THEN {fds[n] : n \in WriteEnds \cap Numbers} ELSE {}]
  <2>1. born.ends \in {{}, {End(born.fork, id, "write") : id \in {"stdout", "stderr"}}}
    BY <1>2
  <2>2. children' = children \cup {born}
    BY <1>1
  <2> HIDE DEF born
  <2> QED
    BY <2>1, <2>2 DEF PipesInv, ChildrenHaveTheirEnds
<1>4. PipesTypes' /\ ReadersReadTheirs' /\ ClosesOwnOnly'
  BY <1>1 DEF PipesInv, PipesTypes, ReadersReadTheirs, ClosesOwnOnly
<1>5. FirstPipe' /\ BothPipes'
  BY <1>1 DEF PipesInv, FirstPipe, BothPipes, Holds, HasPipes, globals
<1> QED
  BY <1>3, <1>4, <1>5 DEF PipesInv

LEMMA ParentKeeps ==
    ASSUME PipesInv, Parent
    PROVE  PipesInv'
<1>1. forker = "parent" /\ forker' = "runs" /\ UNCHANGED <<globals, forks, children, readers>>
  BY DEF Parent
<1>2. FirstPipe' /\ BothPipes' /\ ChildrenHaveTheirEnds'
  BY <1>1 DEF PipesInv, FirstPipe, BothPipes, ChildrenHaveTheirEnds
<1>3. CASE HasPipes
  <2>1. Close(WriteEnds, forks)
    BY <1>3 DEF Parent, ParentCloses
  <2>2. \A n \in WriteEnds \cap Numbers :
            fds[n] \in {End(forks, "stdout", "write"), End(forks, "stderr", "write")}
    BY <1>1, <1>3 DEF PipesInv, BothPipes, Holds, WriteEnds
  <2>3. \A n \in WriteEnds \cap Numbers : OfFork(fds[n], forks)
    BY <2>2, EndFacts
  <2>4. /\ fds' = [n \in Numbers |-> fds'[n]] /\ ClosesOwnOnly'
        /\ \A n \in Numbers : n \notin WriteEnds => fds'[n] = fds[n]
    BY <2>1, <2>3, CloseFacts DEF PipesInv
  <2>5. ReadersReadTheirs'
    <3>1. ASSUME NEW r \in readers
          PROVE  r.fd \in Numbers /\ r.fd \notin WriteEnds
      <4>1. r.fd \in Numbers /\ fds[r.fd] = End(r.fork, r.id, "read")
        BY DEF PipesInv, PipesTypes, ReadersReadTheirs
      <4> QED
        BY <4>1, <2>2, EndFacts
    <3> QED
      BY <3>1, <1>1, <2>4 DEF PipesInv, ReadersReadTheirs
  <2>6. PipesTypes'
    BY <1>1, <2>4 DEF PipesInv, PipesTypes
  <2> QED
    BY <1>2, <2>4, <2>5, <2>6 DEF PipesInv
<1>4. CASE ~HasPipes
  <2>1. fds' = fds /\ foreign' = foreign
    BY <1>4 DEF Parent
  <2>2. PipesTypes' /\ ReadersReadTheirs' /\ ClosesOwnOnly'
    BY <1>1, <2>1 DEF PipesInv, PipesTypes, ReadersReadTheirs, ClosesOwnOnly
  <2> QED
    BY <1>2, <2>2 DEF PipesInv
<1> QED
  BY <1>3, <1>4

LEMMA ChildExitsKeeps ==
    ASSUME PipesInv, ChildExits
    PROVE  PipesInv'
<1>1. UNCHANGED <<fds, globals, forker, forks, readers, foreign>> /\ children' \subseteq children
  BY DEF ChildExits
<1>2. PipesTypes' /\ ReadersReadTheirs' /\ ClosesOwnOnly' /\ ChildrenHaveTheirEnds'
  BY <1>1 DEF PipesInv, PipesTypes, ReadersReadTheirs, ClosesOwnOnly, ChildrenHaveTheirEnds
<1>3. FirstPipe' /\ BothPipes'
  BY <1>1 DEF PipesInv, FirstPipe, BothPipes, Holds, HasPipes, globals
<1> QED
  BY <1>2, <1>3 DEF PipesInv

\* A thread closes its own number, which nobody else reads or writes by.
LEMMA ReaderEndsKeeps ==
    ASSUME PipesInv, ReaderEnds
    PROVE  PipesInv'
<1>1. PICK r \in readers : Close({r.fd}, r.fork) /\ readers' = readers \ {r}
  BY DEF ReaderEnds
<1>2. UNCHANGED <<globals, forker, forks, children>>
  BY DEF ReaderEnds
<1>3. \A x \in readers : /\ x \in [fork : 1..forks, id : {"stdout", "stderr"}, fd : Numbers]
                         /\ fds[x.fd] = End(x.fork, x.id, "read")
  BY DEF PipesInv, PipesTypes, ReadersReadTheirs
<1>4. /\ fds' = [n \in Numbers |-> fds'[n]] /\ ClosesOwnOnly'
      /\ \A n \in Numbers : n \notin {r.fd} => fds'[n] = fds[n]
  BY <1>1, <1>3, EndFacts, CloseFacts DEF PipesInv
<1>5. ASSUME NEW x \in readers, x.fd = r.fd
      PROVE  x = r
  <2>1. x.fork = r.fork /\ x.id = r.id
    BY <1>3, <1>5, EndFacts
  <2> QED
    BY <1>3, <1>5, <2>1
<1>6. ReadersReadTheirs'
  <2>1. ASSUME NEW x \in readers'
        PROVE  fds'[x.fd] = End(x.fork, x.id, "read")
    <3>1. x \in readers /\ x.fd # r.fd /\ x.fd \in Numbers
      BY <1>1, <1>3, <1>5
    <3> QED
      BY <3>1, <1>3, <1>4
  <2> QED
    BY <2>1 DEF ReadersReadTheirs
<1>7. PipesTypes' /\ ChildrenHaveTheirEnds'
  BY <1>1, <1>2, <1>4 DEF PipesInv, PipesTypes, ChildrenHaveTheirEnds
<1>8. ASSUME NEW n, NEW k, NEW id, Holds(n, k, id, "write") \/ (Holds(n, k, id, "read") /\ k # r.fork)
      PROVE  n \in Numbers /\ fds'[n] = fds[n]
  <2>1. n \in Numbers
    BY <1>8 DEF Holds
  <2>2. n # r.fd
    BY <1>8, <1>3, EndFacts DEF Holds
  <2> QED
    BY <2>1, <2>2, <1>4
<1>9. FirstPipe'
  <2> SUFFICES ASSUME forker = "pipes"
               PROVE  /\ forks # 0 /\ globalStderrPipeFd = Unset
                      /\ globalStdoutPipeFd[1] \in Numbers
                      /\ fds'[globalStdoutPipeFd[1]] = End(forks, "stdout", "read")
                      /\ globalStdoutPipeFd[2] \in Numbers
                      /\ fds'[globalStdoutPipeFd[2]] = End(forks, "stdout", "write")
                      /\ \A x \in readers' : x.fork # forks
    BY <1>2 DEF FirstPipe, Holds, globals
  <2>1. /\ forks # 0 /\ globalStderrPipeFd = Unset
        /\ Holds(globalStdoutPipeFd[1], forks, "stdout", "read")
        /\ Holds(globalStdoutPipeFd[2], forks, "stdout", "write")
        /\ \A x \in readers : x.fork # forks
    BY DEF PipesInv, FirstPipe
  <2>2. /\ fds'[globalStdoutPipeFd[1]] = fds[globalStdoutPipeFd[1]]
        /\ fds'[globalStdoutPipeFd[2]] = fds[globalStdoutPipeFd[2]]
    BY <2>1, <1>8
  <2> QED
    BY <2>1, <2>2, <1>1 DEF Holds
<1>10. BothPipes'
  <2> SUFFICES ASSUME forker \in {"forks", "parent"}, HasPipes
               PROVE  /\ globalStdoutPipeFd[2] \in Numbers
                      /\ fds'[globalStdoutPipeFd[2]] = End(forks, "stdout", "write")
                      /\ globalStderrPipeFd[2] \in Numbers
                      /\ fds'[globalStderrPipeFd[2]] = End(forks, "stderr", "write")
    BY <1>2 DEF BothPipes, Holds, HasPipes, globals
  <2>1. /\ Holds(globalStdoutPipeFd[2], forks, "stdout", "write")
        /\ Holds(globalStderrPipeFd[2], forks, "stderr", "write")
    BY DEF PipesInv, BothPipes
  <2>2. /\ fds'[globalStdoutPipeFd[2]] = fds[globalStdoutPipeFd[2]]
        /\ fds'[globalStderrPipeFd[2]] = fds[globalStderrPipeFd[2]]
    BY <2>1, <1>8
  <2> QED
    BY <2>1, <2>2 DEF Holds
<1> QED
  BY <1>4, <1>6, <1>7, <1>9, <1>10 DEF PipesInv

THEOREM PipesKeep == PipesInv /\ [PipesNext]_pipesVars => PipesInv'
<1> SUFFICES ASSUME PipesInv, [PipesNext]_pipesVars
             PROVE  PipesInv'
  OBVIOUS
<1>1. CASE UNCHANGED pipesVars
  <2>1. UNCHANGED <<fds, globalStdoutPipeFd, globalStderrPipeFd, forker, forks, children, readers, foreign>>
    BY <1>1 DEF pipesVars, globals
  <2>2. PipesTypes' /\ ReadersReadTheirs' /\ ClosesOwnOnly' /\ ChildrenHaveTheirEnds'
    BY <2>1 DEF PipesInv, PipesTypes, ReadersReadTheirs, ClosesOwnOnly, ChildrenHaveTheirEnds
  <2>3. FirstPipe' /\ BothPipes'
    BY <2>1 DEF PipesInv, FirstPipe, BothPipes, Holds, HasPipes
  <2> QED
    BY <2>2, <2>3 DEF PipesInv
<1> QED
  BY <1>1, OthersKeepPipes, PrepareKeeps, PipeStderrKeeps, PipeStderrFailsKeeps, ForkKeeps, ParentKeeps,
     ChildExitsKeeps, ReaderEndsKeeps DEF PipesNext, ForkSteps

\* No fork closes a descriptor that is not its own, and a child has both its ends or none.
THEOREM PipesAlwaysBelongToTheirFork == PipesSpec => []PipesBelongToTheirFork
<1>1. PipesInv => PipesBelongToTheirFork
  BY DEF PipesInv, PipesBelongToTheirFork
<1> QED
  BY <1>1, PipesStart, PipesKeep, PTL DEF PipesSpec
===========================================================================
