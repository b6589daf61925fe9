------------------------------ MODULE Session ------------------------------
(***************************************************************************)
(* How a session starts and ends: loadWorkspace and saveWorkspace, whose   *)
(* calls of R may fail one by one, q() with its .Last, the quit request of *)
(* the client, and the signal handlers.  The data of the workspace is a    *)
(* version; save.image writes a file aside and renames it.                 *)
(***************************************************************************)
EXTENDS Naturals, Sequences, Functions

CONSTANTS MaxVersion,    \* bound on changes of the data
          MaxErrors,     \* bound on failing steps
          MaxSessions    \* bound on the processes, one after the other

VARIABLES
  todo,        \* the steps the main thread has still to make, <<>> at the prompt
  data,        \* the version of the data in the global environment
  helper,      \* whether .jetbrains_saved_data_env is there
  wd,          \* the working directory
  image,       \* what the workspace file holds
  saveOnExit,  \* SessionManager::saveOnExit
  quitDone,    \* quitRWrapper::done
  told,        \* quitRPIService: the client knows that the session ends
  process,     \* "runs", "exited" or "crashed"
  errors, session,
  caller,      \* who the steps are made for: "user", "client", "fault" or "init";
               \* "nobody" after a jump to the top level
  interrupted, \* whether an interrupt left a save or a load
  wish,        \* whether the user's or the client's last word was to save
  before       \* the image, the wish and the errors when quitRWrapper began

sessionVars == <<todo, data, helper, wd, image, saveOnExit, quitDone, told, process, errors, session, caller, interrupted,
          wish, before>>
others == <<caller, interrupted, session, wish>>
files == <<helper, wd, image>>

NoImage == [data |-> 0, helper |-> FALSE]
NotQuitting == [image |-> NoImage, wish |-> FALSE, errors |-> 0]

SaveSteps == <<"assign", "saveState", "dirCreate", "setwd", "saveImage", "savedCat">>
SaveCleanup == <<"rm", "setwdBack">>
LoadSteps == <<"setwdLoad", "sysLoadImage", "loadState", "rmLoaded", "restoredCat">>
LoadCleanup == <<"setwdBack">>
QuitSteps == <<"quitService", "exit">>

SaveWorkspace == SaveSteps \o SaveCleanup
LoadWorkspace == IF image = NoImage THEN <<>> ELSE LoadSteps \o LoadCleanup

SessionInit ==
  /\ todo = <<>> /\ data = 1 /\ helper = FALSE /\ wd = "home" /\ image = NoImage
  /\ saveOnExit = FALSE /\ quitDone = FALSE /\ told = FALSE /\ process = "runs"
  /\ errors = 0 /\ session = 1 /\ wish = FALSE /\ caller = "user" /\ interrupted = FALSE /\ before = NotQuitting

AtPrompt == process = "runs" /\ todo = <<>>
At(step) == process = "runs" /\ todo # <<>> /\ Head(todo) = step

\* The user's code changes the data.
ChangeData ==
  /\ AtPrompt /\ data < MaxVersion
  /\ data' = data + 1
  /\ UNCHANGED <<todo, files, saveOnExit, quitDone, told, process, errors, before, others>>

SetSaveOnExit ==
  /\ process = "runs" /\ ~quitDone
  /\ saveOnExit' \in BOOLEAN
  /\ wish' = saveOnExit'
  /\ UNCHANGED <<todo, data, files, quitDone, told, process, errors, session, caller, interrupted, before>>

\* the argument `save` of q()
SaveArgument(arg) == IF arg = "default" THEN saveOnExit ELSE arg = "yes"

\* quitRWrapper up to the saving; a second call returns at once.
Quitting(save) == IF quitDone THEN <<"exit">> ELSE <<"markDone">> \o (IF save THEN SaveWorkspace ELSE <<>>) \o QuitSteps

\* do_quit, called by the user or for the client: with runLast .Last runs first.  When it fails
\* the client's request quits again without it, the user is back at the prompt.
DoQuit(arg, runLast, by) ==
  /\ AtPrompt
  /\ saveOnExit' = SaveArgument(arg)
  /\ todo' = (IF runLast THEN <<"Last">> ELSE <<>>) \o <<"quitRWrapper">>
  /\ caller' = by
  /\ wish' = (IF arg = "default" THEN wish ELSE arg = "yes")
  /\ UNCHANGED <<data, files, quitDone, told, process, errors, session, interrupted, before>>

UserQuits == \E arg \in {"yes", "no", "default"} : \E runLast \in BOOLEAN : DoQuit(arg, runLast, "user")
ClientQuits == DoQuit("default", TRUE, "client")

QuitRWrapper ==
  /\ At("quitRWrapper")
  /\ todo' = Quitting(saveOnExit)
  /\ before' = [image |-> image, wish |-> wish, errors |-> errors]
  /\ UNCHANGED <<data, files, saveOnExit, quitDone, told, process, errors, others>>

\* A step that succeeds.
Step ==
  /\ process = "runs" /\ todo # <<>> /\ Head(todo) # "quitRWrapper"
  /\ LET step == Head(todo) IN
     /\ helper' = CASE step = "assign" -> TRUE
                    [] step = "sysLoadImage" -> image.helper
                    [] step \in {"rm", "rmLoaded"} -> FALSE
                    [] OTHER -> helper
     /\ wd' = CASE step \in {"setwd", "setwdLoad"} -> "workspace"
                [] step = "setwdBack" -> "home"
                [] OTHER -> wd
     /\ image' = IF step = "saveImage" THEN [data |-> data, helper |-> helper] ELSE image
     /\ data' = IF step = "sysLoadImage" THEN image.data ELSE data
     /\ quitDone' = (quitDone \/ step = "markDone")
     /\ told' = (told \/ step = "quitService")
     /\ process' = CASE step = "exit" -> "exited"
                     [] step = "raise" -> "crashed"
                     [] OTHER -> process
  /\ todo' = Tail(todo)
  /\ UNCHANGED <<saveOnExit, errors, before, others>>

\* What is left of the steps from the first of `kinds` on.
From(rest, kinds) ==
  LET at == {i \in 1..Len(rest) : rest[i] \in kinds}
  IN  IF at = {} THEN <<>>
      ELSE SubSeq(rest, CHOOSE i \in at : \A j \in at : i <= j, Len(rest))

\* Mutant of Caught: an error leaves the whole procedure.
CaughtOutside(rest) == From(rest, {"quitService", "exit", "raise"})
\* catch (RError const&): the rest of the try block is left out, its cleanup and what follows are not.
Caught(rest) == From(rest, {"rm", "setwdBack"})

\* An R call of a save or of a load fails.  rm fails only for want of the helper, with warnings
\* turned into errors; both calls of the cleanup share a try block.
Fail ==
  /\ process = "runs" /\ todo # <<>> /\ errors < MaxErrors
  /\ errors' = errors + 1
  /\ \/ /\ Head(todo) \in Range(SaveSteps) \cup Range(LoadSteps)
        /\ todo' = Caught(Tail(todo))
     \/ /\ Head(todo) = "rm" /\ ~helper
        /\ todo' = Tail(Tail(todo))
  /\ UNCHANGED <<data, files, saveOnExit, quitDone, told, process, before, others>>

\* What is left to do when an RExceptionBase leaves q(): the client's request quits again without
\* .Last.
GivenUp == IF caller = "client" THEN <<"quitRWrapper">> ELSE <<>>

LastFails ==
  /\ At("Last")
  /\ errors < MaxErrors
  /\ errors' = errors + 1
  /\ todo' = GivenUp
  /\ UNCHANGED <<data, files, saveOnExit, quitDone, told, process, before, others>>

\* sigsegvHandler: a stack overflow jumps to the top level, with an RUnwindException, which the quit
\* request does not catch; another fault saves and dies.
StackOverflow ==
  /\ At("Last")
  /\ todo' = <<>> /\ caller' = "nobody"
  /\ UNCHANGED <<data, files, saveOnExit, quitDone, told, process, errors, before, interrupted,
                 session, wish>>

\* The handlers catch errors only: an interrupt leaves a save or a load as a whole.
Interrupt ==
  /\ process = "runs" /\ todo # <<>> /\ caller # "fault"
  /\ Head(todo) \in Range(SaveSteps) \cup Range(LoadSteps)
  /\ interrupted' = TRUE
  /\ todo' = GivenUp
  /\ UNCHANGED <<data, files, saveOnExit, quitDone, told, process, errors, session, caller, wish, before>>

Segfault ==
  /\ AtPrompt
  /\ todo' = (IF saveOnExit THEN SaveWorkspace ELSE <<>>) \o <<"raise">>
  /\ before' = [image |-> image, wish |-> wish, errors |-> errors]
  /\ caller' = "fault"
  /\ UNCHANGED <<data, files, saveOnExit, quitDone, told, process, errors, session, interrupted, wish>>

\* SIGABRT or SIGFPE, or a fault in a handler: nothing is saved any more.
Die ==
  /\ process = "runs"
  /\ process' = "crashed"
  /\ UNCHANGED <<todo, data, files, saveOnExit, quitDone, told, errors, before, others>>

\* RPIServiceImpl::init in a new process.
NewSession ==
  /\ process # "runs" /\ session < MaxSessions
  /\ session' = session + 1
  /\ process' = "runs" /\ wd' = "home" /\ helper' = FALSE /\ data' = 1
  /\ quitDone' = FALSE /\ told' = FALSE /\ before' = NotQuitting
  /\ saveOnExit' \in BOOLEAN /\ wish' = saveOnExit'
  /\ todo' = LoadWorkspace /\ caller' = "init" /\ interrupted' = FALSE
  /\ UNCHANGED <<image, errors>>

SessionNext ==
  \/ ChangeData \/ SetSaveOnExit \/ UserQuits \/ ClientQuits \/ QuitRWrapper
  \/ Step \/ Fail \/ LastFails \/ Interrupt \/ StackOverflow \/ Segfault \/ Die \/ NewSession

\* The main thread goes on with what it has begun.
SessionFairness == WF_sessionVars(Step \/ QuitRWrapper)
SessionSpec == SessionInit /\ [][SessionNext]_sessionVars /\ SessionFairness

-----------------------------------------------------------------------------
\* Properties

\* A session that ends by q() or by the client's request has told the client, has saved its data if
\* that was the last word and nothing failed, and has left the file alone if it was not, however
\* often .Last failed and quitting was tried again.  (After an interrupted save quitRWrapper has been
\* `done`, the client is not told and nothing is saved.)
QuitDoesAsAsked ==
  process = "exited" /\ ~interrupted =>
    /\ told
    /\ before.wish /\ errors = before.errors => image.data = data
    /\ ~before.wish => image = before.image

\* Wherever a save or a load failed, short of an interrupt, R is left in the directory it was in.
DirectoryComesBack == (AtPrompt \/ process = "exited") /\ ~interrupted => wd = "home"

\* A workspace file has the registry of source files with the data: a failing save writes no image
\* without it.
ImagesAreComplete == image # NoImage => image.helper

\* A session that ends has told its client and has saved what it was asked to save, with the registry
\* of the source files, and R is back in its directory, wherever saving, loading or .Last failed
\* (SessionManager, quitRWrapper).
SessionsEndAsAsked == QuitDoesAsAsked /\ DirectoryComesBack /\ ImagesAreComplete

\* The client's quit request ends the process, wherever .Last or the saving fails or is interrupted.
\* The exception is a jump to the top level out of .Last, which takes R back to the prompt.
ClientsQuitEnds == At("Last") /\ caller = "client" ~> process # "runs" \/ caller = "nobody"
=============================================================================
