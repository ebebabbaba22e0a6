---------------------------- MODULE CanvasReload ----------------------------
(***************************************************************************)
(* Saves of the canvas and the reloads they start.  A save compares and    *)
(* replaces the file in one go and leaves a task behind; the task swaps    *)
(* the pipeline's sections, restarts the market source if its node changed *)
(* - waiting for the source's lock, and for its loops to end - and only    *)
(* then swaps the exit section.  Reloads of several saves, and the         *)
(* operator's own starts and stops of the source, overlap there.           *)
(***************************************************************************)
EXTENDS Naturals, Sequences

CONSTANTS
    Value,    \* configurations of one node, 1 among them
    MaxTasks  \* bound: saves, and starts and stops by hand

None == 0

VARIABLES
    saved,   \* the canvas on disk
    inUse,   \* the configurations in use: pipeline sections, market source, exit
    source,  \* MarketSourceManager._state
    holder,  \* the task that holds MarketSourceManager._lock
    waitQ,   \* the tasks that wait for it, in order
    task,    \* the tasks: reloads, and starts and stops by hand
    broken   \* sections that could not be built or swapped since their last swap

vars == <<saved, inUse, source, holder, waitQ, task, broken>>
lock == <<holder, waitQ>>

---------------------------------------------------------------------------
Template == [pipeline: Value, market: Value, exit: Value]

Kind == {"reload", "start", "stop"}

\* old and new: the templates a reload compares; carried: the configuration a
\* start waits with.
TaskRec == [kind: Kind, pc: {"new", "waitStop", "stopping", "waitStart", "done"},
            old: Template, new: Template, carried: Value]

Tasks == DOMAIN task

TypeOK ==
    /\ saved \in Template /\ inUse \in Template
    /\ source \in {"stopped", "running", "error"}
    /\ holder \in {None} \cup Tasks
    /\ waitQ \in Seq(Tasks)
    /\ task \in Seq(TaskRec)
    /\ broken \subseteq {"pipeline", "exit"}

\* The program has started from the canvas on disk.
Init ==
    /\ saved = [pipeline |-> 1, market |-> 1, exit |-> 1]
    /\ inUse = saved
    /\ source = "running"
    /\ holder = None
    /\ waitQ = <<>>
    /\ task = <<>>
    /\ broken = {}

---------------------------------------------------------------------------
(* Saves                                                                    *)

NewTask(kind, old, new, carried) ==
    task' = Append(task, [kind |-> kind, pc |-> "new", old |-> old, new |-> new,
                          carried |-> carried])

\* save_template replaces the file in one go.
Stored(new) == saved' = new

\* put_canvas_template: with the revision on disk, or "*", the canvas is
\* replaced and a reload from the old one to the new one is left to run.
Save(new) ==
    /\ Len(task) < MaxTasks
    /\ new # saved
    /\ Stored(new)
    /\ NewTask("reload", saved, new, saved.market)
    /\ UNCHANGED <<inUse, source, lock, broken>>

\* POST /api/market/source/start, with whatever configuration the request's body
\* gives or by default, not the canvas's; and /stop, which carries none.
ByHand(kind) ==
    /\ Len(task) < MaxTasks
    /\ \E v \in Value : /\ kind = "stop" => v = saved.market
                       /\ NewTask(kind, saved, saved, v)
    /\ UNCHANGED <<saved, inUse, source, lock, broken>>

---------------------------------------------------------------------------
(* The sections                                                             *)

\* Variant: a section is built from the template its reload was started with.
BuiltFromTask(t, part) == task[t].new[part]

\* build_section reads the canvas on disk.
Built(t, part) == saved[part]

\* A section whose node changed is rebuilt and swapped; one that fails stays.
Swapped(t, part, ok) ==
    IF task[t].old[part] = task[t].new[part] \/ ~ok
    THEN inUse ELSE [inUse EXCEPT ![part] = Built(t, part)]

Breaks(t, part, ok) ==
    IF task[t].old[part] = task[t].new[part] THEN broken
    ELSE IF ok THEN broken \ {part} ELSE broken \cup {part}

---------------------------------------------------------------------------
(* The market source's lock                                                 *)

Free == holder = None /\ waitQ = <<>>

Goes(t, pc) == task' = [task EXCEPT ![t].pc = pc]

\* "A source the operator stopped stays stopped."
Restarts == source = "running"

\* The reload begins: the pipeline's sections, up to the market source.  With
\* nothing to restart there it goes through to the exit section.
Reload(t) ==
    /\ t \in Tasks /\ task[t].kind = "reload" /\ task[t].pc = "new"
    /\ IF task[t].old.market # task[t].new.market /\ Restarts
       THEN /\ \E ok \in BOOLEAN :
                 /\ inUse' = Swapped(t, "pipeline", ok)
                 /\ broken' = Breaks(t, "pipeline", ok)
            /\ IF Free
               THEN holder' = t /\ Goes(t, "stopping") /\ UNCHANGED waitQ
               ELSE waitQ' = Append(waitQ, t) /\ Goes(t, "waitStop") /\ UNCHANGED holder
       ELSE /\ \E ok, exitOk \in BOOLEAN :
                 /\ inUse' = [Swapped(t, "pipeline", ok) EXCEPT
                                !.exit = Swapped(t, "exit", exitOk).exit]
                 /\ broken' = (Breaks(t, "pipeline", ok) \ {"exit"})
                                \cup (Breaks(t, "exit", exitOk) \cap {"exit"})
            /\ Goes(t, "done")
            /\ UNCHANGED lock
    /\ UNCHANGED <<saved, source>>

\* A start by hand, or a stop by hand, asks for the lock.
Asks(t) ==
    /\ t \in Tasks /\ task[t].kind # "reload" /\ task[t].pc = "new"
    /\ waitQ' = Append(waitQ, t)
    /\ Goes(t, IF task[t].kind = "stop" THEN "waitStop" ELSE "waitStart")
    /\ UNCHANGED <<saved, inUse, source, holder, broken>>

\* The first in the queue gets the lock for its stop.
GetsToStop(t) ==
    /\ holder = None /\ waitQ # <<>> /\ t = Head(waitQ) /\ task[t].pc = "waitStop"
    /\ waitQ' = Tail(waitQ)
    /\ holder' = t
    /\ Goes(t, "stopping")
    /\ UNCHANGED <<saved, inUse, source, broken>>

\* The loops have ended.  A reload goes on to start the source with the
\* configuration on disk, behind those who wait for the lock already.
Stops(t) ==
    /\ t \in Tasks /\ holder = t /\ task[t].pc = "stopping"
    /\ holder' = None
    /\ IF task[t].kind = "stop"
       THEN /\ source' = "stopped"
            /\ Goes(t, "done")
            /\ UNCHANGED <<inUse, waitQ, broken>>
       ELSE IF waitQ = <<>>
       THEN /\ source' = "running"
            /\ Goes(t, "done")
            /\ \E ok \in BOOLEAN :
                 /\ inUse' = [Swapped(t, "exit", ok) EXCEPT !.market = saved.market]
                 /\ broken' = Breaks(t, "exit", ok)
            /\ UNCHANGED waitQ
       ELSE /\ source' = "stopped"
            /\ waitQ' = Append(waitQ, t)
            /\ task' = [task EXCEPT ![t].pc = "waitStart", ![t].carried = saved.market]
            /\ UNCHANGED <<inUse, broken>>
    /\ UNCHANGED saved

\* The first in the queue gets the lock for its start; a source that is not
\* stopped stays as it is.
GetsToStart(t) ==
    /\ holder = None /\ waitQ # <<>> /\ t = Head(waitQ) /\ task[t].pc = "waitStart"
    /\ waitQ' = Tail(waitQ)
    /\ source' = IF source = "stopped" THEN "running" ELSE source
    /\ LET started(use) == IF source = "stopped"
                           THEN [use EXCEPT !.market = task[t].carried] ELSE use
       IN  IF task[t].kind = "reload"
           THEN \E ok \in BOOLEAN : /\ inUse' = started(Swapped(t, "exit", ok))
                                    /\ broken' = Breaks(t, "exit", ok)
           ELSE inUse' = started(inUse) /\ UNCHANGED broken
    /\ Goes(t, "done")
    /\ UNCHANGED <<saved, holder>>

\* A discovery poll fails, or succeeds again.
PollTurns ==
    /\ source # "stopped"
    /\ source' = IF source = "running" THEN "error" ELSE "running"
    /\ UNCHANGED <<saved, inUse, lock, task, broken>>

Next ==
    \/ \E new \in Template : Save(new)
    \/ \E kind \in {"start", "stop"} : ByHand(kind)
    \/ \E t \in 1 .. MaxTasks : Reload(t) \/ Asks(t) \/ GetsToStop(t) \/ Stops(t)
                                  \/ GetsToStart(t)
    \/ PollTurns

Spec == Init /\ [][Next]_vars

---------------------------------------------------------------------------
(* Safety                                                                   *)

Quiet == \A t \in Tasks : task[t].pc = "done"

\* However saves overlap, once their reloads are through the sections in use
\* are those of the canvas on disk, unless one could not be built: a reload
\* held up by the market source installs nothing older than a later save
\* (_apply_canvas_reload, build_section).
SectionsFollowCanvas ==
    Quiet => \A part \in {"pipeline", "exit"} \ broken : inUse[part] = saved[part]

\* "a changed node (e.g. the discovery filter) restarts it. A source the
\* operator stopped stays stopped": once the reloads are through, a source
\* that runs was started with the node on disk - unless it was started by hand,
\* with a configuration of the operator's.
SourceFollowsCanvas ==
    Quiet /\ source # "stopped" /\ (\A t \in Tasks : task[t].kind # "start") =>
      inUse.market = saved.market
=============================================================================
