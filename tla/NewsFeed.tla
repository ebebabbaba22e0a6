------------------------------ MODULE NewsFeed ------------------------------
(***************************************************************************)
(* The news source: NewsSourceManager, the section that owns the ring      *)
(* buffer, and the WebSocket client whose task connects, consumes frames,  *)
(* backs off and reconnects - started, stopped and reconfigured from the   *)
(* HTTP API while the server accepts, rejects, closes and drops.           *)
(***************************************************************************)
EXTENDS Naturals

CONSTANTS
    Key,        \* the rest of a configuration: endpoint, api_key_ref, buffer_size
    Window,     \* values of freshness_seconds
    RingSize,   \* buffer_size
    MaxBackoff  \* doublings of initial_backoff that reach max_backoff

VARIABLES
    state,    \* NewsSourceManager._state
    running,  \* _running_config, a set of at most one configuration
    source,   \* _source, and _source_config which it was built from
    client,   \* TradingNewsWSSource._client and _task
    backoff,  \* run_forever's backoff, in doublings
    first,    \* _first_msg_pending
    ring      \* items in the source's buffer

vars == <<state, running, source, client, backoff, first, ring>>

---------------------------------------------------------------------------
(* Types                                                                    *)

Config == [key: Key, window: Window]

\* The client's task: not there, connecting, consuming, waiting, or finished.
Task == {"none", "connect", "open", "wait", "done"}

Source == [config: Config, from: Config]

TypeOK ==
    /\ state \in {"stopped", "connecting", "connected", "error"}
    /\ running \subseteq Config
    /\ source \subseteq Source
    /\ client \in [there: BOOLEAN, task: Task, window: Window]
    /\ backoff \in 0 .. MaxBackoff
    /\ first \in BOOLEAN
    /\ ring \in 0 .. RingSize

NoClient == [there |-> FALSE, task |-> "none", window |-> CHOOSE w \in Window : TRUE]

\* start_async: a client of the source's window, and its task.
Launched(s) == [there |-> TRUE, task |-> "connect", window |-> s.config.window]

Init ==
    /\ state = "stopped"
    /\ running = {}
    /\ source = {}
    /\ client = NoClient
    /\ backoff = 0
    /\ first = FALSE
    /\ ring = 0

---------------------------------------------------------------------------
(* The manager                                                              *)

\* A source built from the very configuration is used again, buffer and all.
Reusable(c) == {s \in source : s.from = c}

\* start; the key may not resolve. A source that still has its client starts
\* no other.
FeedStart(c) ==
    /\ state \notin {"connecting", "connected"}
    /\ running' = {c}
    /\ first' = FALSE
    /\ LET fresh == Reusable(c) = {}
           used  == IF fresh THEN {[config |-> c, from |-> c]} ELSE Reusable(c)
           left  == IF fresh THEN NoClient ELSE client
       IN  /\ source' = used
           /\ ring' = IF fresh THEN 0 ELSE ring
           /\ \/ /\ left.there
                 /\ state' = "connecting"
                 /\ UNCHANGED <<client, backoff>>
              \/ /\ ~left.there
                 /\ state' = "connecting"
                 /\ \E s \in used : client' = Launched(s)
                 /\ backoff' = 0
              \/ /\ ~left.there
                 /\ state' = "error"
                 /\ client' = left
                 /\ UNCHANGED backoff

\* stop: the client is told to stop, its task cancelled and awaited.
FeedStop ==
    /\ state # "stopped"
    /\ state' = "stopped"
    /\ running' = {}
    /\ client' = NoClient
    /\ first' = FALSE
    /\ UNCHANGED <<source, backoff, ring>>

\* Variant: what the source was built from stays as it was.
RewindowedRunning(S, w) == {[s EXCEPT !.config.window = w] : s \in S}

Rewindowed(S, w) == {[s EXCEPT !.config.window = w, !.from.window = w] : s \in S}

\* apply_freshness_seconds, of a canvas edit.
ApplyWindow(w) ==
    /\ source # {}
    /\ source' = Rewindowed(source, w)
    /\ running' = {[c EXCEPT !.window = w] : c \in running}
    /\ client' = IF client.there THEN [client EXCEPT !.window = w] ELSE client
    /\ UNCHANGED <<state, backoff, first, ring>>

---------------------------------------------------------------------------
(* The client's task                                                        *)

Opens ==
    /\ client.task = "connect"
    /\ client' = [client EXCEPT !.task = "open"]
    /\ backoff' = 0
    /\ state' = "connected"
    /\ first' = TRUE
    /\ UNCHANGED <<running, source, ring>>

\* A rejected upgrade is a matter of keys: the task ends.
Rejected ==
    /\ client.task = "connect"
    /\ client' = [client EXCEPT !.task = "done"]
    /\ state' = "error"
    /\ UNCHANGED <<running, source, backoff, first, ring>>

\* "disconnected", as record_event takes it.
Down == IF state = "stopped" THEN "stopped" ELSE "connecting"

\* The connection fails or breaks, or a consumer's bug ends it.
Drops ==
    /\ client.task \in {"connect", "open"}
    /\ client' = [client EXCEPT !.task = "wait"]
    /\ state' = Down
    /\ UNCHANGED <<running, source, backoff, first, ring>>

\* A clean close is followed by the next attempt at once.
ClosesCleanly ==
    /\ client.task = "open"
    /\ client' = [client EXCEPT !.task = "connect"]
    /\ state' = Down
    /\ UNCHANGED <<running, source, backoff, first, ring>>

\* Variant: the longest backoff is the last one.
ReconnectsUntilMax ==
    /\ client.task = "wait" /\ backoff < MaxBackoff
    /\ client' = [client EXCEPT !.task = "connect"]
    /\ backoff' = backoff + 1
    /\ UNCHANGED <<state, running, source, first, ring>>

\* _wait_backoff is over.
Reconnects ==
    /\ client.task = "wait"
    /\ client' = [client EXCEPT !.task = "connect"]
    /\ backoff' = IF backoff < MaxBackoff THEN backoff + 1 ELSE backoff
    /\ UNCHANGED <<state, running, source, first, ring>>

\* The buffer drops its oldest item for a new one.
Buffered == IF ring < RingSize THEN ring + 1 ELSE ring

\* A frame: of an item young enough, which goes to the buffer and the hooks;
\* one too old or malformed changes nothing.
Frame(age) ==
    /\ client.task = "open"
    /\ age <= client.window
    /\ ring' = Buffered
    /\ first' = FALSE
    /\ UNCHANGED <<state, running, source, client, backoff>>

Next ==
    \/ \E c \in Config : FeedStart(c)
    \/ FeedStop
    \/ \E w \in Window : ApplyWindow(w)
    \/ Opens \/ Rejected \/ Drops \/ ClosesCleanly \/ Reconnects
    \/ \E age \in Window : Frame(age)

Spec == Init /\ [][Next]_vars

FeedFairness == WF_vars(Reconnects) /\ SF_vars(Opens)

FairSpec == Spec /\ FeedFairness

---------------------------------------------------------------------------
(* Safety                                                                   *)

\* Whatever starts, stops and canvas edits came before, the connection filters
\* arrivals with the window of the configuration reported as running
\* (apply_freshness_seconds, start's reuse of a source).
FilterIsConfigured ==
    client.there => \A c \in running : client.window = c.window

\* A source reported as connecting or connected has a task that works at it:
\* ws_client.py keeps a dead task from hiding behind a live state.
ReportsAlive ==
    state \in {"connecting", "connected"} => client.task \in {"connect", "open", "wait"}

\* A connection that drops comes back, unless the operator stops the source,
\* restarts it or the server rejects it (run_forever's reconnect loop).
FeedComesBack == client.task = "wait" ~> client.task \in {"open", "none", "done"}
=============================================================================
