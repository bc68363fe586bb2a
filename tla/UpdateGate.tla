------------------------------ MODULE UpdateGate ------------------------------
(***************************************************************************)
(* The gate in front of automatic updates, in time: the periodic check of  *)
(* an installation that is happily deployed, updateInterval, and the       *)
(* updateWindow with its crontab entries (update_window.go, the first part *)
(* of tryInstallOrUpdate, getEnvDuration).                                 *)
(*                                                                         *)
(* The clock is cyclic: phase is the time modulo Day, the period that all  *)
(* crontab entries share; age and wait are distances from now.  So the     *)
(* model runs forever and a window that recurs can be waited for.  AmbInst *)
(* Reconciler has the rest of the call, and takes a window as a set of     *)
(* times; edits of the spec and migrations pass by the gate and belong     *)
(* there.                                                                  *)
(***************************************************************************)
EXTENDS Integers, FiniteSets

CONSTANTS
    Day,            \* the period of the crontab entries
    Windows,        \* the values of spec.updateWindow
    DefaultCheckInterval, DefaultUpdateInterval,
    CheckEnvs,      \* values of AMB_CHECK_INTERVAL
    UpdateEnvs,     \* values of AMB_UPDATE_INTERVAL
    Slacks,         \* bounds of what a call adds to the check interval
    Unset, Unparsable

\* One of the comma-separated parts of an updateWindow.
Entry == [never  : BOOLEAN,             \* "never", in any case
          parses : BOOLEAN,             \* is a crontab line
          at     : SUBSET (0..Day-1)]   \* the phases the line names

\* getEnvDuration.  A value that does not parse is logged as ignored and
\* leaves the duration at the zero that ParseDuration returned.
Duration(env, default) ==
    CASE env = Unset      -> default
      [] env = Unparsable -> 0
      [] OTHER            -> env

Intervals(envs, default) == {Duration(env, default) : env \in envs}

ASSUME DayAssumption == Day \in Nat \ {0}

ASSUME WindowsAssumption == \A w \in Windows : w \subseteq Entry

ASSUME IntervalsAssumption ==
    /\ Intervals(CheckEnvs, DefaultCheckInterval) \subseteq Nat
    /\ Intervals(UpdateEnvs, DefaultUpdateInterval) \subseteq Nat
    /\ Slacks \subseteq Nat

\* The code compares whole seconds with nanoseconds: the times of crontab lines
\* and the check intervals are even, the odd times are those between seconds.
ASSUME EvenAssumption ==
    /\ Day % 2 = 0
    /\ \A c \in Intervals(CheckEnvs, DefaultCheckInterval) : c % 2 = 0
    /\ \A w \in Windows : \A e \in w : \A p \in e.at : p % 2 = 0

VARIABLES
    window,                         \* spec.updateWindow; {} when not given
    checkInterval, updateInterval,
    slack,      \* how long a call and its way through the queue may take
    phase,      \* the time of day
    age,        \* time since status.lastCheckTime, up to Old
    wait,       \* time until the request that waits in the queue is handled
    queued,     \* there is such a request
    aimed       \* distances of the coming openings that an update was meant for

config == <<window, checkInterval, updateInterval, slack>>
vars == <<config, phase, age, wait, queued, aimed>>

Old == updateInterval + checkInterval

\* A crontab line fires d from now.
Fires(d) == \E e \in window : (phase + d) % Day \in e.at

\* Variant of Soon: "not after" instead of "before".
SoonNotAfter == {d \in 1..checkInterval : Fires(d)}

\* What Allowed looks for: firings before, but not at, the presumed time of
\* the next run.
Soon == {d \in 1..checkInterval - 1 : Fires(d)}

\* The window names times at all: it has no Never and every entry parses.
Timed == window # {} /\ \A e \in window : ~e.never /\ e.parses

\* UpdateWindow.Allowed.
Allowed == window = {} \/ (Timed /\ Soon # {})

\* "Last install/update was not so long ago"
TooEarly == age < updateInterval

-----------------------------------------------------------------------------

\* Variant of Requeue: the other interval.
RequeueAfterUpdateInterval ==
    /\ queued' = (updateInterval > 0 \/ (queued /\ wait > 0))
    /\ \E d \in 0..slack :
          wait' = IF queued /\ wait > 0 THEN wait ELSE updateInterval + d

\* The queue keeps the earlier of two requests: one that waits already is not
\* put off.  RequeueAfter: 0 is no request at all.
Requeue ==
    /\ queued' = (checkInterval > 0 \/ (queued /\ wait > 0))
    /\ \E d \in 0..slack :
          wait' = IF ~(queued /\ wait > 0) THEN checkInterval + d
                  ELSE IF wait < d THEN d ELSE wait

\* Variant of Skip: no request for a next check.
SkipForGood ==
    /\ TooEarly \/ ~Allowed
    /\ queued' = (queued /\ wait > 0) /\ UNCHANGED <<wait, age, aimed>>

\* Nothing is done, and the status is left alone.
Skip ==
    /\ TooEarly \/ ~Allowed
    /\ Requeue
    /\ UNCHANGED <<age, aimed>>

\* Variant of Update: the time of the check is not stored.
UpdateUnstamped ==
    /\ ~TooEarly /\ Allowed
    /\ UNCHANGED age /\ aimed' = aimed \cup Soon
    /\ Requeue

\* Past the gate: the chart is looked up and the time of the check stored.
Update ==
    /\ ~TooEarly /\ Allowed
    /\ age' = 0 /\ aimed' = aimed \cup Soon
    /\ Requeue

\* A call of Reconcile when its request is due ...
Check == /\ queued /\ wait = 0
         /\ Skip \/ Update
         /\ UNCHANGED <<config, phase>>

\* ... or on an event: a change of the CR or of a dependent resource, between
\* two calls.
Event == /\ ~queued \/ wait \in 1..checkInterval
         /\ Skip \/ Update
         /\ UNCHANGED <<config, phase>>

Pass ==
    /\ ~queued \/ wait > 0
    /\ phase' = (phase + 1) % Day
    /\ age' = IF age < Old THEN age + 1 ELSE age
    /\ wait' = IF queued THEN wait - 1 ELSE wait
    /\ aimed' = {d - 1 : d \in aimed \ {1}}
    /\ UNCHANGED <<config, queued>>

\* The operator starts: the CR is in the queue, and was never checked.
\* Crontab lines fire at even times, the operator starts at an odd one: a
\* prompt check never falls on the very nanosecond of a firing.
Init ==
    /\ window \in Windows
    /\ checkInterval \in Intervals(CheckEnvs, DefaultCheckInterval)
    /\ updateInterval \in Intervals(UpdateEnvs, DefaultUpdateInterval)
    /\ slack \in Slacks
    /\ phase \in {p \in 0..Day-1 : p % 2 = 1}
    /\ age = Old /\ queued = TRUE /\ wait = 0 /\ aimed = {}

Next == Check \/ Event \/ Pass

Spec == Init /\ [][Next]_vars

\* Time passes and a request that is due is handled.
FairSpec == Spec /\ WF_vars(Check) /\ WF_vars(Pass)

-----------------------------------------------------------------------------

TypeOK ==
    /\ window \in Windows /\ slack \in Slacks
    /\ checkInterval \in Nat /\ updateInterval \in Nat
    /\ phase \in 0..Day-1 /\ age \in 0..Old
    /\ wait \in Nat /\ queued \in BOOLEAN
    /\ aimed \subseteq 1..checkInterval - 1

\* An opening of the window starts at most one update, whatever events call
\* Reconcile in the meantime, provided updates are not allowed to be closer
\* than checks (reconcile_update.go:71-81, update_window.go:80-90).
OneUpdatePerOpening ==
    [][Update /\ checkInterval <= updateInterval => aimed \cap Soon = {}]_vars

\* No opening of the window passes while the last check is older than both
\* intervals together, if the next run is where Allowed presumes it: the
\* check before the opening is never too early as well
\* (update_window.go:80-90: "nextRunTime is when the reconcile loop will be
\* run next").
PromptChecksMissNothing ==
    [][Pass /\ slack = 0 /\ checkInterval > 0 /\ Timed /\ Fires(1) => age' < Old]_vars

\* Automatic updates go on forever: with a window that opens and checks that
\* are prompt, the last check never stays old for good, neither because the
\* requests peter out nor because the two gates exclude each other
\* (reconcile_update.go:71-81).
UpdatesGoOn ==
    slack = 0 /\ checkInterval > 1 /\ (window = {} \/ (Timed /\ \E d \in 1..Day : Fires(d)))
    => []<>(age = 0)
=============================================================================
