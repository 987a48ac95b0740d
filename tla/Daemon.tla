------------------------------- MODULE Daemon --------------------------------
(***************************************************************************)
(* The daemon's main loop, src/src/spktrace.c: two signal flags, the       *)
(* configuration it reloads and the copy each iteration works from, and    *)
(* the pipeline collect, push, evaluate, filter, dump.                     *)
(*                                                                         *)
(* One thread runs the loop; the signal handlers interrupt it between any  *)
(* two of its steps, and the administrator edits the configuration file    *)
(* at any time.  The steps are cut where the code reads or writes a flag,  *)
(* the file or the active configuration.  The snapshot buffer is the list  *)
(* that RingBuf implements; the detector is Detection.  A dump is what     *)
(* spike_dump_write puts into the document; how it reaches the disk, and   *)
(* the cleanup that ends an iteration, are Spool's.                        *)
(***************************************************************************)
EXTENDS Detection, SnapshotList

CONSTANTS
    Settings,       \* what the configuration file may hold, once validated
    Collected,      \* what a collection may return: samples, listed, mem
    MaxWritten,     \* SPIKE_DUMP_MAX_SNAPSHOTS, 10 in the code
    MaxNow,         \* bound: snapshots that matter
    MaxEdits        \* bound: edits of the configuration file

ASSUME CapacityAssumption == Capacity \in Nat \ {0}
ASSUME WrittenAssumption == MaxWritten \in Nat \ {0}
\* MIN_CONTEXT_SNAPSHOTS_PER_DUMP
ASSUME SettingsAssumption ==
    \A cfg \in Settings : cfg.context_snapshots_per_dump \in Nat \ {0}

VARIABLES
    pc,         \* where the loop stands
    shutdown_requested, config_reload_requested,
    file,       \* the configuration file
    edits,      \* edits made to it, for the bound
    active,     \* active_config
    captured,   \* the values this iteration copied from it
    detector,   \* anomaly_state
    recent,     \* the ring buffer, newest first
    now,        \* the timestamp of the newest snapshot
    dump,       \* the last dump, << >> before the first
    sinceHup,   \* history: samples taken while a SIGHUP waited
    basis       \* history: configurations the detector's state was built under

flags == <<shutdown_requested, config_reload_requested>>
loop == <<active, captured, detector, recent, now, dump>>
history == <<sinceHup, basis>>
vars == <<pc, flags, file, edits, loop, history>>

\* The handlers are installed before the first load_config, so a SIGHUP that
\* comes during it is served by the first iteration.
Init ==
    /\ pc = "load_config"
    /\ shutdown_requested = FALSE /\ config_reload_requested = FALSE
    /\ file \in Settings /\ edits = 0
    /\ active = file /\ captured = file
    /\ detector = InitialState
    /\ recent = << >> /\ now = 0 /\ dump = << >>
    /\ sinceHup = 0 /\ basis = {}

-------------------------------------------------------------------------------
(* The environment: signal_handler, sighup_handler, an edit of the file.    *)

Terminate ==
    /\ shutdown_requested' = TRUE
    /\ UNCHANGED <<pc, config_reload_requested, file, edits, loop, history>>

Hup ==
    /\ config_reload_requested' = TRUE
    /\ UNCHANGED <<pc, shutdown_requested, file, edits, loop, history>>

Edit(settings) ==
    /\ edits < MaxEdits
    /\ file' = settings /\ edits' = edits + 1
    /\ UNCHANGED <<pc, flags, loop, history>>

-------------------------------------------------------------------------------
(* The loop                                                                 *)

Start ==
    /\ pc = "load_config"
    /\ active' = file
    /\ pc' = "while"
    /\ UNCHANGED <<flags, file, edits, captured, detector, recent, now, dump, history>>

CheckShutdown ==
    /\ pc = "while"
    /\ pc' = IF shutdown_requested THEN "stopped" ELSE "check_reload"
    /\ UNCHANGED <<flags, file, edits, loop, history>>

CheckReload(clears) ==
    /\ pc = "check_reload"
    /\ IF config_reload_requested
       THEN pc' = "reload" /\ config_reload_requested' = ~clears
       ELSE pc' = "capture" /\ UNCHANGED config_reload_requested
    /\ UNCHANGED <<shutdown_requested, file, edits, loop, history>>

\* reload_config.  config_load fills in defaults for whatever it cannot
\* read, and validation repairs the rest: it does not fail.
LoadFile ==
    /\ pc = "reload"
    /\ active' = file
    /\ sinceHup' = 0
    /\ pc' = "reset"
    /\ UNCHANGED <<flags, file, edits, captured, detector, recent, now, dump,
                   basis>>

\* The detector starts afresh; the process baselines are kept.
Reset(state, clears) ==
    /\ pc = "reset"
    /\ detector' = state
    /\ basis' = IF state = InitialState THEN {} ELSE basis
    /\ config_reload_requested' = IF clears THEN FALSE ELSE config_reload_requested
    /\ pc' = "capture"
    /\ UNCHANGED <<shutdown_requested, file, edits, active, captured, recent, now,
                   dump, sinceHup>>

\* Mutants: the flag is cleared after the reload; the detector is not reset.
ReloadClearingLast == CheckReload(FALSE) \/ LoadFile \/ Reset(InitialState, TRUE)
ReloadKeepingState == CheckReload(TRUE) \/ LoadFile \/ Reset(detector, FALSE)

\* The flag is cleared before the file is read, and the detector reset after.
Reload == CheckReload(TRUE) \/ LoadFile \/ Reset(InitialState, FALSE)

Capture ==
    /\ pc = "capture"
    /\ captured' = active
    /\ pc' = "sleep"
    /\ UNCHANGED <<flags, file, edits, active, detector, recent, now, dump, history>>

\* Mutant: a sleep cut short by a signal is resumed.
WakeResuming ==
    /\ pc = "sleep"
    /\ pc' = IF shutdown_requested THEN "sleep" ELSE "sample"
    /\ UNCHANGED <<flags, file, edits, loop, history>>

\* A sleep ends at its interval or at a signal.  Afterwards the loop looks at
\* the shutdown flag again, and not at the reload flag.
Wake ==
    /\ pc = "sleep"
    /\ pc' = IF shutdown_requested THEN "stopped" ELSE "sample"
    /\ UNCHANGED <<flags, file, edits, loop, history>>

Enabled(cfg) ==
    (IF cfg.enable_cpu THEN {"CPU_DELTA", "CPU_NEW_PROC"} ELSE {})
    \union (IF cfg.enable_memory THEN {"MEM_DROP", "MEM_PRESSURE"} ELSE {})
    \union (IF cfg.enable_swap THEN {"SWAP_SPIKE"} ELSE {})

\* The snapshot that a collection makes, with the processes it lists.
SnapshotOf(c, at) ==
    [at |-> at,
     procs |-> {[pid |-> c.samples[i].pid, cpu |-> c.samples[i].cpu_pct] :
                   i \in {j \in DOMAIN c.samples : c.samples[j].pid \in c.listed}}]

\* Half the threshold for a new process, 1% otherwise (cpu and threshold are
\* doubled to stay integers).
BurnsIn(snapshot, result, cfg) ==
    \E p \in snapshot.procs :
        /\ p.pid = result.spike_pid
        /\ 2 * p.cpu >= IF result.type = "CPU_NEW_PROC"
                        THEN cfg.new_process_threshold_pct ELSE 2

OriginFrom(ring, result, cfg) ==
    LET Hot(s) == BurnsIn(s, result, cfg)
    IN  (CHOOSE k \in 0..Len(ring) : IsStreak(ring, Hot, k)) - 1

\* Mutant: an origin before the context is kept.
OriginUnclamped(ring, count, result, cfg) ==
    LET origin == OriginFrom(ring, result, cfg)
    IN  IF origin >= 0 THEN origin ELSE 0

\* origin_snapshot_idx: 0 when the streak began before the dump's context.
Origin(ring, count, result, cfg) ==
    LET origin == OriginFrom(ring, result, cfg)
    IN  IF origin >= 0 /\ origin < count THEN origin ELSE 0

ContextSize(cfg) == Smaller(cfg.context_snapshots_per_dump, Capacity)

\* The origin is sought in the context that the settings ask for, of which
\* spike_dump_write writes no more than its own limit.
DumpOf(ring, result, cfg) ==
    LET context == Newest(ring, ContextSize(cfg))
    IN  [result |-> result, config |-> cfg, window |-> Newest(context, MaxWritten),
         origin |-> Origin(ring, Len(context), result, cfg)]

Evaluated(collected) ==
    IF Enabled(captured) = {}
    THEN [state |-> detector, result |-> None]
    ELSE Evaluate(captured, detector, collected.samples, collected.mem, now + 1)

\* Collect, push, evaluate, filter by the enabled types and dump.
Process(collected, windowOf) ==
    LET ring == Remember(recent, SnapshotOf(collected, now + 1))
        e == Evaluated(collected)
    IN /\ recent' = ring
       /\ detector' = e.state
       /\ now' = now + 1
       /\ dump' = IF e.result.type \in Enabled(captured)
                  THEN <<DumpOf(IF windowOf = "pushed" THEN ring ELSE recent,
                                e.result, captured)>>
                  ELSE dump

\* Mutant: the flags are only looked at before the loop.
AfterSampleInside ==
    /\ pc' = "capture"
    /\ basis' = IF Enabled(captured) = {} THEN basis ELSE basis \union {captured}
    /\ sinceHup' = IF config_reload_requested THEN sinceHup + 1 ELSE sinceHup
    /\ UNCHANGED <<flags, file, edits, active, captured>>

AfterSample ==
    /\ pc' = "while"
    /\ basis' = IF Enabled(captured) = {} THEN basis ELSE basis \union {captured}
    /\ sinceHup' = IF config_reload_requested THEN sinceHup + 1 ELSE sinceHup
    /\ UNCHANGED <<flags, file, edits, active, captured>>

\* Mutant: the context is taken before the snapshot is pushed.
SampleBeforePush(collected) ==
    /\ pc = "sample" /\ now < MaxNow
    /\ Process(collected, "before")
    /\ AfterSample

Sample(collected) ==
    /\ pc = "sample" /\ now < MaxNow
    /\ Process(collected, "pushed")
    /\ AfterSample

\* Past the bound the loop goes on with samples that change nothing.
SampleBeyondBound ==
    /\ pc = "sample" /\ now = MaxNow
    /\ pc' = "while"
    /\ UNCHANGED <<flags, file, edits, loop, history>>

Stopped ==
    /\ pc = "stopped"
    /\ UNCHANGED vars

Step ==
    \/ Start \/ CheckShutdown \/ Reload \/ Capture \/ Wake
    \/ \E collected \in Collected : Sample(collected)
    \/ SampleBeyondBound

Next ==
    \/ Step
    \/ Terminate \/ Hup \/ \E settings \in Settings : Edit(settings)
    \/ Stopped

\* The scheduler runs the daemon, and a sleep is bounded by
\* sampling_interval_seconds.  Nothing is assumed of signals and edits.
Spec == Init /\ [][Next]_vars /\ WF_vars(Step)
-------------------------------------------------------------------------------
\* A SIGHUP cuts the sleep short but the iteration goes on with the values it
\* copied before: at most one sample is taken under the old configuration.
ReloadIsPrompt == sinceHup <= 1

\* No cooldown or baseline outlives the configuration it was built under: what
\* the detector judges by is the work of one configuration.
DetectorOfOneConfig == \A a, b \in basis \union (IF pc = "sample" THEN {captured} ELSE {}) : a = b

\* The origin a document names is where a streak of the process burning, up to
\* the newest snapshot, was seen: each snapshot written from there on shows it
\* (0 may also mean that none does).  It is one of those written whenever the
\* context asked for is no longer than what is written; otherwise see
\* OriginIsWritten.
OriginIsStreak ==
    \A i \in 1..Len(dump) :
        LET d == dump[i] IN
        /\ ContextSize(d.config) <= MaxWritten => d.origin \in 0..(Len(d.window) - 1)
        /\ d.origin > 0 =>
              \A j \in 1..Smaller(d.origin + 1, Len(d.window)) :
                  BurnsIn(d.window[j], d.result, d.config)

\* include/anomaly_detector.h:102: the origin is an "index in dump array", so a
\* place among the snapshots the document holds, whatever the context.
OriginIsWritten ==
    \A i \in 1..Len(dump) : dump[i].origin \in 0..(Len(dump[i].window) - 1)

\* Whatever signals and edits surround it, a dump is of a type that the
\* settings in force when it is written enable, and the newest snapshot in it
\* is the one just collected.
DumpsAreAskedFor ==
    [][dump' # dump =>
          LET d == dump'[1]
          IN  /\ d.result.type \in Enabled(active)
              /\ d.window # << >> /\ d.window[1].at = now']_vars

\* No SIGHUP is lost: what the file holds when one arrives is what the daemon
\* comes to run with, unless the file changes again or the daemon stops.
NoLostReload ==
    \A s \in Settings :
        (config_reload_requested /\ file = s) ~> (active = s \/ file # s \/ pc = "stopped")

\* SIGTERM and SIGINT end the loop.
ShutdownTerminates == shutdown_requested ~> pc = "stopped"

==============================================================================
