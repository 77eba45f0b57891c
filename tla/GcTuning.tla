------------------------------ MODULE GcTuning ------------------------------
(***************************************************************************)
(* fastraml/gctuning.py: deferring full garbage collections while an       *)
(* operation runs.  The collector's thresholds belong to the process: any  *)
(* number of operations (spans of tuned_gc, nested in one thread or run by *)
(* several) share one change of them with a host that takes no lock.       *)
(*                                                                         *)
(* A threshold triple is a record: `young` stands for the two young        *)
(* thresholds, `full` for the one of generation 2.                         *)
(***************************************************************************)
EXTENDS Integers, FiniteSets

CONSTANTS
    Spans,          \* operations that may run under tuned_gc
    Young,          \* values of the young thresholds
    Fulls,          \* generation 2 thresholds the host may choose
    FullCollectionThreshold,
    Nobody,         \* the lock's holder when it is free
    None            \* Python's None, for _saved and _ours

ASSUME SpansAssumption == IsFiniteSet(Spans) /\ Nobody \notin Spans
ASSUME ThresholdAssumption == Fulls \subseteq Nat /\ FullCollectionThreshold \in Nat

Thresholds == [young : Young, full : Fulls \cup {FullCollectionThreshold}]
HostThresholds == [young : Young, full : Fulls]

ASSUME NoneAssumption == None \notin Thresholds

VARIABLES
    threshold,      \* gc.get_threshold()
    gcEnabled,      \* gc.isenabled()
    enabled,        \* _enabled
    depth,          \* _depth
    saved,          \* _saved
    ours,           \* _ours
    lock,           \* who is inside _lock between two calls of gc
    current,        \* the local `current` of the span inside _enter
    pc,             \* where each span is
    host,           \* ghost: the thresholds the host last asked for
    blurred         \* ghost: the host made a change _leave cannot tell from
                    \* ours, or landed between a read and a write of ours

tuning == <<enabled, depth, saved, ours, lock, current, pc>>
tuningVars == <<threshold, gcEnabled, enabled, depth, saved, ours, lock, current,
                pc, host, blurred>>

Tuned(th) == [th EXCEPT !.full = FullCollectionThreshold]
Running == {s \in Spans : pc[s] \in {"running", "leaving"}}

TypeOK ==
    /\ threshold \in Thresholds /\ host \in HostThresholds
    /\ gcEnabled \in BOOLEAN /\ enabled \in BOOLEAN /\ blurred \in BOOLEAN
    /\ depth \in Nat
    /\ saved \in Thresholds \cup {None} /\ ours \in Thresholds \cup {None}
    /\ current \in Thresholds
    /\ lock \in Spans \cup {Nobody}
    /\ pc \in [Spans -> {"idle", "entering", "raising",
                         "running", "leaving", "restoring"}]

TuningInit ==
    /\ host \in HostThresholds /\ threshold = host /\ current = host
    /\ gcEnabled \in BOOLEAN /\ enabled = TRUE
    /\ depth = 0 /\ saved = None /\ ours = None
    /\ lock = Nobody /\ blurred = FALSE
    /\ pc = [s \in Spans |-> "idle"]
-----------------------------------------------------------------------------
(* FastRAML's side.                                                        *)

(* tuned_gc reads _enabled outside the lock; an operation begun while      *)
(* tuning is off changes nothing here, on entry or on exit.                *)
Begin(s) ==
    /\ pc[s] = "idle" /\ enabled
    /\ pc' = [pc EXCEPT ![s] = "entering"]
    /\ UNCHANGED <<threshold, gcEnabled, enabled, depth, saved, ours, lock,
                   current, host, blurred>>

(* Mutant of FirstToRaise: "only ever raise" is forgotten.                 *)
FirstToSet == depth = 0 /\ gcEnabled

FirstToRaise ==
    depth = 0 /\ gcEnabled /\ threshold.full < FullCollectionThreshold

(* _enter up to the call of gc.set_threshold, or to its end when there is  *)
(* nothing to raise.                                                       *)
Enter(s) ==
    /\ pc[s] = "entering" /\ lock = Nobody
    /\ \/ /\ FirstToRaise
          /\ lock' = s /\ current' = threshold
          /\ pc' = [pc EXCEPT ![s] = "raising"]
          /\ UNCHANGED depth
       \/ /\ ~FirstToRaise
          /\ depth' = depth + 1
          /\ pc' = [pc EXCEPT ![s] = "running"]
          /\ UNCHANGED <<lock, current>>
    /\ UNCHANGED <<threshold, gcEnabled, enabled, saved, ours, host, blurred>>

(* Mutant of Raise: the operation that raises is not counted.              *)
RaiseUncounted(s) ==
    /\ pc[s] = "raising"
    /\ threshold' = Tuned(current)
    /\ saved' = current /\ ours' = Tuned(current) /\ lock' = Nobody
    /\ pc' = [pc EXCEPT ![s] = "running"]
    /\ UNCHANGED <<gcEnabled, enabled, depth, current, host, blurred>>

(* The rest of _enter, still under _lock.                                  *)
Raise(s) ==
    /\ pc[s] = "raising"
    /\ threshold' = Tuned(current)
    /\ saved' = current /\ ours' = Tuned(current)
    /\ depth' = depth + 1 /\ lock' = Nobody
    /\ pc' = [pc EXCEPT ![s] = "running"]
    /\ UNCHANGED <<gcEnabled, enabled, current, host, blurred>>

(* The operation returned or raised: the `finally` of tuned_gc.            *)
Finish(s) ==
    /\ pc[s] = "running"
    /\ pc' = [pc EXCEPT ![s] = "leaving"]
    /\ UNCHANGED <<threshold, gcEnabled, enabled, depth, saved, ours, lock,
                   current, host, blurred>>

(* Mutant of NothingToRestore: the first to leave restores.                *)
NothingSaved == saved = None

NothingToRestore == depth # 1 \/ saved = None

(* Mutant of Leave: what the host changed meanwhile is restored over.      *)
LeaveOverHost(s) ==
    /\ pc[s] = "leaving" /\ lock = Nobody
    /\ depth' = depth - 1
    /\ IF NothingToRestore
       THEN pc' = [pc EXCEPT ![s] = "idle"] /\ UNCHANGED lock
       ELSE pc' = [pc EXCEPT ![s] = "restoring"] /\ lock' = s
    /\ UNCHANGED <<threshold, gcEnabled, enabled, saved, ours, current, host,
                   blurred>>

(* _leave up to the comparison with _ours.                                 *)
Leave(s) ==
    /\ pc[s] = "leaving" /\ lock = Nobody
    /\ depth' = depth - 1
    /\ \/ /\ NothingToRestore
          /\ pc' = [pc EXCEPT ![s] = "idle"]
          /\ UNCHANGED <<saved, ours, lock>>
       \/ /\ ~NothingToRestore /\ threshold # ours
          /\ saved' = None /\ ours' = None
          /\ pc' = [pc EXCEPT ![s] = "idle"]
          /\ UNCHANGED lock
       \/ /\ ~NothingToRestore /\ threshold = ours
          /\ lock' = s
          /\ pc' = [pc EXCEPT ![s] = "restoring"]
          /\ UNCHANGED <<saved, ours>>
    /\ UNCHANGED <<threshold, gcEnabled, enabled, current, host, blurred>>

Restore(s) ==
    /\ pc[s] = "restoring"
    /\ threshold' = saved
    /\ saved' = None /\ ours' = None /\ lock' = Nobody
    /\ pc' = [pc EXCEPT ![s] = "idle"]
    /\ UNCHANGED <<gcEnabled, enabled, depth, current, host, blurred>>

(* set_gc_tuning: no lock, and no effect on what is running.               *)
SetGcTuning ==
    /\ enabled' = ~enabled
    /\ UNCHANGED <<threshold, gcEnabled, depth, saved, ours, lock, current, pc,
                   host, blurred>>
-----------------------------------------------------------------------------
(* The host's side: gc calls at any moment, _lock unknown to it.           *)

(* gc.set_threshold(a, b, c) *)
HostSets(th) ==
    /\ threshold' = th /\ host' = th
    /\ blurred' = (lock # Nobody \/ th = ours)
    /\ UNCHANGED <<tuning, gcEnabled>>

(* gc.set_threshold(a) or (a, b): generation 2 keeps its threshold.        *)
HostSetsYoung(y) ==
    LET th == [threshold EXCEPT !.young = y] IN
    /\ th # threshold
    /\ threshold' = th /\ host' = [host EXCEPT !.young = y]
    /\ blurred' = (blurred \/ lock # Nobody \/ th = ours \/ threshold = ours)
    /\ UNCHANGED <<tuning, gcEnabled>>

(* gc.enable() and gc.disable() *)
HostSwitches ==
    /\ gcEnabled' = ~gcEnabled
    /\ UNCHANGED <<tuning, threshold, host, blurred>>

SpanStep(s) ==
    Begin(s) \/ Enter(s) \/ Raise(s) \/ Finish(s) \/ Leave(s) \/ Restore(s)
TuningNext ==
    \/ \E s \in Spans : SpanStep(s)
    \/ SetGcTuning
    \/ \E th \in HostThresholds : HostSets(th)
    \/ \E y \in Young : HostSetsYoung(y)
    \/ HostSwitches

TuningSpec == TuningInit /\ [][TuningNext]_tuningVars
-----------------------------------------------------------------------------
(* Properties.                                                             *)

(* Once the last operation has left, the process has the thresholds the    *)
(* host last asked for, however the operations overlapped and whatever the *)
(* host changed while they ran (_leave, gctuning.py:83-91).                *)
HostThresholdsBack ==
    lock = Nobody /\ Running = {} /\ ~blurred => threshold = host

(* FastRAML never lowers the host's generation 2 threshold and never       *)
(* touches the young ones (gctuning.py:9-14).                              *)
OnlyRaises ==
    ~blurred => /\ threshold.full >= host.full
                /\ threshold.young = host.young

(* The first of two overlapping operations to finish does not restore      *)
(* under the other: while one keeps running, no step of an operation       *)
(* changes the thresholds (gctuning.py:16-17).                             *)
NoRestoreUnderAnother ==
    [][Running \cap Running' # {} /\ pc' # pc => threshold' = threshold]_tuningVars
=============================================================================
