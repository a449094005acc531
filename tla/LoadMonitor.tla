----------------------------- MODULE LoadMonitor -----------------------------
(***************************************************************************)
(* The job-latency monitor of src/mtchain/core/impl/LoadMonitor.cpp and    *)
(* the scoped samples of src/mtchain/core/LoadEvent.h.  The monitor keeps  *)
(* four counters scaled by 4 that decay by a quarter per elapsed second:   *)
(* sample count, latency events, summed latency and peak latency.  Each    *)
(* public call takes the mutex and first brings the counters up to the    *)
(* current uptime second (update()).  A LoadEvent measures one job: time  *)
(* before start() is waiting, time from start() to stop() is running, and *)
(* stop() hands the total to addLoadSample.                                *)
(*                                                                         *)
(* Durations are in milliseconds and are inputs of the steps that measure *)
(* them; the uptime clock is in seconds.                                   *)
(***************************************************************************)
EXTENDS Integers

CONSTANTS
    Events,      \* LoadEvent objects
    Durations,   \* milliseconds one measured interval may take
    Targets,     \* target latencies setTargetLatency may be given
    MaxTime,     \* bound: uptime seconds
    MaxGap,      \* bound: seconds the clock may skip between two calls
    MaxSamples,  \* bound: samples added
    MaxMs,       \* bound: milliseconds one event may measure
    None

VARIABLES
    mCounts, mLatencyEvents, mLatencyMSAvg, mLatencyMSPeak, mLastUpdate,
    mTargetLatencyAvg, mTargetLatencyPk,
    now,         \* UptimeTimer::getElapsedSeconds()
    ev,          \* ev[e]: [state, waiting, running] of LoadEvent e
    samples,     \* samples added so far (bound)
    fresh,       \* latency of the last sample, while the second it was
                 \* added in lasts (history)
    pending      \* the targets of a setTargetLatency call half done, or None

monitor == <<mCounts, mLatencyEvents, mLatencyMSAvg, mLatencyMSPeak, mLastUpdate>>
vars == <<monitor, mTargetLatencyAvg, mTargetLatencyPk, now, ev, samples, fresh,
          pending>>

AsRecord == [counts |-> mCounts, events |-> mLatencyEvents, avg |-> mLatencyMSAvg,
             peak |-> mLatencyMSPeak, last |-> mLastUpdate]

(* The counters after n seconds of decay: counts round their loss up,     *)
(* latencies round it down.                                               *)
RECURSIVE Decay(_, _)
Decay(m, n) ==
    IF n = 0 THEN m
    ELSE Decay([m EXCEPT !.last = @ + 1,
                         !.counts = @ - (@ + 3) \div 4,
                         !.events = @ - (@ + 3) \div 4,
                         !.avg = @ - @ \div 4,
                         !.peak = @ - @ \div 4], n - 1)

(* LoadMonitor::update: nothing in the same second; a reset when the      *)
(* clock went back or skipped more than 8 seconds; else one decay step    *)
(* per elapsed second.                                                    *)
update(m, t) ==
    IF t = m.last THEN m
    ELSE IF t < m.last \/ t > m.last + 8
    THEN [counts |-> 0, events |-> 0, avg |-> 0, peak |-> 0, last |-> t]
    ELSE Decay(m, t - m.last)

(* Mutant of addSamples: the peak candidate is not scaled by 4. *)
addSamplesUnscaled(m, count, latency) ==
    LET u == update(m, now)
        v == [u EXCEPT !.counts = @ + count, !.events = @ + count,
                       !.avg = @ + latency, !.peak = @ + latency]
        latencyPeak == (v.events * latency) \div count
    IN IF v.peak < latencyPeak THEN [v EXCEPT !.peak = latencyPeak] ELSE v

(* LoadMonitor::addSamples: update, add the samples to every counter, and *)
(* raise the peak to what the new sample would give alone.                *)
addSamples(m, count, latency) ==
    LET u == update(m, now)
        v == [u EXCEPT !.counts = @ + count, !.events = @ + count,
                       !.avg = @ + latency, !.peak = @ + latency]
        latencyPeak == (v.events * latency * 4) \div count
    IN IF v.peak < latencyPeak THEN [v EXCEPT !.peak = latencyPeak] ELSE v

(* addLoadSample: a total under 2 ms is jitter and counts as 0. *)
Latency(total) == IF total < 2 THEN 0 ELSE total

(* isOverTarget: a zero target is no target. *)
isOverTarget(avg, peak) ==
    \/ mTargetLatencyPk # 0 /\ peak > mTargetLatencyPk
    \/ mTargetLatencyAvg # 0 /\ avg > mTargetLatencyAvg

(* The average and peak per event that isOver and getStats report. *)
ReportedAvg(m) == IF m.events = 0 THEN 0 ELSE m.avg \div (m.events * 4)
ReportedPeak(m) == IF m.events = 0 THEN 0 ELSE m.peak \div (m.events * 4)

SetCounters(m) ==
    /\ mCounts' = m.counts /\ mLatencyEvents' = m.events
    /\ mLatencyMSAvg' = m.avg /\ mLatencyMSPeak' = m.peak
    /\ mLastUpdate' = m.last

-----------------------------------------------------------------------------
(* LoadEvent's constructor: running at once, or waiting for start(). *)
Create(e, shouldStart) ==
    /\ ev[e].state = "none"
    /\ ev' = [ev EXCEPT ![e] = [state |-> IF shouldStart THEN "running" ELSE "waiting",
                                waiting |-> 0, running |-> 0]]
    /\ UNCHANGED <<monitor, mTargetLatencyAvg, mTargetLatencyPk, now, samples, fresh, pending>>

(* start(): the time since the last mark is waiting, even when the event  *)
(* was already running. *)
Start(e, d) ==
    /\ ev[e].state \in {"waiting", "running"}
    /\ ev[e].waiting + ev[e].running + d <= MaxMs
    /\ ev' = [ev EXCEPT ![e].state = "running", ![e].waiting = @ + d]
    /\ UNCHANGED <<monitor, mTargetLatencyAvg, mTargetLatencyPk, now, samples, fresh, pending>>

(* stop() (also run by the destructor of a running event): the time since *)
(* the mark is running time, and the monitor gets the sample.             *)
Stop(e, d) ==
    /\ ev[e].state = "running"
    /\ samples < MaxSamples
    /\ ev[e].waiting + ev[e].running + d <= MaxMs
    /\ LET latency == Latency(ev[e].waiting + ev[e].running + d)
       IN /\ SetCounters(addSamples(AsRecord, 1, latency))
          /\ fresh' = latency
    /\ ev' = [ev EXCEPT ![e].state = "waiting", ![e].running = @ + d]
    /\ samples' = samples + 1
    /\ UNCHANGED <<mTargetLatencyAvg, mTargetLatencyPk, now, pending>>

(* The destructor of an event that is not running. *)
Destroy(e) ==
    /\ ev[e].state = "waiting"
    /\ ev' = [ev EXCEPT ![e] = [state |-> "none", waiting |-> 0, running |-> 0]]
    /\ UNCHANGED <<monitor, mTargetLatencyAvg, mTargetLatencyPk, now, samples, fresh, pending>>

Pair(avg, pk) == [avg |-> avg, pk |-> pk]

(* isOver() and getStats(): both run update() under the mutex first, then *)
(* test the average and peak per event against the targets as they are   *)
(* (isOver returns false with no events, when both are 0 anyway).         *)
Read ==
    /\ SetCounters(update(AsRecord, now))
    /\ UNCHANGED <<mTargetLatencyAvg, mTargetLatencyPk, now, ev, samples, fresh, pending>>

IsOver ==
    LET u == update(AsRecord, now) IN isOverTarget(ReportedAvg(u), ReportedPeak(u))

(* setTargetLatency writes the two targets without the mutex: a reader    *)
(* can run between the writes, and as the writes race with its reads the  *)
(* build may make either visible first.  One call at a time.              *)
SetTargetFirst(avg, pk, avgFirst) ==
    /\ pending = None
    /\ pending' = Pair(avg, pk)
    /\ IF avgFirst THEN mTargetLatencyAvg' = avg /\ UNCHANGED mTargetLatencyPk
                   ELSE mTargetLatencyPk' = pk /\ UNCHANGED mTargetLatencyAvg
    /\ UNCHANGED <<monitor, now, ev, samples, fresh>>

SetTargetSecond ==
    /\ pending # None
    /\ mTargetLatencyAvg' = pending.avg /\ mTargetLatencyPk' = pending.pk
    /\ pending' = None
    /\ UNCHANGED <<monitor, now, ev, samples, fresh>>

(* The uptime clock moves on by one to MaxGap seconds. *)
Tick(n) ==
    /\ now + n <= MaxTime
    /\ now' = now + n
    /\ fresh' = None
    /\ UNCHANGED <<monitor, mTargetLatencyAvg, mTargetLatencyPk, ev, samples, pending>>

Init ==
    /\ mCounts = 0 /\ mLatencyEvents = 0 /\ mLatencyMSAvg = 0 /\ mLatencyMSPeak = 0
    /\ mLastUpdate = 0 /\ now = 0
    /\ mTargetLatencyAvg = 0 /\ mTargetLatencyPk = 0
    /\ ev = [e \in Events |-> [state |-> "none", waiting |-> 0, running |-> 0]]
    /\ samples = 0 /\ fresh = None
    /\ pending = None

Next ==
    \/ \E e \in Events :
          \/ \E s \in BOOLEAN : Create(e, s)
          \/ \E d \in Durations : Start(e, d) \/ Stop(e, d)
          \/ Destroy(e)
    \/ Read
    \/ \E avg, pk \in Targets, avgFirst \in BOOLEAN : SetTargetFirst(avg, pk, avgFirst)
    \/ SetTargetSecond
    \/ \E n \in 1..MaxGap : Tick(n)

Spec == Init /\ [][Next]_vars

-----------------------------------------------------------------------------
(* The peak per event that isOver() and getStats() read right after a     *)
(* sample, in the same second, is at least that sample's latency: a slow  *)
(* job is reported at once, whatever came before it in the second.        *)
FreshSampleInPeak ==
    fresh # None => ReportedPeak(update(AsRecord, now)) >= fresh

=============================================================================
