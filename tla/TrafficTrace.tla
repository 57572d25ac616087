---------------------------- MODULE TrafficTrace ----------------------------
(***************************************************************************)
(* include/traffic_models/traffic_generator.h: the traffic of a simulated  *)
(* UE replayed from a file of records "time bytes".  generate_dl(t) (and   *)
(* generate_ul, its twin) reads the file until it has gone past t and      *)
(* returns the bits that are due; at the end of the file it starts again,  *)
(* shifting the times by t_acc.                                            *)
(*                                                                         *)
(* One action is one iteration of its loop.  The record read last is       *)
(* `pending' when its time is still ahead: the next call counts it.        *)
(* Clock values are multiples of a step; the offset `delay' of a UE only   *)
(* moves the origin of the clock and is 0 here.  t_acc is a float in the   *)
(* code, so a shift keeps 24 bits only and the records of a late replay    *)
(* may come early or late by what was rounded away; here it is exact.      *)
(***************************************************************************)
EXTENDS PacketBits, SequencesExt, FiniteSets

CONSTANTS
    Trace      \* the records of the file, in order: [t |-> time, bytes |-> size]

\* the files of scripts/trafficGenerator.py: sorted, of some length in time
ASSUME TraceAssumption ==
    /\ Trace \in Seq([t : Nat, bytes : Nat])
    /\ Trace # <<>>
    /\ \A i, j \in DOMAIN Trace : i < j => Trace[i].t <= Trace[j].t
    /\ Last(Trace).t > 0

VARIABLES
    records,   \* records read since the start of the file
    last_t, last_tp, t_acc,
    total_tp   \* the result of the call under way, in bytes

file == <<records, last_t, last_tp, t_acc, total_tp>>

TraceInit == records = 0 /\ last_t = 0 /\ last_tp = 0 /\ t_acc = 0 /\ total_tp = 0

\* fault: a record read ahead of its time is not counted when it is due
CallAfresh(t) ==
    /\ total_tp' = 0
    /\ UNCHANGED <<records, last_t, last_tp, t_acc>>

(* generate(t) begins: the pending record may be due now *)
Call(t) ==
    /\ total_tp' = IF last_t <= t THEN last_tp ELSE 0
    /\ UNCHANGED <<records, last_t, last_tp, t_acc>>

(* a record has been read: it is compared by its own time and shifted after *)
Take(r, t, shift) ==
    /\ last_tp' = r.bytes
    /\ last_t' = IF r.t <= t THEN r.t + shift ELSE r.t
    /\ total_tp' = IF r.t <= t THEN total_tp + r.bytes ELSE total_tp

ReadRecord(t) ==
    /\ last_t <= t
    /\ records < Len(Trace)
    /\ records' = records + 1
    /\ Take(Trace[records + 1], t, t_acc)
    /\ UNCHANGED t_acc

(* the end of the file: reset_file, and the first record again *)
Rewind(t) ==
    /\ last_t <= t
    /\ records = Len(Trace)
    /\ records' = 1
    /\ t_acc' = last_t
    /\ Take(Trace[1], t, last_t)

Exhausted(t) == last_t > t
-----------------------------------------------------------------------------
TraceTypeOK ==
    /\ records \in 0..Len(Trace)
    /\ last_t \in Nat /\ last_tp \in Nat /\ t_acc \in Nat /\ total_tp \in Nat

Duration == Last(Trace).t

(* What the file says of the time up to t, replayed with its own length: a  *)
(* record counts once for every replay that has come to it.                 *)
Replays(r, t) == Cardinality({j \in 0..t : j * Duration + r.t <= t})

BytesUntil(t) == SumOf([i \in DOMAIN Trace |-> Trace[i].bytes * Replays(Trace[i], t)])
=============================================================================
