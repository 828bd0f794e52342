----------------------------- MODULE Speedscope -----------------------------
(***************************************************************************)
(* speedscope.rs: an output-only format with one weighted profile for each *)
(* value series, over a frame table that all of them share.                *)
(***************************************************************************)
EXTENDS Profile

CONSTANT MaxWeight  \* i64::MAX

ASSUME SpeedscopeAssumption == MaxWeight \in Nat

KnownUnits == {"nanoseconds", "microseconds", "milliseconds", "seconds", "bytes"}

speedscope_unit(unit) ==
    IF \E u \in KnownUnits : unit = <<Word(u)>> THEN unit ELSE <<Word("none")>>

frame_name(frame) ==
    IF IsSome(frame.function) THEN frame.function
    ELSE IF frame.raw # <<>> THEN frame.raw
    ELSE IF IsSome(frame.module) THEN frame.module
    ELSE IF frame.address # NoNumber THEN <<Hex(frame.address)>>
    ELSE <<Word("unknown")>>

\* saturating_add of i64
SaturatingAdd(x, y) ==
    IF x + y > MaxWeight THEN MaxWeight
    ELSE IF x + y < -MaxWeight - 1 THEN -MaxWeight - 1
    ELSE x + y

\* Mutant of Weights: every profile carries the first series.
WeightsOfFirst(profile, series) ==
    [i \in 1 .. Len(profile.samples) |-> profile.samples[i].values[1]]

Weights(profile, series) ==
    [i \in 1 .. Len(profile.samples) |-> profile.samples[i].values[series]]

\* build_profile
SampledProfile(profile, series) ==
    [name |-> profile.value_kinds[series].kind,
     unit |-> speedscope_unit(profile.value_kinds[series].unit),
     end_value |-> FoldLeft(SaturatingAdd, 0, Weights(profile, series)),
     samples |-> [i \in 1 .. Len(profile.samples) |-> profile.samples[i].stack],
     weights |-> Weights(profile, series)]

\* SpeedscopeFormat::write
speedscope_write(profile) ==
    IF \E s \in ToSet(profile.samples) :
          \/ \E id \in ToSet(s.stack) : id >= Len(profile.frames)
          \/ Len(s.values) < Len(profile.value_kinds)
    THEN Err
    ELSE Ok([frames |-> [i \in 1 .. Len(profile.frames) |->
                 [name |-> frame_name(profile.frames[i]),
                  file |-> profile.frames[i].file,
                  line |-> profile.frames[i].line]],
             profiles |-> [k \in 1 .. Len(profile.value_kinds) |-> SampledProfile(profile, k)]])
=============================================================================
