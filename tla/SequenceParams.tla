--------------------------- MODULE SequenceParams ---------------------------
(***************************************************************************)
(* The parameters of a sequence and the way options merge into them        *)
(* (state/apply_sequence.rs, init_sequence_parameters).  An option is      *)
(* Unset, NoValue (NO MAXVALUE, a bare RESTART) or Val(v).  The limits of  *)
(* the three integer types are constants, so that a model can use small    *)
(* ones; "text" stands for every type that is not one of them.             *)
(***************************************************************************)
EXTENDS Integers

CONSTANT TypeMax      \* the largest value of each sequence type

ASSUME TypeMaxAssumption ==
    /\ TypeMax \in [{"int2", "int4", "int8"} -> Nat]
    /\ 1 < TypeMax["int2"] /\ TypeMax["int2"] <= TypeMax["int4"]
    /\ TypeMax["int4"] <= TypeMax["int8"]

TypeMin(ty) == 0 - TypeMax[ty] - 1

Unset   == [o |-> "unset"]
NoValue == [o |-> "no"]
Val(v)  == [o |-> "is", v |-> v]

(* dup: some option is written twice, which sequence_option_set refuses.   *)
NoOptions ==
    [as |-> Unset, inc |-> Unset, cycle |-> Unset, max |-> Unset, min |-> Unset,
     start |-> Unset, restart |-> Unset, cache |-> Unset, dup |-> FALSE]

DefaultParams ==
    [ty |-> "int8", inc |-> 1, min |-> 1, max |-> TypeMax["int8"], start |-> 1,
     cycle |-> FALSE]

(* default_column_sequence_parameters: the sequence of a serial column.    *)
default_column_sequence_parameters(ty) ==
    LET t == IF ty \in {"int2", "int4"} THEN ty ELSE "int8"
    IN  [DefaultParams EXCEPT !.ty = t, !.max = TypeMax[t]]

Given(option, default) == IF option.o = "is" THEN option.v ELSE default

(* A bound: written, the default of the type and the direction, or kept.   *)
MaxFrom(cur, o, ty, inc, default, reset) ==
    CASE o.max.o = "is" -> o.max.v
      [] default \/ reset -> IF inc > 0 \/ reset THEN TypeMax[ty] ELSE 0 - 1
      [] OTHER -> cur.max

MinFrom(cur, o, ty, inc, default, reset) ==
    CASE o.min.o = "is" -> o.min.v
      [] default \/ reset -> IF inc < 0 \/ reset THEN TypeMin(ty) ELSE 1
      [] OTHER -> cur.min

ParamsWith(cur, o, init, ty, inc, min, max) ==
    [ty |-> ty, inc |-> inc, min |-> min, max |-> max,
     start |-> Given(o.start, CASE ~init -> cur.start
                                [] init /\ inc > 0 -> min
                                [] OTHER -> max),
     cycle |-> Given(o.cycle, IF init THEN FALSE ELSE cur.cycle)]

ParamsOf(cur, o, init, ty, inc) ==
    ParamsWith(cur, o, init, ty, inc,
               MinFrom(cur, o, ty, inc, o.min.o = "no" \/ init, o.as.o = "is" /\ ~init /\ cur.min = TypeMin(cur.ty)),
               MaxFrom(cur, o, ty, inc, o.max.o = "no" \/ init, o.as.o = "is" /\ ~init /\ cur.max = TypeMax[cur.ty]))

(* The merged parameters: type, increment, cycle, bounds and start in that *)
(* order.  A bound that sat at the limit of the old type follows a new one. *)
MergedParams(cur, o, init) ==
    ParamsOf(cur, o, init, Given(o.as, cur.ty), Given(o.inc, IF init THEN 1 ELSE cur.inc))

RestartValue(o, p) == Given(o.restart, p.start)

OffLimits(ty, v) == v < TypeMin(ty) \/ v > TypeMax[ty]

(* The errors of init_params.                                              *)
Refused(o, p) ==
    \/ p.ty \notin DOMAIN TypeMax
    \/ p.inc = 0
    \/ OffLimits(p.ty, p.max) \/ OffLimits(p.ty, p.min) \/ p.min >= p.max
    \/ p.start < p.min \/ p.start > p.max
    \/ o.restart # Unset /\ RestartValue(o, p) \notin p.min..p.max
    \/ o.cache.o = "is" /\ o.cache.v <= 0

(* The errors of init_params.                                              *)
ParamsRefused(cur, o, init) ==
    Given(o.as, cur.ty) \notin DOMAIN TypeMax \/ Refused(o, MergedParams(cur, o, init))

(* identity_sequence_parameters: the type of the column is the AS clause,  *)
(* so a written one is redundant.                                          *)
IdentityBase(ty) == [DefaultParams EXCEPT !.ty = ty]
IdentityRefused(ty, o) ==
    ty \notin DOMAIN TypeMax \/ o.as # Unset \/ ParamsRefused(IdentityBase(ty), o, TRUE)
identity_sequence_parameters(ty, o) == MergedParams(IdentityBase(ty), o, TRUE)
=============================================================================
