------------------------------- MODULE Config -------------------------------
(***************************************************************************)
(* Settings of internal/config/config.go that decide what the models do:   *)
(* how Parse reads an environment variable, and which combinations         *)
(* Validate lets the process start with.                                   *)
(*                                                                         *)
(* A setting is missing, blank, unreadable (not a number, not a boolean)   *)
(* or a value.  Numbers are small: only their order matters.               *)
(***************************************************************************)
EXTENDS Integers

CONSTANTS Missing, Blank, Garbage

NoValue == {Missing, Blank, Garbage}

\* The defaults of config.go, 60, 80 and 100 MiB, in equal steps as there.
Defaults == [low |-> 1, high |-> 2, max |-> 3, rotation |-> TRUE, vacuum |-> FALSE]

\* envInt64 and envBool: whatever cannot be read is the default, silently.
env(raw, fallback) == IF raw \in NoValue THEN fallback ELSE raw

Parse(raw) == [s \in DOMAIN Defaults |-> env(raw[s], Defaults[s])]

\* A slip: the high watermark is not compared with the maximum.
ValidateWithoutMax(c) == c.max > 0 /\ c.high > 0 /\ c.low > 0 /\ c.low < c.high

\* The conditions of Validate on the store.
Validate(c) ==
    /\ c.max > 0
    /\ c.high > 0 /\ c.high <= c.max
    /\ c.low > 0 /\ c.low < c.high
=============================================================================
