---------------------------- MODULE TimeArithmetic ----------------------------
(***************************************************************************)
(* The struct timespec arithmetic of util.c: seconds and a fraction below  *)
(* one second, in units of which Base make a second.                       *)
(***************************************************************************)
EXTENDS Integers

CONSTANT Base       \* 1000000000, or fewer and longer units

ASSUME BaseAssumption == Base \in Nat /\ Base > 0

Timespec == [sec : Int, nsec : 0 .. Base - 1]

\* The time in units.
Units(t) == t.sec * Base + t.nsec

\* Variant: a sum of exactly a second is left.
Carried_Strict(sec, nsec) ==
  IF nsec > Base THEN [sec |-> sec + 1, nsec |-> nsec - Base] ELSE [sec |-> sec, nsec |-> nsec]

\* timespec_add and timespec_addraw: at most one second is carried.
Carried(sec, nsec) ==
  IF nsec >= Base THEN [sec |-> sec + 1, nsec |-> nsec - Base] ELSE [sec |-> sec, nsec |-> nsec]

timespec_add(t1, t2) == Carried(t2.sec + t1.sec, t2.nsec + t1.nsec)

timespec_addraw(t, sec, nsec) == Carried(sec + t.sec, nsec + t.nsec)

timespec_diff(start, stop) ==
  IF stop.nsec - start.nsec < 0
    THEN [sec |-> stop.sec - start.sec - 1, nsec |-> stop.nsec - start.nsec + Base]
    ELSE [sec |-> stop.sec - start.sec, nsec |-> stop.nsec - start.nsec]

\* 1, 0 or -1.
timespec_cmp(t1, t2) ==
  IF t1.sec > t2.sec \/ (t1.sec = t2.sec /\ t1.nsec > t2.nsec) THEN 1
  ELSE IF t1.sec = t2.sec /\ t1.nsec = t2.nsec THEN 0
  ELSE -1
=============================================================================
