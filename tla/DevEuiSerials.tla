--------------------------- MODULE DevEuiSerials ---------------------------
(***************************************************************************)
(* What the DevEUIs of the units are promised to be: the serials under a   *)
(* prefix are given out in order, in unbroken ranges, one range to a       *)
(* batch, and none of them twice.  A range is never given back.            *)
(***************************************************************************)
EXTENDS Naturals

CONSTANTS
  DevEuiPrefixes,   \* the prefixes, as the DevEUIs have them
  MaxSerial,  \* bound: the last serial there is under one, 0xFFFFFF in the code
  Quantities  \* how many units a batch may be planned with

VARIABLES
  taken, \* [DevEuiPrefixes -> the last serial given out]
  ranges \* the ranges given out, a set of [prefix, first, last]

serialVars == <<taken, ranges>>

(* derive_dev_eui_range, for the next batch of a prefix.                   *)
Fits(next, quantity) == next + quantity - 1 <= MaxSerial
RangeAt(prefix, next, quantity) ==
  [prefix |-> prefix, first |-> next, last |-> next + quantity - 1]

SerialsInit ==
  /\ taken = [p \in DevEuiPrefixes |-> 0]
  /\ ranges = {}

Issue(p, quantity) ==
  /\ Fits(taken[p] + 1, quantity)
  /\ ranges' = ranges \cup {RangeAt(p, taken[p] + 1, quantity)}
  /\ taken' = [taken EXCEPT ![p] = @ + quantity]

SerialsSpec ==
  SerialsInit /\ [][\E p \in DevEuiPrefixes, quantity \in Quantities : Issue(p, quantity)]_serialVars

Overlap(a, b) == a.prefix = b.prefix /\ a.first <= b.last /\ b.first <= a.last

(* No serial is in two ranges, and each one up to the last is in a range.  *)
GivenOnce ==
  /\ \A r, s \in ranges : Overlap(r, s) => r = s
  /\ \A p \in DevEuiPrefixes : \A n \in 1..taken[p] :
       \E r \in ranges : r.prefix = p /\ r.first <= n /\ n <= r.last
=============================================================================
