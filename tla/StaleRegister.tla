---------------------------- MODULE StaleRegister ----------------------------
(***************************************************************************)
(* What the configuration cache promises to its readers: a register whose  *)
(* value is a version number, read through caches.  A reader may be served *)
(* an old version, but only one that was superseded at most Bound ticks    *)
(* ago.  ConfigService implements this (ConfigService!Register).           *)
(***************************************************************************)
EXTENDS Naturals

CONSTANTS Reader,     \* who reads
          Bound,      \* longest time, in ticks, a superseded version is served
          MaxWrites   \* bound on the number of writes

VARIABLES cur,        \* the newest version
          lag,        \* lag[n]: ticks since n was superseded, saturating
          seen        \* seen[r]: the version r read last, and how late it was then

vars == <<cur, lag, seen>>

Init ==
    /\ cur = 0
    /\ lag = [n \in 0..MaxWrites |-> 0]
    /\ seen = [r \in Reader |-> [ver |-> 0, late |-> 0]]

Write ==
    /\ cur < MaxWrites
    /\ cur' = cur + 1
    /\ UNCHANGED <<lag, seen>>

Read(r) ==
    /\ \E n \in 0..cur : /\ lag[n] <= Bound
                         /\ seen' = [seen EXCEPT ![r] = [ver |-> n, late |-> lag[n]]]
    /\ UNCHANGED <<cur, lag>>

\* A tick ages the superseded versions.
Age ==
    /\ lag' = [n \in 0..MaxWrites |->
                 IF n < cur /\ lag[n] <= Bound THEN lag[n] + 1 ELSE lag[n]]
    /\ UNCHANGED <<cur, seen>>

Next == Write \/ Age \/ \E r \in Reader : Read(r)

Spec == Init /\ [][Next]_vars
=============================================================================
