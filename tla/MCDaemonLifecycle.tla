------------------------- MODULE MCDaemonLifecycle -------------------------
(* The instance of DaemonLifecycle that TLC checks: at most two of the faults
   (crashes, fatal errors, reused pids) in a behaviour.  The start commands are
   alike, so the first one is typed first.                                    *)
EXTENDS DaemonLifecycle
CONSTANTS s1, s2, p1
MCDaemons == 1..3
MaxFaults == 2
MCNext ==
    /\ Next
    /\ crashes' + fatals' + Cardinality(foreign') <= MaxFaults
    /\ start'[s2] # "idle" => start'[s1] # "idle"
MCSpec == Init /\ [][MCNext]_vars /\ Fairness
=============================================================================
