---------------------------- MODULE MCTuiSession ----------------------------
(* Two sessions.  In half the behaviours this client sends its turns and nobody
   else does, in the other half two other clients send theirs and this one is
   not started: what either half checks does not depend on the other.  Turns
   are alike, so the first one is sent first; in the second half sessions are
   alike too, and its first turn goes to the first one.  After something went
   wrong the user starts no other turn or load, and the daemon does not crash
   as well.                                                                  *)
EXTENDS TuiSession
CONSTANTS s1, s2, t1, t2, t3, t4
VARIABLE half
mcVars == <<half, allVars>>
MCInit == /\ TuiInit /\ half \in {"client", "others"}
          /\ exists = IF half = "client" THEN {s2} ELSE Sessions
InOrder == (phase'[t2] # "idle" => phase'[t1] # "idle") /\ (phase'[t4] # "idle" => phase'[t3] # "idle")
StartsMore == (phase'[t2] # phase[t2] /\ phase[t2] = "idle") \/ (loaded' # loaded /\ stage' = stage)
              \/ crashes' # crashes
MCNext == /\ half' = half
          /\ IF half = "client"
             THEN alive /\ TuiNext /\ (\A t \in Turns \ TuiTurns : phase'[t] = "idle")
                  /\ (StartsMore => calm)
             ELSE (DaemonStep \/ OthersStep \/ DaemonCrash) /\ sess'[t3] \in {None, s1}
          /\ InOrder
MCSpec == MCInit /\ [][MCNext]_mcVars
          /\ WF_mcVars(DaemonStep /\ half' = half) /\ WF_mcVars(TurnStep /\ half' = half)
=============================================================================
