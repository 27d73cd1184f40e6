----------------------------- MODULE WriteModes -----------------------------
(***************************************************************************)
(* The modes in which threads change a set at the same time: lock_mode,    *)
(* which its creator gives a set for good, chooses in lck_processLock ..   *)
(* lck_manualUnlock between the shared/exclusive spinlock of SING_LM_FAST  *)
(* (ChainLock) and the mutex and protect_lock of SING_LM_PROTECTED         *)
(* (ProtectLock).                                                          *)
(***************************************************************************)
EXTENDS ChainLock, ProtectLock

VARIABLE lock_mode

modesVars == <<setVars, protectVars, lock_mode>>

ModesInit ==
  /\ lock_mode \in {"LM_FAST", "LM_PROTECTED"}
  /\ SetInit /\ ProtectInit

Fast(step) == lock_mode = "LM_FAST" /\ step /\ UNCHANGED <<protectVars, lock_mode>>
Protected(step) == lock_mode = "LM_PROTECTED" /\ step /\ UNCHANGED <<setVars, lock_mode>>

ModesNext == Fast(SetNext) \/ Protected(ProtectNext)

\* Every thread that lives runs, and a set that is locked in SING_LM_FAST is
\* given back.
FairModesSpec ==
  /\ ModesInit /\ [][ModesNext]_modesVars
  /\ \A t \in Threads :
       /\ WF_modesVars(Fast(ChainStep(t) /\ UNCHANGED vars))
       /\ WF_modesVars(Fast(LockGoes(t))) /\ WF_modesVars(Fast(LockGiven(t)))
  /\ \A t \in Workers : WF_modesVars(Protected(ProtectGoes(t)))
=============================================================================
