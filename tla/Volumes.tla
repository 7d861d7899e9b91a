------------------------------- MODULE Volumes -------------------------------
(***************************************************************************)
(* What a mount host promises about the drives it serves: a drive letter   *)
(* names one volume, a file written on a drive stays unsent until the Hub  *)
(* has it, a volume is given up only when the Hub or the disk of this      *)
(* computer has each of its files, and a host that ends by itself has      *)
(* given up all its volumes.  Mounts implements it.                        *)
(***************************************************************************)
EXTENDS FiniteSets

CONSTANTS Mount, Target, File

VARIABLES drive,     \* "none", the letter while it is up, "gone"
          unsent,    \* files of a mount the Hub has not
          safe,      \* unsent files that are saved for the user
          open,      \* the mounts whose engine runs
          ended      \* "running", "clean", "killed"
vvars == <<drive, unsent, safe, open, ended>>

VTypeOK ==
    /\ drive \in [Mount -> Target \cup {"none", "gone"}]
    /\ unsent \in [Mount -> SUBSET File]
    /\ safe \in [Mount -> SUBSET File]
    /\ open \in SUBSET Mount
    /\ ended \in {"running", "clean", "killed"}

VInit ==
    /\ drive = [v \in Mount |-> "none"]
    /\ unsent = [v \in Mount |-> {}] /\ safe = [v \in Mount |-> {}]
    /\ open = {} /\ ended = "running"

Attach(v, t) ==
    /\ ended = "running" /\ drive[v] = "none" /\ \A w \in Mount : drive[w] # t
    /\ drive' = [drive EXCEPT ![v] = t]
    /\ open' = open \cup {v}
    /\ UNCHANGED <<unsent, safe, ended>>
Accept(v, f) ==
    /\ v \in open /\ drive[v] \in Target
    /\ unsent' = [unsent EXCEPT ![v] = @ \cup {f}]
    /\ UNCHANGED <<drive, safe, open, ended>>
Detach(v) ==
    /\ v \in open /\ drive[v] \in Target
    /\ drive' = [drive EXCEPT ![v] = "gone"]
    /\ UNCHANGED <<unsent, safe, open, ended>>
Send(v, files) ==
    /\ v \in open /\ files \subseteq unsent[v]
    /\ unsent' = [unsent EXCEPT ![v] = @ \ files]
    /\ UNCHANGED <<drive, safe, open, ended>>
Keep(v, files) ==
    /\ v \in open /\ drive[v] = "gone" /\ files \subseteq unsent[v]
    /\ safe' = [safe EXCEPT ![v] = @ \cup files]
    /\ UNCHANGED <<drive, unsent, open, ended>>
GiveUp(v) ==
    /\ v \in open /\ drive[v] = "gone" /\ unsent[v] \subseteq safe[v]
    /\ open' = open \ {v}
    /\ UNCHANGED <<drive, unsent, safe, ended>>
End ==
    /\ ended = "running" /\ open = {}
    /\ ended' = "clean"
    /\ UNCHANGED <<drive, unsent, safe, open>>
Killed ==
    /\ ended = "running" /\ ended' = "killed"
    /\ drive' = [v \in Mount |-> IF v \in open THEN "gone" ELSE drive[v]]
    /\ open' = {}
    /\ UNCHANGED <<unsent, safe>>
Again ==
    /\ ended # "running" /\ ended' = "running"
    /\ UNCHANGED <<drive, unsent, safe, open>>

VNext ==
    \/ \E v \in Mount : Detach(v) \/ GiveUp(v)
    \/ \E v \in Mount, t \in Target : Attach(v, t)
    \/ \E v \in Mount, f \in File : Accept(v, f)
    \/ \E v \in Mount, files \in SUBSET File : Send(v, files) \/ Keep(v, files)
    \/ End \/ Killed \/ Again
VSpec == VInit /\ [][VNext]_vvars

-----------------------------------------------------------------------------
(* What follows from it.                                                   *)

\* Two drives never share a letter (the check of registry.rs and WinFsp's).
OneDrivePerLetter ==
    \A v, w \in Mount : drive[v] = drive[w] /\ drive[v] \in Target => v = w
\* A host that ended by itself left no volume behind it (host.rs, 145-147).
EndedIsOver == ended = "clean" => open = {}
=============================================================================
