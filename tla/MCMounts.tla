------------------------------- MODULE MCMounts -------------------------------
(* Small instances of Mounts.                                              *)
EXTENDS Mounts

CONSTANTS p1, p2, p3, t1, t2, f1, f2
MCThread == {p1, p2, p3}
MCTarget == {t1, t2}
MCMount == 1..3
MCFile == {f1, f2}

Of(threads, targets, mounts, asks, events) ==
    [threads |-> threads, targets |-> targets, mounts |-> mounts, files |-> {}, hosts |-> 1, asks |-> asks, events |-> events]
\* Two requests for one letter, and the end of the supervisor.
OneLetter == [Of({p1, p2}, {t1}, 1..2, {"mount", "unmount", "shutdown"}, {}) EXCEPT !.files = {f1}]
TwoLetters == Of({p1}, {t1, t2}, 1..2, {"mount", "force", "shutdown"}, {})
\* A driver that goes while requests come.
DriverGoes == Of({p1, p2}, {t1}, 1..2, {"mount", "dismiss", "unmount"}, {"lost"})
\* Files that are sent, copied and kept.
Saves == [Of({p1}, {t1}, 1..1, {"mount", "unmount", "list", "shutdown"}, {"idle", "lost"}) EXCEPT !.files = {f1, f2}]
\* Records of failed mounts; a supervisor that ends because nothing is asked.
Failures == Of({p1}, {t1, t2}, 1..3, {"mount"}, {"idle"})
\* A crash, the journal and the next supervisor.
Crashes == [Of({p1}, {t1}, 1..2, {"mount", "unmount"}, {"crash", "status", "disk_full"}) EXCEPT !.hosts = 2, !.files = {f1}]
MCCase == {OneLetter, TwoLetters, DriverGoes, Saves, Failures, Crashes}
\* A mount that comes up while the supervisor takes the others down.
MCSlips == {[OneLetter EXCEPT !.asks = {"mount", "shutdown"}, !.events = {"slips_in"}]}
=============================================================================
