-------------------------- MODULE MCAccountRefresh --------------------------
(* Instances of AccountRefresh for TLC.                                    *)
EXTENDS AccountRefresh
Setting(cookie, locking, direct) == [cookie |-> cookie, locking |-> locking, direct |-> direct]
(* A bearer account whose programs all take the lock, and a cookie account *)
(* without $XDG_RUNTIME_DIR and with refreshes that bypass the lock.       *)
MCSettings == {Setting(FALSE, TRUE, FALSE), Setting(TRUE, FALSE, TRUE)}
MCColdStart == {Setting(FALSE, TRUE, TRUE)}
MCTwice == {Setting(TRUE, TRUE, TRUE)}
=============================================================================
