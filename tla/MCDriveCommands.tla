---------------------------- MODULE MCDriveCommands ----------------------------
(* Instances of DriveCommands for TLC.                                     *)
EXTENDS DriveCommands, TLC

Entry(kind, parent, name, state) ==
  [kind |-> kind, parent |-> parent, name |-> name, state |-> state]
(* A folder d with a file a; a file a; and a file a next to a draft b.     *)
MCTrees == {<<Entry("folder", 0, "d", "active"), Entry("file", 1, "a", "active")>>,
            <<Entry("file", 0, "a", "active"), Entry("folder", 0, "d", "active")>>,
            <<Entry("file", 0, "a", "trashed"), Entry("file", 0, "b", "draft")>>}

Cmd(op, args, flags) == [op |-> op, args |-> args, flags |-> flags]
A == <<"a">>
B == <<"b">>
D == <<"d">>
DA == <<"d", "a">>
DB == <<"d", "b">>
MCCommands ==
  {Cmd("cp", <<t>>, f) : t \in {A, D, DA}, f \in {{}, {"force"}, {"removeDest"}}}
  \cup {Cmd("cp", <<B>>, {"force"})}
  \cup {Cmd("mkdir", <<t>>, {"parents"}) : t \in {D, DB}} \cup {Cmd("mkdir", <<D>>, {})}
  \cup {Cmd("rm", <<A>>, {}), Cmd("rm", <<A>>, {"permanent"}), Cmd("rm", <<DA, D>>, {"recursive"}),
        Cmd("rmdir", <<D>>, {}), Cmd("empty", <<A>>, {}), Cmd("ln", <<A>>, {}),
        Cmd("chmod", <<A>>, {}), Cmd("mv", <<A, D>>, {}), Cmd("mv", <<A, B>>, {}), Cmd("mv", <<DA, A>>, {})}
=============================================================================
