---------------------------- MODULE MCRemovedDir ----------------------------
(* A process works in a directory below another one, while a second        *)
(* process removes the two: what becomes of "..".                          *)
EXTENDS Inode, TLC

CONSTANTS p1, p2

Call(c, absolute, path) == [call |-> c, abs |-> absolute, path |-> path, new |-> <<>>]

MCFsCalls ==
  (p1 :> {Call("mkdir", TRUE, <<"a">>), Call("chdir", TRUE, <<"a">>), Call("mkdir", FALSE, <<"b">>),
          Call("chdir", FALSE, <<"b">>), Call("open", FALSE, <<"..", "b">>)})
  @@ (p2 :> {Call("unlink", TRUE, <<"a">>), Call("unlink", TRUE, <<"a", "b">>)})

=============================================================================
