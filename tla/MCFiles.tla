------------------------------ MODULE MCFiles ------------------------------
\* A small instance of Files: a file and an empty directory at boot, room for
\* one inode more.
EXTENDS Files

Dir(links, up, a, b) ==
  [type |-> "dir", nlink |-> links, ents |-> ".." :> up @@ "a" :> a @@ "b" :> b]
File(links) == [Free EXCEPT !.type = "file", !.nlink = links]

FileAndDir == {<<Dir(2, 1, 2, 3), File(1), Dir(1, 1, 0, 0), Free>>}

a == <<"a">>
ba == <<"b", "a">>
root_b == <<"/", "b">>

SomePaths == {a, ba, root_b, <<"..">>}
SomeLinks == {<<a, ba>>, <<ba, a>>, <<a, a>>, <<root_b, ba>>}
=============================================================================
