------------------------------ MODULE MCWorlds ------------------------------
(* Worlds for TLC: two directories, one of which may be a file or a link.  *)
EXTENDS Worlds

CONSTANTS c1, c2, m1, m2

d == <<"d">>
e == <<"e">>
df == <<"d", "f">>
ef == <<"e", "f">>

File(c) == [type |-> "file", value |-> c]
Dir(m) == [type |-> "dir", value |-> m]

TheOrder == <<d, e, df, ef>>
TheObjects ==
    d :> {Dir(m1), Dir(m2), File(c1), [type |-> "symlink", value |-> "e"]}
    @@ e :> {Dir(m1), [type |-> "hardlink", value |-> c1]}
    @@ df :> {File(c1), File(c2)}
    @@ ef :> {File(c1)}
=============================================================================
