------------------------------ MODULE MCAccess ------------------------------
(* Two requests at a time; a repository with two worktrees, and another one in a *)
(* directory inside the first.                                                  *)
EXTENDS Access

MCPaths    == {"main", "linked", "nested"}
MCCommonOf == [p \in MCPaths |-> IF p = "nested" THEN "other" ELSE "git"]
MCWithin   == {<<p, p>> : p \in MCPaths} \union {<<"nested", "main">>}
MCStartup  == <<"main">>
MCNothing  == <<>>
=============================================================================
