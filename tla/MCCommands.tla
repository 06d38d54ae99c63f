----------------------------- MODULE MCCommands -----------------------------
(* One shell, the files f and g, whose names begin alike, two folders and  *)
(* the paths that lead down to them, to a file, to nothing and to "d/".    *)
EXTENDS FileCommands

MCNames    == {"f", "g", "d"}
MCPayloads == {"f", "g", "garbage"}
MCFiles    == [n \in {"f", "g"} |-> IF n = "f" THEN 1 ELSE 2]
MCPrefix   == [n \in MCNames \cup {RootName} |->
                  IF n = "d" THEN "d" ELSE IF n = RootName THEN "R" ELSE "fg"]
MCPaths    == {<< "d" >>, << "d", "d" >>, << "d", NoName >>, << "f" >>}
=============================================================================
