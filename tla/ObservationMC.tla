--------------------------- MODULE ObservationMC ---------------------------
(* A changed module only Black formats, a new one only isort formats, a     *)
(* changed template, the cache of the root, and a file nobody tracks.  The  *)
(* audit reads between two git_status, after `environment`.                 *)
EXTENDS Observation

MCPython == <<"app.py", "new.py">>
MCHtml == <<"page.html">>
MCNew == {"new.py"}
MCExcluded == [tool \in {"isort", "black"} |-> IF tool = "isort" THEN {"app.py"} ELSE {"new.py"}]
MCChecks == <<"pytest">>

MCChildren ==
  [directory \in {"/", "cache"} |->
     IF directory = "/" THEN {"app.py", "cache", "new.py", "notes", "page.html"}
                        ELSE {"app.pyc", "new.pyc"}]
MCPath == {"app.py", "cache", "new.py", "notes", "page.html", "app.pyc", "new.pyc"}
MCAudit == <<GitStatus, GitVersion, Reading("app.py"), GitStatus>>
MCCaches == <<"cache">>
MCTree(files) ==
  [path \in MCPath |->
     IF path \in files THEN Node("file", 0)
     ELSE IF path = "cache" /\ "app.pyc" \in files THEN Directory
     ELSE Absent]
MCTrees ==
  LET files == {"app.py", "page.html", "notes"}
  IN {MCTree(files), MCTree(files \cup {"app.pyc"})}
MCMaxChanges == [job \in {"patch", "verify", "audit"} |-> IF job = "verify" THEN 2 ELSE 1]
=============================================================================
