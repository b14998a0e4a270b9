------------------------------- MODULE GeoResolve -------------------------------
(***************************************************************************)
(* The resolve command (CmdResolve of src/geoip-resolver/src/main.rs and   *)
(* search_nodes of its lib.rs): the peers of two overlays are searched,    *)
(* looked up in the database, moved apart by the location cache and listed *)
(* in a file that a web server gives to Prometheus.  A service runs the    *)
(* command again whenever it ends, well or not, one at a time; only files  *)
(* outlast it.  Peers are counted by their place, and a line of a file is  *)
(* represented by the state of the database it was made from.              *)
(***************************************************************************)
EXTENDS LocationCache

CONSTANTS
    Found,      \* bound: how many peers a search may leave at a place
    Versions,   \* states of the database that have all column families
    Unreadable, \* a state that has not
    Rounds      \* searches of both overlays, 10 in the code

ASSUME GeoResolveAssumption ==
    /\ Found \subseteq 0..MaxNodes /\ 0 \in Found
    /\ Unreadable \notin Versions /\ Rounds \in Nat

VARIABLES
    db,         \* external: the database, as imports leave it
    view,       \* what the command opened and took its snapshot of
    scans,      \* searches still to do
    nodes,      \* the peers found, by place
    todo,       \* of which no line is written
    files,      \* those of "temp" and "output" that exist
    pc

file == <<db, view, files>>
search == <<scans, nodes, todo>>
resolveVars == <<vars, file, search, pc>>

NoNodes == [p \in Places |-> 0]

\* A file has a number of lines for each place, made from some states of the
\* database.
EmptyFile == [lines |-> NoNodes, views |-> {}]
With(name, content) == [n \in DOMAIN files \cup {name} |-> IF n = name THEN content ELSE files[n]]

ResolveInit ==
    /\ Init
    /\ db \in Versions \cup {Unreadable}
    /\ view = Unreadable
    /\ scans = 0 /\ nodes = NoNodes /\ todo = NoNodes
    /\ files = [name \in {} |-> EmptyFile]
    /\ pc = "down"

\* Imports (GeoImport) go on whatever the command does.
Reimport ==
    /\ db' \in (Versions \cup {Unreadable}) \ {db}
    /\ UNCHANGED <<vars, view, files, search, pc>>

-----------------------------------------------------------------------------
\* The database is opened to read, or the command ends at once.
Start ==
    /\ pc = "down" /\ db \in Versions
    /\ view' = db
    /\ scans' = 2 * Rounds
    /\ nodes' = NoNodes
    /\ pc' = "search"
    /\ UNCHANGED <<vars, db, files, todo>>

\* scan_overlay adds the peers it finds that are not there yet.
ScanOverlay ==
    /\ pc = "search" /\ scans > 0
    /\ nodes' \in [Places -> Found] /\ \A p \in Places : nodes[p] <= nodes'[p]
    /\ scans' = scans - 1
    /\ UNCHANGED <<vars, file, todo, pc>>

\* Mutants: the lines are added to those of a run that was killed; a file left
\* by one stands in the way.
OpenTempAppends ==
    /\ pc = "search" /\ scans = 0
    /\ files' = IF "temp" \in DOMAIN files THEN files ELSE With("temp", EmptyFile)
    /\ todo' = nodes
    /\ pc' = "write"
    /\ UNCHANGED <<vars, db, view, scans, nodes>>
OpenTempNew ==
    /\ pc = "search" /\ scans = 0 /\ "temp" \notin DOMAIN files
    /\ files' = With("temp", EmptyFile)
    /\ todo' = nodes
    /\ pc' = "write"
    /\ UNCHANGED <<vars, db, view, scans, nodes>>

\* Created or emptied.
OpenTemp ==
    /\ pc = "search" /\ scans = 0
    /\ files' = With("temp", EmptyFile)
    /\ todo' = nodes
    /\ pc' = "write"
    /\ UNCHANGED <<vars, db, view, scans, nodes>>

\* find, and the line for it.  The place is adjusted if the database has a
\* location for the address: its table may be empty, or begin above it.
WriteNode(p) ==
    /\ pc = "write" /\ todo[p] > 0
    /\ adjust(p) \/ UNCHANGED vars
    /\ LET temp == files["temp"]
       IN  files' = [files EXCEPT !["temp"] = [lines |-> [temp.lines EXCEPT ![p] = @ + 1],
                                               views |-> temp.views \cup {view}]]
    /\ todo' = [todo EXCEPT ![p] = @ - 1]
    /\ UNCHANGED <<db, view, scans, nodes, pc>>

\* The cache goes with the resolver of one run.
DropCache == counter' = [p \in Places |-> 0] /\ adjusted' = [p \in Places |-> <<>>]

Rename ==
    /\ pc = "write" /\ todo = NoNodes
    /\ files' = [name \in {"output"} |-> files["temp"]]
    /\ DropCache
    /\ pc' = "down"
    /\ UNCHANGED <<db, view, search>>

\* An error of the search, of a lookup or of a file, or the process is killed.
Fail ==
    /\ pc # "down"
    /\ todo' = NoNodes
    /\ DropCache
    /\ pc' = "down"
    /\ UNCHANGED <<file, scans, nodes>>

Write == \E p \in Places : WriteNode(p)
Advance == Start \/ ScanOverlay \/ OpenTemp \/ Write \/ Rename

ResolveNext == Reimport \/ Advance \/ Fail

ResolveSpec == ResolveInit /\ [][ResolveNext]_resolveVars

\* The service restarts the command and the command runs; its search ends, as
\* queries to peers time out.
FairSpec == ResolveSpec /\ WF_resolveVars(Advance)

-----------------------------------------------------------------------------
\* Whoever reads the output finds all peers of one search, one line for each,
\* looked up in one state of the database, although runs are killed halfway
\* and the database is imported anew meanwhile: the file changes in one step
\* from a whole list to a whole list (main.rs:98-114).
OutputIsWhole ==
    [][LET old == {files[name] : name \in DOMAIN files \cap {"output"}}
           new == {files'[name] : name \in DOMAIN files' \cap {"output"}}
       IN  old # new => \E f \in new : f.lines = nodes /\ f.views \subseteq {view}
      ]_resolveVars

\* However often it failed before and whatever was left over, the output is
\* written again and again once failures cease and the database is readable
\* (main.rs:98-103; contrib/geoip.native.service).
OutputRefreshed ==
    <>[](db \in Versions) /\ <>[][~Fail]_resolveVars => []<><<Rename>>_resolveVars
=============================================================================
