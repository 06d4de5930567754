-------------------------- MODULE MCDataStructures --------------------------
(***************************************************************************)
(* The instance for TLC of the programs of Data_Structure/source, which do *)
(* not interact: a behaviour runs one of them, the others stay as they     *)
(* start.                                                                  *)
(***************************************************************************)
EXTENDS Containers

CONSTANTS
  Numbers, MaxN,                              \* SearchTree
  Rows, Columns, Mazes, InitSize, Increment   \* MazeSearch

VARIABLES
  part,                                              \* which of them runs
  root, node, given, walked, phase, told, gone,      \* SearchTree
  maze, footprint, stack, stacksize, curpos, verdict \* MazeSearch

\* Enclosed mazes: three by three squares inside a wall that has, as the maze
\* of main has, a way in at the top and out at the right, or neither.
Inside == (1 .. 3) \X (1 .. 3)

SmallMazes ==
  {[open |-> S \cup ({s, e} \ Inside), start |-> s, end |-> e] :
     S \in SUBSET Inside, s \in {<<0, 1>>, <<2, 2>>}, e \in {<<3, 4>>, <<3, 1>>}}

treeVars == <<root, node, given, walked, phase, told, gone>>
mazeVars == <<maze, footprint, stack, stacksize, curpos, verdict>>

Tree == INSTANCE SearchTree WITH Values <- Numbers

Search == INSTANCE MazeSearch

ASSUME PartsAssumption == Tree!TreeAssumption /\ Search!MazeAssumption

MCInit ==
  /\ Init
  /\ part \in {"containers", "tree", "maze"}
  /\ IF part = "tree" THEN Tree!Init
     ELSE root = Null /\ node = <<>> /\ given = <<>> /\ walked = <<>> /\ phase = "insert"
          /\ told = 0 /\ gone = Null
  /\ IF part = "maze" THEN Search!Init
     ELSE maze = Null /\ footprint = {} /\ stack = <<>> /\ stacksize = InitSize
          /\ curpos = <<0, 0>> /\ verdict = "idle"

MCNext ==
  /\ UNCHANGED part
  /\ \/ part = "containers" /\ Next        /\ UNCHANGED treeVars /\ UNCHANGED mazeVars
     \/ part = "tree"       /\ Tree!Next   /\ UNCHANGED vars     /\ UNCHANGED mazeVars
     \/ part = "maze"       /\ Search!Next /\ UNCHANGED vars     /\ UNCHANGED treeVars

MCSpec == MCInit /\ [][MCNext]_<<vars, treeVars, mazeVars, part>>

AllKinds  == {"list", "queue", "stack", "doubly", "array"}
FourCells == 1 .. 4
OneToFour == 1 .. 4

\* The tree's walks list what was inserted, sorted, less what was deleted.
WalkSorts == Tree!WalkSorts

\* The maze's search says TRUE with a way and otherwise only if there is none.
SearchDecides == part = "maze" => Search!SearchDecides

=============================================================================
