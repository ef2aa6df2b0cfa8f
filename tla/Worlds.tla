------------------------------- MODULE Worlds -------------------------------
(***************************************************************************)
(* How a world is captured, compared and built again: the scan of a        *)
(* workspace (internal/workspace), the factors Compare finds between two   *)
(* captures (internal/experiment/compare.go), and the temporary directory  *)
(* in which runWorld (engine.go) materialises one capture, applies some    *)
(* factors of the other to it and runs the command.  Engine takes a world  *)
(* as the base and the set of factors; here it is the directory.           *)
(*                                                                         *)
(* A path is a sequence of one or two names, a tree maps every path to the *)
(* object there or to Absent.  The target of a symbolic link is a name of  *)
(* the top directory.  An object is its type and one value: the content of *)
(* a file, the mode of a directory, the target of a link.                  *)
(***************************************************************************)
EXTENDS Integers, FiniteSets, Sequences, SequencesExt

CONSTANTS
    PathOrder,    \* the paths, by depth and then by name
    Objects,      \* input: path -> what may be there on disk
    DefaultMode,  \* the mode of a directory that MkdirAll adds
    Variables,    \* environment variables
    Secrets,      \* those whose name redact.Environment matches
    Values,       \* the values a variable may have
    Empty,        \* the empty string
    MaxFiles,     \* CaptureLimits.MaxWorkspaceFiles
    MaxFactors,   \* Request.MaxFactors
    OracleFile,   \* the path and the content that a file_digest oracle expects
    OracleContent,
    None

Paths == Range(PathOrder)
Sides == {"good", "bad"}
Other(side) == IF side = "good" THEN "bad" ELSE "good"

Absent == [type |-> "absent", value |-> None]
Top(p) == <<p[1]>>
Below(p, q) == Len(q) = 2 /\ p = Top(q)

\* No path: a name holds no slash.
Missing == <<"/missing">>    \* its directory is not there
Dangling == <<"/dangling">>  \* its directory is a link to nothing
NotDir == <<"/notdir">>      \* its directory is no directory

\* What may be at a path.
Things == (UNION {Objects[p] : p \in Paths}) \union {Absent}

\* Materialize sorts its entries by depth, so a directory comes before what is
\* in it.  A factor is a variable or a path.
ASSUME WorldsAssumption ==
    /\ PathOrder \in Seq(Seq(STRING))
    /\ \A i, j \in 1..Len(PathOrder) :
         i < j => Len(PathOrder[i]) <= Len(PathOrder[j])
    /\ \A p \in Paths : Len(p) \in {1, 2} /\ Top(p) \in Paths
    /\ Paths \intersect {Missing, Dangling, NotDir} = {}
    /\ \A o \in Things : o = [type |-> o.type, value |-> o.value]
    /\ None \notin [Paths -> Things]
    /\ DefaultMode # None /\ Empty \in Values /\ Secrets \subseteq Variables
    /\ IsFiniteSet(Variables) /\ Variables \intersect Paths = {}
    /\ MaxFactors \in Nat \ {0}
    /\ OracleFile \in Paths /\ OracleContent # None

VARIABLES
    disk,        \* the workspace each capture is made of
    environ,     \* the environment each command is given
    capture,     \* the captures, or None
    factors,     \* Compare's factors, in the order of their identifiers
    boundaries,  \* why a difference is not among them
    run          \* the last world runWorld built, or None

vars == <<disk, environ, capture, factors, boundaries, run>>

\* Trees: what is below a path that is no directory is not there.
IsTree(tree) == \A p \in Paths : tree[p] # Absent /\ Len(p) = 2 => tree[Top(p)].type = "dir"

Trees == {tree \in [Paths -> Things] :
            IsTree(tree) /\ \A p \in Paths : tree[p] \in Objects[p] \union {Absent}}

Environments == [Variables -> Values \union {None}]

Init ==
    /\ disk \in [Sides -> Trees]
    /\ environ \in [Sides -> Environments]
    /\ capture = [s \in Sides |-> None]
    /\ factors = <<>> /\ boundaries = {} /\ run = None

-----------------------------------------------------------------------------
(* Reading a tree.                                                         *)

\* Where the system finds path p: there, in the directory its parent links to,
\* in a directory that does not exist, or not at all.
Where(tree, p) ==
    LET parent == tree[Top(p)]
        target == IF parent.type = "symlink" THEN tree[<<parent.value>>] ELSE parent
    IN  IF Len(p) = 1 \/ parent.type = "dir" THEN p
        ELSE CASE parent = Absent -> Missing
               [] parent.type = "symlink" /\ target = Absent -> Dangling
               [] parent.type = "symlink" /\ target.type = "dir" -> <<parent.value, p[2]>>
               [] OTHER -> NotDir

\* os.ReadFile, which follows links.
ReadFile(tree, p) ==
    LET w == Where(tree, p)
        o == IF w \in Paths THEN tree[w] ELSE Absent
        f == IF o.type = "symlink" THEN tree[<<o.value>>] ELSE o
    IN  IF f.type \in {"file", "hardlink"} THEN f.value ELSE None

-----------------------------------------------------------------------------
(* Capture: the scan, the redacted environment and the oracle.             *)

\* A file with several links is recorded without its content, a link that leaves
\* the workspace and anything else that is no file, directory or link as itself.
ScanEntry(o) ==
    CASE o.type = "hardlink" -> [type |-> "unsupported", value |-> None]
      [] o.type = "escape" -> [type |-> "unsupported", value |-> o.value]
      [] OTHER -> o

Scan(tree) == [p \in Paths |-> ScanEntry(tree[p])]

Size(tree) == Cardinality({p \in Paths : tree[p] # Absent})

\* A secret is replaced by its fingerprint, which is not its value.
Environment(env) == [v \in Variables |-> IF v \in Secrets /\ env[v] # None
                                         THEN <<"redacted", env[v]>> ELSE <<"value", env[v]>>]

\* oracle.Evaluate, and evaluateManifestFileOracle for a bound workspace.
Evaluate(tree) == ReadFile(tree, OracleFile) = OracleContent

\* An entry of any type is taken for the file.
EvaluateManifestAny(manifest) == manifest[OracleFile] # Absent

EvaluateManifest(manifest) ==
    manifest[OracleFile] = [type |-> "file", value |-> OracleContent]

Captured(s, bound, passed) ==
    /\ capture[s] = None
    /\ Size(disk[s]) <= MaxFiles
    /\ capture' = [capture EXCEPT ![s] = [tree |-> Scan(disk[s]), env |-> Environment(environ[s]),
                                          bound |-> bound, passed |-> passed]]
    /\ UNCHANGED <<disk, environ, factors, boundaries, run>>

Capture(s) == Captured(s, FALSE, Evaluate(disk[s]))

\* CaptureWithBinding: the scan goes through an open directory, and a file
\* oracle is answered from the manifest.
CaptureWithBinding(s) == Captured(s, TRUE, EvaluateManifest(Scan(disk[s])))

-----------------------------------------------------------------------------
(* Compare.                                                                *)

Supported(e) == e.type \in {"file", "dir", "symlink", "absent"}

\* A variable that is set to nothing taken for one that is not set.
EnvDiffersInValue(v) ==
    LET val(s) == IF capture[s].env[v][2] = None THEN Empty ELSE capture[s].env[v][2]
    IN  val("good") # val("bad")

EnvDiffers(v) == capture["good"].env[v] # capture["bad"].env[v]

IsSecret(v) == \E s \in Sides : capture[s].env[v][1] = "redacted"

TreeDiffers(p) == capture["good"].tree[p] # capture["bad"].tree[p]

TreeSupported(p) == \A s \in Sides : Supported(capture[s].tree[p])

EnvFactors == {v \in Variables : EnvDiffers(v) /\ ~IsSecret(v)}
TreeFactors == {p \in Paths : TreeDiffers(p) /\ TreeSupported(p)}

\* Identifiers begin with the kind, so variables come first; then a hash decides,
\* which is any order of the keys.
Orders(S) == {q \in [1..Cardinality(S) -> S] : Range(q) = S}

\* The first MaxFactors of them are kept.
Compare ==
    /\ capture["good"] # None /\ capture["bad"] # None
    /\ factors = <<>> /\ boundaries = {} /\ run = None
    /\ \E e \in Orders(EnvFactors), t \in Orders(TreeFactors) :
         factors' = SubSeq(e \o t, 1, IF Len(e \o t) > MaxFactors THEN MaxFactors ELSE Len(e \o t))
    /\ boundaries' =
         {"compared"}
         \union (IF \E v \in Variables : EnvDiffers(v) /\ IsSecret(v) THEN {"secret"} ELSE {})
         \union (IF \E p \in Paths : TreeDiffers(p) /\ ~TreeSupported(p) THEN {"unsupported"} ELSE {})
         \union (IF Cardinality(EnvFactors) + Cardinality(TreeFactors) > MaxFactors
                 THEN {"limit"} ELSE {})
    /\ UNCHANGED <<disk, environ, capture, run>>

-----------------------------------------------------------------------------
(* runWorld: Materialize, then Apply for each factor.                      *)

\* No world: runWorld returned an error.
Failed == None

\* The directory around an entry goes as well.
RemovedAround(tree, w) == [q \in Paths |-> IF Top(q) = Top(w) THEN Absent ELSE tree[q]]

\* removeExisting: a directory goes with all that is in it.
Removed(tree, w) == [q \in Paths |-> IF q = w \/ Below(w, q) THEN Absent ELSE tree[q]]

Apply(tree, p, e) ==
    LET w == IF tree = Failed THEN NotDir ELSE Where(tree, p) IN
    CASE w = NotDir -> Failed
      [] w \in {Missing, Dangling} /\ e = Absent -> tree
      [] w = Missing /\ Supported(e) /\ e # Absent ->
           [tree EXCEPT ![Top(p)] = [type |-> "dir", value |-> DefaultMode], ![p] = e]
      [] w \in Paths /\ Supported(e) -> [Removed(tree, w) EXCEPT ![w] = e]
      [] OTHER -> Failed

EmptyTree == [p \in Paths |-> Absent]

\* Both loops over Apply: the entries for the paths of S, in the order given.
ApplyAll(tree, order, S, entries) ==
    LET built[i \in 0..Len(order)] ==
          IF i = 0 THEN tree
          ELSE IF order[i] \in S THEN Apply(built[i - 1], order[i], entries[order[i]])
               ELSE built[i - 1]
    IN  built[Len(order)]

Present(manifest) == {p \in Paths : manifest[p] # Absent}

\* The entries by name alone, the deepest first.
MaterializeUnsorted(manifest) ==
    ApplyAll(EmptyTree, Reverse(PathOrder), Present(manifest), manifest)

Materialize(manifest) == ApplyAll(EmptyTree, PathOrder, Present(manifest), manifest)

\* The value of the wrong side.
ApplyTreeOwn(tree, S, source) ==
    ApplyAll(tree, factors, S \intersect Paths, capture[Other(source)].tree)

\* The factors of the tree that are selected, in the order of their identifiers.
ApplyTree(tree, S, source) ==
    ApplyAll(tree, factors, S \intersect Paths, capture[source].tree)

ApplyEnv(env, S, source) ==
    [v \in Variables |-> IF v \in S THEN capture[source].env[v] ELSE env[v]]

\* base is the capture that is materialised, S the factors taken from the other.
RunWorld(base, S) ==
    /\ boundaries # {} /\ run = None
    /\ LET built == ApplyTree(Materialize(capture[base].tree), S, Other(base)) IN
       run' = [base |-> base, selected |-> S, tree |-> built,
               env |-> ApplyEnv(capture[base].env, S, Other(base)),
               passed |-> built # Failed /\ Evaluate(built)]
    /\ UNCHANGED <<disk, environ, capture, factors, boundaries>>

Next ==
    \/ \E s \in Sides : Capture(s) \/ CaptureWithBinding(s)
    \/ Compare
    \/ \E base \in Sides : \E S \in SUBSET Range(factors) : RunWorld(base, S)

Spec == Init /\ [][Next]_vars
-----------------------------------------------------------------------------
(* Properties.                                                             *)

Built == run # None /\ run.tree # Failed
From == capture[run.base]
To == capture[Other(run.base)]

\* A capture without unsupported entries can be rebuilt, and the directory the
\* baseline runs in is the workspace that was captured: every file, directory
\* and link of it, and nothing else.  One with such an entry is never run.
BaselineIsCapture ==
    run # None /\ run.selected = {} =>
      IF \A p \in Paths : Supported(From.tree[p])
      THEN run.tree = disk[run.base] /\ run.env = From.env
      ELSE run.tree = Failed

\* A factor that replaces nothing but itself: it is no directory in either
\* world, and it is in a directory of the base.
Plain(p) ==
    /\ From.tree[p].type # "dir" /\ To.tree[p].type # "dir"
    /\ Len(p) = 2 => From.tree[Top(p)].type = "dir"

\* An experiment differs from the base in exactly the factors it names, in
\* whatever order their hashes put them (of the tree, with such factors), and it
\* never changes a secret: the command runs with the fingerprint of its own
\* capture in its place.
InterventionIsExact ==
    /\ run # None => run.env = [v \in Variables |->
         IF v \in run.selected \ Secrets THEN To.env[v] ELSE From.env[v]]
    /\ Built /\ (\A p \in run.selected \intersect Paths : Plain(p)) =>
         run.tree = [p \in Paths |-> IF p \in run.selected THEN To.tree[p] ELSE From.tree[p]]

\* What the selected factors may change: their paths, what is below them, the
\* directory made for one whose directory is missing, and the path that is
\* written in its place when its directory is a link in one of the worlds.
Touched(q) ==
    \/ q \in run.selected \/ Top(q) \in run.selected
    \/ \E p \in run.selected \intersect Paths :
         \/ q = Top(p) /\ From.tree[q] = Absent
         \/ \E s \in Sides : LET parent == capture[s].tree[Top(p)] IN
              Len(p) = 2 /\ parent.type = "symlink" /\ q = <<parent.value, p[2]>>

\* An experiment leaves the rest of the base alone, also when its factors are
\* directories, links or below them, and in whatever order they are applied.
InterventionIsLocal ==
    Built => \A q \in Paths : run.tree[q] # From.tree[q] => Touched(q)

\* The factors account for the difference: with all of them applied the base has
\* become the other world, or a boundary of the analysis says what is missing.
FactorsAccountForDifference ==
    Built /\ run.selected = Range(factors) /\ (\A p \in run.selected \intersect Paths : Plain(p)) =>
      \/ run.tree = disk[Other(run.base)] /\ run.env = To.env
      \/ boundaries # {"compared"}

\* The oracle answers for the rebuilt base what it answered for the capture,
\* although a bound capture reads the manifest and an experiment the directory,
\* unless the file is reached through a link, which only the directory follows.
OraclesAgree ==
    Built /\ run.selected = {} =>
      \/ run.passed = From.passed
      \/ From.bound /\ \E p \in {OracleFile, Top(OracleFile)} : From.tree[p].type = "symlink"

\* docs/architecture.md: the comparator emits factors for the presence and mode
\* of directories.  Applying the factors of one world to the other gives that
\* world, when nothing else differs.
DirectoriesIntervened ==
    Built /\ run.selected = Range(factors) /\ boundaries = {"compared"} =>
      run.tree = disk[Other(run.base)]
=============================================================================
