--------------------------- MODULE LevelledForest ---------------------------
(***************************************************************************)
(* The store behind a BlockChain (blockchain/leveled_forrest.go): maps from*)
(* IDs to vertex containers and from levels to lists of containers, pruned *)
(* from below.  A container is empty as long as its block is known only as *)
(* the parent of another block.                                            *)
(*                                                                         *)
(* The state is a record f; each method is an operator on it.  A block and *)
(* its ID are the same value (Blocks), so a full container need not hold   *)
(* the block.                                                              *)
(***************************************************************************)
EXTENDS Blocks

\* vertexContainer.  The level is the one it was created with.
Container == [level : Nat, full : BOOLEAN, children : SUBSET Block]

\* LevelledForest.
IsForest(f) ==
    /\ DOMAIN f = {"vertices", "verticesAtLevel", "LowestLevel"}
    /\ DOMAIN f.vertices \subseteq BlockID
    /\ \A id \in DOMAIN f.vertices : f.vertices[id] \in Container
    /\ DOMAIN f.verticesAtLevel \subseteq Nat
    /\ \A l \in DOMAIN f.verticesAtLevel : f.verticesAtLevel[l] \in Seq(BlockID)
    /\ f.LowestLevel \in Nat

\* NewLevelledForest.
NewLevelledForest ==
    [vertices |-> << >>, verticesAtLevel |-> << >>, LowestLevel |-> 0]

\* m[k] = v for a Go map m.
Put(m, k, v) == [x \in DOMAIN m \union {k} |-> IF x = k THEN v ELSE m[x]]

\* verticesAtLevel[l]; a missing level is a nil list.
AtLevel(f, l) ==
    IF l \in DOMAIN f.verticesAtLevel THEN f.verticesAtLevel[l] ELSE << >>

\* GetVertex and HasVertex: the full vertex is known.
HasVertex(f, id) == id \in DOMAIN f.vertices /\ f.vertices[id].full
Vertices(f) == {id \in DOMAIN f.vertices : f.vertices[id].full}

-----------------------------------------------------------------------------
(* Adding *)

\* Mutant: the container is not put on the list of its level.
CreateUnlisted(f, id, level) ==
    IF id \in DOMAIN f.vertices
    THEN f
    ELSE [f EXCEPT !.vertices = Put(@, id, [level |-> level, full |-> FALSE, children |-> {}])]

\* getOrCreateVertexContainer: an existing container keeps its level.
GetOrCreate(f, id, level) ==
    IF id \in DOMAIN f.vertices
    THEN f
    ELSE [f EXCEPT
            !.vertices = Put(@, id, [level |-> level, full |-> FALSE, children |-> {}]),
            !.verticesAtLevel = Put(@, level, Append(AtLevel(f, level), id))]

\* registerWithParent: the view of the block's QC is taken for the parent's level.
RegisterWithParent(f, b) ==
    IF f.vertices[b].level <= f.LowestLevel \/ QCOf(b).view < f.LowestLevel
    THEN f
    ELSE [GetOrCreate(f, PrevID(b), QCOf(b).view) EXCEPT
            !.vertices[PrevID(b)].children = @ \union {b}]

\* AddVertex: a vertex below the pruning level or one that is stored is ignored.
AddVertex(f, b) ==
    IF ViewOf(b) < f.LowestLevel \/ HasVertex(f, b)
    THEN f
    ELSE RegisterWithParent([GetOrCreate(f, b, ViewOf(b)) EXCEPT
                                !.vertices[b].full = TRUE], b)

-----------------------------------------------------------------------------
(* Pruning *)

\* The levels that the first loop of PruneUpToLevel visits, from the given one
\* down: at each level it takes the first container, "assume each level has only
\* one vertex", and goes on at the level of its parent.
VisitedLevels(f, level) ==
    LET visit[l \in 0..level] ==
            IF l < f.LowestLevel \/ l <= 1
            THEN {}
            ELSE LET list == AtLevel(f, l)
                     known == list # << >> /\ HasVertex(f, Head(list))
                     p == PrevID(Head(list))
                 IN  {l} \union
                     IF known /\ HasVertex(f, p) /\ ViewOf(p) >= f.LowestLevel
                     THEN visit[ViewOf(p)]
                     ELSE {}
    IN  visit[level]

\* The loop indexes an empty list or dereferences an empty container.
PrunePanics(f, level) ==
    \E l \in VisitedLevels(f, level) :
        AtLevel(f, l) = << >> \/ ~HasVertex(f, Head(AtLevel(f, l)))

\* committedLevels: the level of the parent of the first vertex of each level
\* visited, unless the parent is not stored or is below the pruning level.
LevelsCommitted(f, level) ==
    {ViewOf(p) : p \in {q \in {PrevID(Head(AtLevel(f, l))) : l \in VisitedLevels(f, level)} :
                            HasVertex(f, q) /\ ViewOf(q) >= f.LowestLevel}}

\* The containers of the levels that are pruned.
Pruned(f, level) ==
    UNION {{AtLevel(f, l)[i] : i \in DOMAIN AtLevel(f, l)} : l \in f.LowestLevel..(level - 1)}


\* forkedBlocks: what is pruned at a level that is not committed; level 1 never
\* counts as forked.
Forked(f, level) ==
    UNION {{v \in {AtLevel(f, l)[i] : i \in DOMAIN AtLevel(f, l)} : HasVertex(f, v)} :
            l \in {k \in f.LowestLevel..(level - 1) :
                        k > 1 /\ k \notin LevelsCommitted(f, level)}}


\* PruneUpToLevel, for a level that is not below the pruning level.
PruneUpToLevel(f, level) ==
    [vertices |-> [id \in DOMAIN f.vertices \ Pruned(f, level) |-> f.vertices[id]],
     verticesAtLevel |-> [l \in {k \in DOMAIN f.verticesAtLevel : k >= level} |->
                            f.verticesAtLevel[l]],
     LowestLevel |-> level]

=============================================================================
