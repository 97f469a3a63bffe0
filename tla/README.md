# A verification development of Mmg in TLA+

Mmg remeshes triangulations of the plane (`mmg2d`), of surfaces (`mmgs`) and
tetrahedral meshes (`mmg3d`). It is sequential C: what is hard in it is not
concurrency but long sequences of local edits of a mesh that is stored as
parallel arrays with free lists and adjacency tables threaded through them,
arrays that are reallocated in the middle of those edits under a memory limit,
and error paths that are hardly ever taken. The modules here model that part of
the code: the storage, the hash tables, the operators and waves of the 2D remesher,
and of the volume remesher the pattern splits and the discretisation of a level set.

Paths are relative to the repository (`src/` holds it here, so that
`src/src/mmg2d` is its directory `src/mmg2d`).

## The system

| component | state | operations | depends on |
|---|---|---|---|
| 2D allocation (`zaldy_2d.c`, macros of `libmmg2d_private.h`) | `np npmax npnil point[].tmp`, `nt ntmax nenil tria[].v[2]`, `memCur memMax gap`, `sol->npmax`, `adja` | `newPt delPt newElt delElt`, `POINT_REALLOC`, `TRIA_REALLOC`, `setMeshSize_alloc` | `MMG5_TAB_RECALLOC` |
| packing and adjacency (`hash_2d.c`) | the same, `adja`, `edge`, `quadra` | `hashTria`, `hashQuad`, `assignEdge`, `bdryEdge`, `pack` | allocation, hash tables |
| hash tables (`common/hash.c`) | `item max nxt siz` | `hashNew hashEdge hashFace hashEdgeTag hashUpdate hashGet`, `mmgHashTria` | `MMG5_TAB_RECALLOC` |
| ball of a vertex (`common/boulep.c`) | none | `boulet`, `bouler`, `boulep`, `boulen`, `boulec` | adjacency |
| analysis (`analys_2d.c`) | `tag ref edg` of vertices and edges | `setadj`, `singul`, `norver` | adjacency |
| split (`split_2d.c`), collapse (`colver_2d.c`), swap (`swapar_2d.c`), relocation (`movpt_2d.c`, `anisomovpt_2d.c`) | the mesh | a check, `chk...`, and an edit | allocation, ball |
| waves (`mmg2d1.c`) | counters of a wave | `anaelt colelt swpmsh adpspl adpcol movtri`, `anatri adptri mmg2d1n` | the operators |
| mesh generation (`mmg2d2.c`, `delone_2d.c`, `locate_2d.c`, `enforcement_2d.c`) | the mesh, `base`, `flag` | location, Delaunay cavity, enforcement of edges | allocation, swap |
| level set in 2D (`mmg2d6.c`), Lagrangian motion (`mmg2d9.c`) | the mesh, a solution | cut along the isovalue; dichotomy on a displacement | hash tables, split |
| volume: pattern splits (`split_3d.c`) and their waves (`mmg3d1.c`) | `tetra xtetra point`, `flag` per tetrahedron, a hash table of edges | `anatets_iso anatetv anatet`, `split1` to `split6`, their `_sim` and `_cfg` | hash tables, allocation |
| volume: level set (`mmg3d2.c`), materials (`common/mmg2.c`) | the mesh, `sol`, `invmat` | `snpval_ls ismaniball resetRef_ls rmc cuttet_ls setref_ls`, `chkmani` | pattern splits, hash tables |
| library and API (`libmmg2d.c`, `API_functions_2d.c`) | the cursors `npi nti nai`, `info` | setters, getters, `mmg2dlib`, `mmg2dls`, `mmg2dmov`, `mmg2dmesh` | all of the above |
| sizes, metrics, qualities | a metric per vertex | floating-point computations | |
| `mmgs`, the rest of `mmg3d` | the same on surfaces and tetrahedra | the same, and shells, ridges, octree | `common/` |
| input, output, bindings, renumbering | | | |

`PROJECT.json` lists them all with what is modelled of each, and why a part is
not. The components talk through the mesh structure only: an operator is called
by a wave, asks the allocation for slots, edits vertices, triangles and
adjacencies in place, and returns an integer that tells "done", "refused" and
"memory is short" apart, or does not.

What is hard to test here, and what must hold:

* *Free lists.* They are threaded through fields that mean something else when
  the slot is in use, the order of deletions decides their shape, and a
  reallocation or a packing links them again from scratch. No slot in use may be
  handed out, none may be forgotten.
* *Growth under a limit.* The vertices grow, then the metric; the triangles
  grow, then the adjacencies. The limit can stop any of the four.
* *Hash tables.* Chains and unused cells share a field, in a table that is
  reallocated during an insertion. The table must be a map.
* *Operators.* After any sequence of splits, collapses, swaps and moves the
  mesh must be conform (adjacencies symmetric and exact), oriented, tagged the
  same way on both sides of an edge; interfaces, corners and required entities
  must be kept.
* *Short memory.* The library promises a conform mesh when it fails softly.
* *Termination.* Each loop of waves is bounded only by a number of iterations.
* *Patterns.* Tetrahedra are cut one by one, without a look at their neighbours:
  the pieces on both sides of a face must match, fill the domain and inherit the
  right tags.
* *Level sets.* Setting small values to zero may pinch the surface; a correction
  may spoil what was examined before. The cut must leave each tetrahedron on one
  side, with the reference of that side.

## The modules

| module | models |
|---|---|
| `SlotPool` | one array of slots with its free list: the functions that `newPt`, `delPt`, `newElt`, `delElt`, the reallocation macros and `pack` apply to it, and what a correct list is |
| `TabRecalloc` | the arithmetic of `MMG5_TAB_RECALLOC` |
| `MeshMem` | vertices, triangles, metric and adjacencies of a mesh under one memory limit, over several library calls (uses the two above) |
| `IdAllocator` | abstract: what the rest of the program takes an array of slots for |
| `MeshMemProofs`, `EdgeHashProofs`, `TetPatternsProofs`, `Adapt2DProofs`, `Anatet3DProofs`, `LevelSet3DProofs` | the theorems about the module of that name; `Adapt2DProofs` also those about `Anatri2D` |
| `SlotPoolProofs` | lemmas about `SlotPool`, and those on natural numbers, recursive functions and sequences that all of these share |
| `Mesh2DProofs` | what a collapse, a split, a swap and a move keep of a mesh, apart from the code that does them (used by `Adapt2DProofs`); that the pieces of the pattern split join, and the adjacencies built on them |
| `EdgeHash` | a hash table filled by one of the three functions of `common/hash.c` (uses `TabRecalloc`) |
| `EdgeMap` | abstract: the map its callers take it for |
| `EdgePoints` | step 1 of `MMG2D_anaelt`, that fills such a table without looking at failures |
| `Mesh2D` | the 2D mesh and its operators, as functions from meshes to meshes (uses `SlotPool`) |
| `Adapt2D` | the waves: which operator may be applied when, the analysis that tags the mesh that is loaded |
| `Anatri2D` | `MMG2D_anatri`: the pattern split, the adjacencies built again, walks of collapses and swaps, and the loops that repeat them (uses `Adapt2D`) |
| `TetPatterns` | the patterns of `split_3d.c`: numberings, pieces, tags, simulations, as functions of a flag |
| `Anatet3D` | the pattern splits of the volume remesher, `MMG3D_anatets_iso` and `MMG5_anatetv` (uses `TetPatterns`) |
| `LevelSet3D` | `MMG3D_mmg3d2`, the discretisation of a level set, with the table of materials (uses `TetPatterns`) |
| `MC...` | instances for TLC |

### `MeshMem`

`pts` and `trs` are the two arrays, records with the fields of the code: `n` is
`np` or `nt`, `nil` is `npnil` or `nenil`, `link[k]` is `point[k].tmp` or
`tria[k].v[2]`. The status of a slot tells what the loops of the remesher see:
`live`, `nul` (skipped), and, for vertices, `zero`: cleared memory that has
never been handed out, which passes the test `MG_VOK` although it is no vertex.

Each action is one call with everything it does: `NewVertex` and `NewTria`
when the list is not empty; `GrowVertices` and `GrowTrias`, the whole
reallocation macro and the new attempt that ends it; `NoMoreVertex`,
`NoMoreMetric`, `NoMoreTria`, `NoMoreAdja`, the ways it fails, with the law
that the callers pass to it; `DeleteVertex`, `DeleteTria`. `MMG2D_pack` ends a library call and goes slot by
slot, as its loops do: `NumberVertex` writes the number of a vertex in its `tmp`,
`SlideTria` and `SlidePoint` copy a slot down to the next free one and clear it,
`PackEnd` links both lists again; `stage`, `at` and `nbl` say which loop runs,
where it is and which slot it fills. What moves along with a slot (the vertices
of a triangle, its adjacencies, the metric) is left out. `CallAgain` starts
another call on the same structures. The part by
which a table grows is a floating-point product: when it is an integer it may
come out one lower (`Wanted`). Three variables are auxiliary: `freeP` and
`freeT`, the lists that the links stand for, and `clean`, which says whether
every packing left the two last slots of each array without an old link.

### `EdgeHash`

The variables are the fields of `MMG5_Hash`. The hash function is any function
from edges to chains. The three functions that insert share the branch on an
empty head (`AtHead`) and differ in when they make sure that an unused cell is
left: `MMG5_hashEdge` before it fills the cell it takes, but after it has linked
it to the chain; the two others after. A caller stops at the first failure.
`EdgePoints` is the caller that does not.

### `Mesh2D` and `Adapt2D`

A triangle is a record of its vertices, the tags of its edges, its reference
and its adjacencies; `adja[3*(k-1)+1+i] = 3*l+j` is `tria[k].adja[i] = <<l, j>>`.
A tag is a set. `Mesh2D` has the checks and the edits of the operators, each one
from the function of the same name. `Adapt2D` applies them one at a time and in
any order: `SplitEdge`, `GiveUpSplit`, `NoVertexLeft` and `NoSecondTria` are the
ways one visit of a triangle in `MMG2D_adpspl` may end, `CollapseEdge` one in
`MMG2D_adpcol`, `SwapEdge` one in `MMG2D_swpmsh`, `MoveVertex` one of a vertex in
`MMG2D_movtri`. `Init` is a mesh that has been loaded, hashed and analysed
(`Across`, `EdgeTag`, `PointTag`, `Singular`). The analysis of a vertex is made once,
from the first triangle that has it, on the edges of the fan that `MMG5_bouler` walks from
there (`FirstFan`, `Linked`): where two fans touch at a vertex it sees one of them.

What is abstracted, and how:

* Lengths and qualities decide which edge is worth an operator. They are a
  choice, except that an operator that tests a quality needs positive areas,
  which are computed: that is what the tests on qualities guarantee.
* Coordinates are integers, large enough for the halvings that occur; a division
  rounds down, in the coordinates only.
* Boundaries are straight: the point put on a curve is the middle of its edge.
* Edge references (`edg`) are left out: the code copies them where it copies
  tags. With them goes the test of `MMG2D_singul` that makes a vertex between two curves
  of different references required (`analys_2d.c:383`). Left out too: open boundaries, `nosurf`, quadrilaterals, negative
  references of triangles.
* The arrays do not grow: a reallocation fails. Growth is in `MeshMem`. After
  a failure has broken off an operator (`short`) the model stops.
* `calloc` and `realloc` succeed. The memory of the other tables is taken off
  `MemMax`.
* `SizeAssumption` asks for at least one free slot in each array at loading.

### `Anatri2D`

The first stages of the remeshing as the loops they are: a step is one vertex or
one triangle of a loop of `MMG2D_anaelt`, one edge of a walk, or the end of a loop.
`Mark` and `MarkEnd` are the flags of step 1 (which edges are too long is a choice;
the edges that `info.fem` adds are computed); `CreatePoint` creates the vertex of an
edge once, in the order of the triangles, and puts it in the table; `NoPointLeft` is the
law that deletes the last vertex again and again; `CutTria` is steps 2 to 4 for one
triangle with `MMG2D_split1`, `split2` or `split3`, which take their slots before they
touch the triangle; `HashTria` builds the adjacencies of all triangles;
`CollapseInWalk` and `SwapInWalk` are the operators of `Adapt2D` in the order of the
triangles; `SwapAgain` and `SwapEnd` hold the tests of the loops. Between two loops
the mesh must be whole (`WaveConform`, `WaveTagsAgree`, `WaveNoOrphan`); inside them
triangles of both ages lie side by side. As edges are straight no cut is ever
invalid: `MMG2D_dichoto`, that moves vertices until none is, has no effect and is
left out; so is the growth of the arrays.

### `TetPatterns` and `Anatet3D`

`split_3d.c` writes each of its ten families of patterns once, for a reference flag,
and reaches the other flags by a numbering of the tetrahedron (`tau`, `taued`).
`TetPatterns` has it the same way: for each family the table from flags to numberings
and the list of pieces. A piece gives its vertices (0 to 3, or `m0` to `m5`, the
points of the edges), for each edge the tag it takes (kept, none, or that of a face),
and the faces that leave the boundary. What `split_3d.c` does piece by piece in
assignments is read off this table by `XTetraOf` and `Pasted` of `Anatet3D`.

`Anatet3D` runs one or two waves on a mesh whose boundary has been analysed (`Init`).
`Create` makes the point of one edge, in the order of the loops of the analysis:
which edges are too long is a choice (`chosen`), except in `MMG5_anatetv`, where an
edge inside the domain between two vertices of the boundary is always cut (`Forced`).
After it the edge receives its point (`Insert`), or the metric of the point or the entry of the
edge in the table fails and the wave returns -1 with the points it has made left where they
are (`InsertFails`, `ret = "leaked"`). `NoTable` is the return of -1 before any point is made.
`NoRoom` and `Skip` are the two ways to give up; `Simulate` is what a sweep of
`anatets_iso` does with one tetrahedron (accept, move the points, delete them), `SweepEnd`
the loop, `Cut` and `CutFails` the split of one tetrahedron, `CutEnd` the return.
Vertices have integer coordinates; a point is the middle of its edge, since boundaries
are straight, so that volumes are exact. Simulations therefore never have to refuse:
that they do is a choice, as it depends on curved boundaries. The tag of an edge or face is
the set of vertices of the edge or face of the initial boundary it lies in, which is what
makes inheritance visible. `MMG5_split6` reads the tags of faces from a
variable it has not set: a choice between the right ones and others. The tables of
xpoints and xtetras are supposed to find room. The branch for a metric routine that answers -1 (`mmg3d1.c:1507`, `2406`), which
deletes the point and goes on, is left out: `MMG5_intregmet` does so (`intmet_3d.c:249`) for an edge of the boundary in a
tetrahedron whose faces at it are not, and `MMG3D_anatets_iso` comes to an edge by a face of the boundary while
`MMG5_anatetv` cuts no edge of it.

### `LevelSet3D`

The values are signs. `snapped` holds the vertices with flag 1, whose value has been set
to 0. `Correct` is one failure of `MMG3D_ismaniball` in the loop of
`MMG3D_snpval_ls`, with the two walks through the ball translated as they are, the local
indices of the wrong tetrahedron included; `SweepEnd` the end of a sweep and
`MMG3D_resetRef_ls`; `Rmc` one component of `MMG3D_rmc`, removed or not (its volume is
not modelled); `StartCut`, `NewPoint`, `PointsEnd`, `Cut` the loops of
`MMG3D_cuttet_ls`; `CutEnd` its return, which is a failure when no tetrahedron has been cut,
and `MMG3D_setref_ls`. `left` is a history variable: the tetrahedra with a flag that the
`switch` does not know. `chkmani` is the check that the remesher makes of the result. The
complexes have no coordinates: nothing here depends on them but the choices above.

## The runs

| run | distinct states | what it shows |
|---|---|---|
| `MeshMem` | 254 000 | one library call, two vertices and one triangle in arrays of four slots, growth to six, a limit of 34 units of which 28 are used at loading. Types, budget, both free lists, every vertex slides to the slot it was numbered for, the packed mesh is `1..np`, `1..nt`, and each array is the abstract allocator |
| `MeshMemStale` | violated | without that condition the second call hands out a slot in use |
| `MeshMemFull` | violated | a reallocation that fails half-way leaves an array longer than the one that follows it |
| `EdgeHash` | 3 600 up to symmetry | four edges, all hash functions onto two chains, two unused cells and room for two more: chains end and are apart, unused cells are unused, the table is the map |
| `EdgePoints` | violated | the vertex of an edge is lost when the table cannot grow |
| `Adapt2D` | 226 000 | five operators in any order, one of them a move, on a square of four triangles with room for eight, with and without `info.fem` |
| `Anatri2D` | 24 000 | two iterations of `MMG2D_anatri` on a square of three triangles with an interface and a required side: all patterns of cuts, slots of either kind running out, collapses and swaps. Between the loops the mesh is conform and tagged, no piece is inverted, no region changes; the loops end |
| `Anatri2DFull` | violated | short of vertices, the wave deletes one that is in use |
| `Adapt2DFull` | violated | when memory is short a split leaves a mesh that is not conform |
| `Anatet3D` | 161 000 | pattern splits of one to four tetrahedra: pieces have positive volumes, fill the domain and match at all faces; each piece at the boundary has its own xtetra with the right tags; what is cut is what the last simulation accepted; points that are given back are not vertices, and no other way to return leaves points behind but the failures in the midst of an insertion or a cut |
| `Anatet3DTags` | violated | the pieces of `MMG5_split6` take tags from a variable that is not set |
| `LevelSet3D` | 26 000 | level sets on two to eleven tetrahedra: both sides are apart with the right references, the mesh stays conform, `MMG3D_chkmani` accepts the surface |

The bounds. In `MeshMem` arrays of four to six slots are enough for each branch:
the list linked from `np+1` may have one, two or no slot, a slot in the middle
may be given back before or after the last one, and the limit 34 stops either
array, the metric or the adjacencies depending on the order of the requests.
`Int32Limit = 5` lets the check on 32-bit indices pass, cut the gap or refuse.
Two calls (`MeshMemStale`) are the least for an old link to be followed; that the free
lists stay right over any number of calls is proved. In `EdgeHash`,
four edges on two chains give chains of one to four cells, and the table grows
zero, one or two times before it fails. `Adapt2D` has all kinds of edges and
vertices in four triangles: an open ball and a closed one, of two, three and
more triangles, a corner, an interface with its two non-manifold ends, a
required side; room for four more triangles lets a split be followed by
the collapse, swap and move of what it made. Five operators reach every
disjunct; the counters `ops` and `moves` are the bound, not the size of the
arrays. Deadlock is not checked where the model reaches its bound or where the
system may stop: a library call that has packed its mesh, a table that has
failed, a wave that has run out of memory.

`Anatri2D` starts with two edges that are too long at most, and with those that
`info.fem` adds: enough for a triangle to be cut along one, two and three edges, and
for its neighbour to be cut by a flag it did not set. A walk changes one edge in the
first iteration and none in the second; two iterations (five in the code) are the
least for vertices and triangles that come out of a wave to go through another
one. Three sets of options cover both values of `typchk`, `noinsert` and `noswap`.

`Anatet3D` takes one tetrahedron in its 24 numberings with all 64 flags, which is every
pattern with every order of the numbers of its vertices; two tetrahedra, of one
reference or two, in six numberings with up to four points, for the faces where
patterns meet; three around an edge and four around a vertex inside the domain, for
`MMG5_anatetv`; both waves one after the other; room for fewer points and tetrahedra than
are asked for; a required tetrahedron. The limit of 40 sweeps is not reached: on
these meshes points that have been moved three times are deleted long before.

`LevelSet3D` takes the octahedron around one vertex with all values on it, small or
not, so that each ball that eight tetrahedra allow occurs; eleven tetrahedra around two
vertices, whose corrections act on each other, and with components that may be removed; a cube of
six tetrahedra with materials, where tetrahedra that are not to be split lie between
tetrahedra that are; two tetrahedra with little room and an unknown reference. Larger
complexes (all values on the eleven tetrahedra and on the cube) have been run once
without a violation and are not kept, for their time. Deadlock is not checked in these
two modules: they end.

Fairness is weak fairness of the next-state relation of `Anatri2D`: the program has
one thread, and a loop that can go on does. Nothing is assumed of the choices
(which edges are too long, which operator is worth it): `Terminates` holds whatever they
are, and would not if one of the loops had no limit. The other modules state no
liveness property and assume no fairness.

### What the violations say

They are behaviours of the code that contradict a comment of it, and are
listed with the quotation in `PROJECT.json`.

* `MMG2D_pack` links the free slots with a loop that ends at `npmax-2`. In a
  fresh array the last slots hold 0; after a library call they may hold the
  link they got when they were given back, and it leads to a slot that the
  packing has filled. It takes a call in which the last slots have been used.
* `MMG2D_POINT_REALLOC` raises `npmax` and links the list before it knows
  whether the metric can grow, and so does `MMG2D_TRIA_REALLOC` for the
  adjacencies; the callers go on.
* `MMG2D_anaelt` ignores the value of `MMG5_hashEdge`.
* `MMG2D_anaelt`, short of vertices, deletes the last one before it looks whether it
  has created one; the library then packs the mesh as one that can be saved.
* `MMG5_split6` fills its local `ftag` from a structure that is copied later.
* `MMG2D_split1b` fails after one of the two triangles has been cut, and
  `MMG2D_adpspl` returns the number of splits and not -1.

## What is proved

`MeshMemProofs` and `SlotPoolProofs`, for all sizes, costs, growth factors,
limits and numbers of calls, from `SizeAssumption`, `CostAssumption` and
`GapAssumption`:

* `TypeCorrect`, `BudgetKept`: the invariants of the same names.
* `PackedIsDense`, for one library call: the loops of `MMG2D_pack` carry each vertex
  to its number and leave `1..np` and `1..nt` in use.
* `VertexListCorrect`, `TriaListCorrect`: the free lists are right while `clean`
  holds. `CleanNextIdFree`: then the next identifier is free. Together with the run
  `MeshMemStale` this locates the defect: the two last slots at packing are its
  only cause.
* `VerticesRefine`, `TriasRefine`: during a library call each array implements
  `IdAllocator`.

The argument. `FreeListOK` cannot be proved alone. That a reallocation may link the
list again from `np+1` depends on there being no free slot below `np` when the
list is empty (lemma `EmptyList`), which is why `FreeListOK` says that every slot
out of use up to the highest one ever handed out is in the list, and that the
list is made of slots that have been given back followed by slots never handed out
in increasing order (`Divided`). What holds of the last index when `delPt` steps
down over deleted slots is `LastValidStops`: with cleared vertices passing
`MG_VOK`, it needs that none of them lies below `np`. The inductive invariant is

    IndInv == TypeOK, arrays not empty, VertexListOK, TriaListOK, Budget, PackInv

`PackInv` says where each loop of `MMG2D_pack` stands: what is below the slot it
fills is in use, what lies between that slot and the one it looks at is not, and
a vertex ahead was given the number of the slot it will be slid to, which is one
more than that of the vertex in use before it. Each operation of `SlotPool` has
one lemma for the type, one for the list (or for the loop) and one for the set
of slots in use; `StepInv` has one step per action. The refinement uses
`CallInv`, which adds that the lists are clean until the call has packed.

`EdgeHashProofs`, for every set of edges, every hash function, all sizes, growth
factors and memory limits, from `TableAssumption`:

* `TypeCorrect`, `ChainsStayApart`, `UnusedCellsCorrect`: the invariants `TypeOK`,
  `ChainsApart` and `UnusedCells`.
* `TableIsMap`: `EdgeHash` implements `EdgeMap`, up to and including the first failure.

The argument. That chains end and share no cell is not inductive: an edge that no
chain leads to would be overwritten later, and one listed twice would be found
twice. Between two calls the table is `Good`: its cells are typed (`Typed`); the cells
from `nxt` on are empty and linked in order (`Apart`); a head that holds an edge holds one
of its own key, and an empty one has no link (`Homed`); no edge is listed twice
(`Once`); each edge is in the chain where it is looked for (`Reached`); what is
stored is what the function stores (`Holds`). The inductive invariant is

    IndInv == TypeOK, ChainsApart, and Good with nxt < max as long as no call failed

In such a table links go up (`GoodChained`), which is why chains end (`ChainEnd`): the
bound on a walk and the last cell of a chain come from a least counterexample
(`LeastNat`), not from an induction over walks. A chain is no more than the cells whose edge
has its key (`GoodVisited`), so chains are apart, and the cells nobody can reach are
those from `nxt` on. An insertion puts an edge at an empty head (`PutAtHead`), at the end
of a chain (`PutAtEnd`), or there with more cells behind (`MoreCells`);
`MMG5_hashEdge` fills its cell after the reallocation and the others before, which gives
the same table (`FillLater`). After a failed `MMG5_hashEdge` the chain ends in an unused
cell (`TornChain`): the table is no longer `Good`, but the chains still end and are apart,
which is all a caller that stops may rely on. The table stands for
the map `MapOf`, each lemma about a table says what becomes of it, and
`StepRefines` has one case per function.

`Adapt2DProofs`, for every mesh of the plane in which a vertex where two fans touch has been found singular, all sizes of the two arrays, any order and number of operators, from
`MeshAssumption` and `LoadedAssumption`:

* `AdaptTypeOK`, `AdaptTagsAgree`, `AdaptOriented`, `AdaptNoOrphan`: the invariants `TypeOK`, `TagsAgree`, `Oriented` and
  `NoOrphan`. `AdaptAdjacent`: the first half of `Conform`, that adjacencies are symmetric and right.
* `AdaptSingularKept`, `AdaptNoNewBridge`: the action properties `SingularKept` and `NoNewBridge`.

`LoadedAssumption` says of the mesh that is loaded that it is one of the plane: each vertex is used, two triangles see
the edge they share in opposite directions, and where the triangles around a vertex are more than one fan,
`MMG2D_singul`, which sees the first one, has made the vertex a corner, required or non-manifold. A vertex between two
fans the first of which looks straight is thus excluded; the last section says what happens to it. TLC evaluates the
assumption on the meshes of the runs, which have no vertex with two fans; nothing is assumed of any later mesh.

The argument. None of these invariants is inductive. A collapse moves the triangles that `MMG5_boulet`
finds by turning around the vertex, and then deletes the vertex: it leaves no triangle on a deleted vertex only if the
turns meet *all* the triangles of the vertex. So `Sound` has a part `OneFan`: a set of corners that holds, across each edge,
both corners of an end or none (`Closed`) holds all corners of a vertex that may move (`Movable`: not a corner, required or
non-manifold) or none of them. In this form nothing is said of
paths, and to show that an operator keeps it, a closed set of the mesh after is read as a set of the mesh before (`Rejoined` for
a split, `Swung` for a swap, `Filling` for a collapse) and shown to be closed there. The corners
that `MMG5_boulet` returns are closed (`ClosedByTurns`), so they are the ball (`BouletHolds`); that its loop stops is a count of
triangles (`RunStops`). The other parts of `Sound`: `OnLive`, `Joined` (adjacencies), `Positive` (areas), `Used` (vertices),
`Tagged` (tags on both sides of an edge and at its ends, and what they are), `Lists` (both free lists: a slot that is handed out is
not in use), and `Plain`: a vertex that is not singular has the tags of one curve at most. A collapse along a boundary needs the last one, as
`MMG2D_chkcol` compares the tags of vertices and edges only in part. The inductive invariant is

    IInv == types, and Sound(mesh) as long as no slot was missing

The proof has two layers. `Mesh2DProofs` describes each operator by what it does to the darts (the edges seen from their
triangles) of a mesh, `After`, `Splits`, `Swaps`, and shows that this keeps each part of `Sound` (`CollapseSound`, `SplitSoundly`,
`SwapSoundly`, `MoveSoundly`). `Adapt2DProofs` shows that the functions of the code, with their assignments in their order, do just this:
`SplitSteps`, `CollapseSteps` with `ColverIs`, `Colver2Is` and `Colver3Is` for the three ways to collapse, `SwapSteps`, `MoveSteps`,
`GiveUpSteps`; `LoadedSound` does it for the initial mesh, and `NextSteps` puts them together. Oriented triangles come from the
tests of `MMG2D_chkspl`, `MMG2D_chkcol`, `MMG2D_chkswp` and `MMG2D_movintpt`, each of which looks at some of the triangles only.

`CutsConform` in `Mesh2DProofs` is about the pattern split of `Anatri2D` (`Split1`, `Split2`, `Split3` of `Mesh2D`). Steps 2 to 4
of `MMG2D_anaelt` cut each triangle without a look at its neighbours. For any set of triangles that conforms (`Conforming`: no
two on the same side of an edge, the tags of an edge those that the references across it ask for, or those of the hull) and
any points on its edges, one for each edge that is cut, the pieces conform, and their vertices are
the old ones and all the points: no half of an edge is without its other side, no tag is lost with the triangle
that is replaced. The argument: the pieces of one triangle fit in it (`FitIn`, shown for each pattern by `Fit1`, `Fit2`, `Fit3`); the
vertices that the ends of a side come from (`Origin`) are three for a side inside a triangle and two for
a part of a side of it, so that a side of a piece tells its triangle or the edge it is part of (`BothPlaces`), and what is across
a part of an edge is across the edge (`Facing`, `FacesBack`). On the instance of the run `Anatri2D`, TLC finds the triangles
conforming between the loops and before the adjacencies are built.

`WaveCut` and `FirstCut` in `Adapt2DProofs` carry this over to the loops of `MMG2D_anaelt` and to `MMG2D_hashTria`, with
their table, their free lists and their order: an iteration of `MMG2D_anatri` that starts from a mesh which is sound and
`Simple` (triangles that share an edge are adjacent; `Ready`) has `WaveConform`, `WaveTagsAgree` and `WaveNoOrphan` until a
collapse or a swap changes something (`Untouched`). The first iteration starts so for every
mesh of `LoadedAssumption` (`LoadedSimple`); TLC finds the second iteration of the run `Anatri2D` starting so too. The
invariant (`WaveInv`) has one part per stage:

* `MarkInv`: the mesh is `Ready`. `WholeConforms` turns this into a set of triangles that conforms.
* `CreateInv`: in addition the table gives each edge a point of its own, with the tags of both sides, and every vertex in use is one of a triangle
  or in the table (`Tabled`). `OppositeSides` is why the tags of the side that comes first are enough.
* `CutInv`: there are triangles `tr`, those of the start, and `D`, those of them that have been cut, and each slot in use holds a triangle that has not been
  cut or one piece of one that has, each piece once (`Cutting`). That a piece is never cut again, though the slots it takes may come after
  the triangle in the walk, is `NoMoreCuts`; that the slots are free is `HeadsTaken`. `CutsDone` is the end.
* `HashInv`: the triangles conform, whatever their `adja` hold; `RehashJoins` shows that `MMG2D_hashTria` then finds one triangle at
  most across each edge, and that this gives back symmetric adjacencies and right tags.

When vertices or triangles run out, the wave is in `giveBack` or `failed`, of which the theorems say nothing.

`TetPatternsProofs`, for every set of flagged edges and every order of the global numbers of
the vertices:

* `SplitUses`, `SplitShows`: the pieces have four different vertices, and use those of
  the tetrahedron and the points of the flagged edges, all of them and no others.
* `SplitSimulated`: every piece is one that the `_sim` function has tested.
* `SplitOneSide`: when the flagged edges are those where a sign function changes (`CutBy`), no piece
  has vertices on both sides of the surface, nor all of its vertices in it.
* `SplitFaces`, `SplitEdges`: what the tag rules and the reset faces of a piece tell about
  where its faces and edges lie.

The argument. `split_3d.c` tests none of this: its ten functions are written for a reference
flag and reach the others by tables of numberings. `Consistent` says of a numbering that it
renumbers vertices and edges alike; each row of each table is shown to be consistent and to
bring the flag to the one of its family (`split1_flags` to `split6_flags`). Then a property of the pieces is shown once per family, on the reference
numbering, for every outcome of the comparisons of global numbers, and carried over. `Roots` of a vertex of
a piece are the vertices of the tetrahedron it comes from: itself, or the ends of its
edge.

The same module: `SplitFits`. Each cut is made without a look at the neighbours, and the
diagonals are chosen in the numbering of a flag, so that it is not clear that two tetrahedra cut their
common face alike. `FaceCut` is what they have in common: a triangle, the points of its edges and the
order of its global numbers. For each list of pieces in the source and each order of the
numbers it is written for, a lemma `<list>_fits` shows that its pieces share each face inside two by two, that
those on a face of the tetrahedron are the triangles of its `FaceCut`, and that no piece is in another one
(`Fits`); `PiecesFit` puts them together. `FaceCutRenamed` shows that a renaming of
vertices renames the cut, and a numbering is one (`NamingKeeps`), which carries `Fits` over to all flags.
`CutsFit` is about any conforming set of tetrahedra (`Conforming`: at each face of one there is one other, or none at
the hull): when all of them are cut, each by the flag of its edges that have a point, the pieces conform. A face of a
piece that is inside a tetrahedron has its two pieces by `Fits`; one that lies on a face has one from either side,
because both sides see the same points and numbers, and so the same `FaceCut`.
`MeshOf` is the form in which the two users of the patterns state it: each tetrahedron with the list of its pieces, made or
still to be made; `Unrolled` says that making them changes nothing.

`LevelSet3DProofs`, for every mesh, level set, table of materials and references left by an
earlier run, from `InputsAssumption` and `ConformingAssumption`:

* `LevelSetTypes`, `LevelSetSidesApart`: the invariants `TypeOK` and `SidesApart`.
* `LeftAreNotSplit`: a tetrahedron that reaches `MMG3D_cuttet_ls` with a flag that has no pattern
  (the assertion at `mmg3d2.c:1235`) is of a material that is not to be split.
* `LevelSetConform`: the invariant `Conform`. `ConformingAssumption` is needed by it only: the mesh that is
  loaded conforms, without which `Conform` would be false of a mesh that no edge of is cut.

`SidesApart` says something of the end only. The inductive invariant (`IInv`) has one part per
stage: `Snapping` and `Removing` keep the values and the table of vertices that were snapped
consistent; `Pointing` says that an edge has a point when its values have
different signs, unless no tetrahedron around it is to be split; `Cutting` says that each tetrahedron still to be cut is as it was,
and that the pieces of the others are within one side and carry the reference they
had, by `SplitOneSide`.

`Conform` needs two more invariants. `Places`: a vertex of the input is where it was, and the point of an
edge between its two ends, so that no two edges share a point. `CellsIInv`: as long as nothing was left uncut, the
mesh that the waiting cuts will make conforms (`MeshOf`, as for `FacesMatch` below), its hull being
the faces whose vertices all come from one face of the hull of the input (`HullFaces`). That plan conforms
when the points have been made (`StartCells`), by `CutsFit`: a piece has a face in the hull when the
tetrahedron has it there and the pattern does not reset it (`PieceHull`, from `SplitFaces`). A cut
moves its pieces from the plan into the mesh (`CutCells`, by `Unrolled`). `CellsCounted` reads off the
counts that `Conform` speaks of.

`Anatet3DProofs`, for every mesh, option and number of waves, from `MeshesAssumption` and
`ConformingAssumption`:

* `AnatetRefusalsEnd`: the invariant `RefusalsEnd`.
* `AnatetTypes`, `AnatetPointsInUse`, `AnatetCutAsSimulated`: `TypeOK`, `PointsInUse` and the action
  property `CutAsSimulated`.
* `AnatetBoundaryKept`, `AnatetTagsInherited`, `AnatetOrientationKept`: the invariants on tags and on the
  orientation bits of the faces at the boundary.
* `AnatetFacesMatch`: the invariant `FacesMatch`, which is what makes the result a mesh.

`ConformingAssumption` is needed by the last one only: in the mesh that is loaded no tetrahedron is
there twice and at most two share a face. `MMG3D_hashTetra` (`hash_3d.c:122`) has no place for a third,
and `FacesMatch` would be false in the initial state.

All but the first are of the form `Spec /\ []SweepsSuffice => ...`: `SweepsSuffice` says that the loop of
simulations has ended because its last sweep refused nothing, and not
because of its limit of 40 sweeps (`mmg3d1.c:2646`). When the limit cuts it short, flags may name points
that a later tetrahedron of the last sweep has deleted, and `assert(vx[ia])` (`mmg3d1.c:2665`) is
all there is. The hypothesis is not idle, and it is not
always true; `AnatetSweepsSuffice` says when it is: in any wave that has inserted at most nine points, or
refused fewer than 39 times. It holds in all behaviours of the run `Anatet3D`.

The inductive invariant `IInv` was checked by TLC on the meshes of that run before it was
proved. `PointsInUse` looks at the ends of waves only, those excepted that break off an insertion (`InsertFails`) or a
cut; in between, a point in use is a vertex or it is
the point of a flagged edge of a tetrahedron that the wave has yet to cut (`Used`,
`Pending`, `Expected`), the points of different edges are different and not yet vertices of anything (`OwnPoints`,
`Apart`), and the flags that will be cut are those the last simulation saw (`UpToDate`). A
sweep leaves flags behind it that are too large; they are right only when nothing is refused after
(`Sweeping`). Tags need a second invariant, `TagsIInv`, on top of the first. `EdgeOrigins`: a new point comes from the
vertices that the ends of its edge come from. `Spread`: the four vertices of any tetrahedron come
from four different vertices of the initial mesh, so that what
comes from more than three vertices is in no face of it, and what a pattern resets has no tag to lose. `WellTagged`: the tags are
those of the properties. Each cut keeps it by `SplitFaces` and `SplitEdges`, without a
look at the individual patterns.

`FacesMatch` looks at the mesh between the waves. In the middle of the cuts there are tetrahedra cut next to
others that are not, and two things make it go right in the end. First, a flag names *all* the edges that
have a point: a required tetrahedron has no flag, and an edge with a required tag is left out of the flags, so that
no edge of a required tetrahedron may have a point. This is the third invariant, `ReqIInv`: no
point lies on an edge of a required tetrahedron (`NotRequired`), these edges are
there as long as the wave runs (`ReqSeen`), and the tags tell which they are (`ReqTags`). Second, `CutsFit`. `FacesIInv`
says of any moment that the mesh which the waiting cuts will make conforms (`MeshOf`): a cut
only moves its pieces from the plan into the mesh (`CutFaces`), and what has to be shown is that the plan conforms
when it is made (`BeginFaces`), from `CutsFit` and the conforming mesh before.

Only model-checked, for this or that reason:

* `Filled` halves coordinates with a division that rounds down, inside determinants: beyond the
  arithmetic of the provers.
* `Manifold` depends on what the walks of `MMG3D_ismaniball` visit.
* Of `Conform` in `Adapt2D`, that no two triangles share an edge without being adjacent. A swap or a collapse makes no edge
  which is already there because the mesh lies in the plane and areas stay positive; no operator looks for such an
  edge. The argument is one about the winding of a plane mesh, not about the operators.
* The invariants `WaveTypeOK`, `WaveConform`, `WaveTagsAgree` and `WaveNoOrphan` of `Anatri2D` once a walk has collapsed or
  swapped something, for the same reason: `MMG2D_hashTria` makes two triangles adjacent when they share an edge, and in the
  second iteration it does so after collapses. If three triangles shared one, its result would not even be
  symmetric. `WaveCut` takes each iteration up to its first walk. Beyond it, the mesh would have to be sound again: the middle of
  an edge is rounded down in the model, so that areas stay positive only on coordinates that are even enough, as those of the run are.
* `RegionsKept` is about the sum of the areas of a set of triangles: an induction over sets.
* `Terminates`: liveness is out of the prover's reach.

## Seen while modelling, and not a violated property

* With materials, `MMG3D_chkmani` examines nothing: `MMG5_isNotSplit` (`mmg2.c:456`) answers
  the contrary of what its comment says for references inside and outside.
* A tetrahedron that is not to be split, between two that are, may get a set of cut
  edges that `MMG3D_cuttet_ls` has no pattern for (`mmg3d2.c:1235`): a debug build aborts, a release
  build goes on with a mesh that is not conform. `Conform` of `LevelSet3D` excepts it.
* When the level set crosses only materials that are not to be split, no tetrahedron is cut
  and `MMG3D_mmg3d2` reports a failure (`mmg3d2.c:1245`, `2314`).
* `MMG3D_cuttet_ls` returns -1 when its table cannot grow (`mmg3d2.c:1078`), which
  `MMG3D_mmg3d2` takes for a success.
* In the third case of `MMG5_split3op` the second piece has the orientation bit of a wrong
  face (`split_3d.c:2819`). When the face lies between two references, `MMG3D_anatets_iso` makes no point
  from its side any more (`mmg3d1.c:2322`), or does so from both. `OrientationKept` excepts those pieces: without the exception TLC
  finds it violated.
* When the metric of a new point cannot be computed, or the table of edges cannot grow, `MMG5_anatetv` and
  `MMG3D_anatets_iso` return -1 without `MMG3D_delPatternPts` (`mmg3d1.c:1505`, `1513`, `2384`, `2404`): the points of the wave
  stay in use and belong to no tetrahedron. `InsertFails` is this return; `PointsInUse` excepts it.
* `MMG3D_cuttet_ls` ignores the result of `MMG5_hashEdge` (`mmg3d2.c:1196`), as `MMG2D_anaelt` does (`EdgePoints`): when the
  table cannot grow an edge gets two points. `LevelSet3D` supposes that the table finds room.
* A vertex where two fans of triangles touch is analysed on one of them (`analys_2d.c:322`, `boulep.c:287`). If the two
  boundary edges of this one look straight, the vertex is neither a corner nor required nor non-manifold, and a collapse
  or a move, which also see one fan only, may take it: a collapse deletes it under the triangles of the other fan.
  The models start from meshes without such a vertex (`LoadedAssumption`).
* When `MMG3D_anatets_iso` leaves its loop at the fortieth sweep, a tetrahedron that was simulated before
  its neighbour's refusal deleted their common point has a flag for an edge without a point
  (`mmg3d1.c:2646`); `assert(vx[ia])` (`mmg3d1.c:2665`) is compiled out of a release build. It takes a wave of ten points or more (`AnatetSweepsSuffice`), and more
  refusals than a run can afford.
* `MMG3D_ismaniball` reads the vertices of the next tetrahedron with the local indices of
  this one (`mmg3d2.c:600`); no surface it lets pass on these complexes is refused afterwards.

## Not modelled, and the plan

In this order:

1. `Library2D`: the loops of `MMG2D_adptri` and `MMG2D_movtri`, the stages of
   `MMG2D_mmg2d1n` and `MMG2D_mmg2dlib` with their return codes. That a stage that
   failed is not reported as a success; that what is returned with
   `MMG5_LOWFAILURE` is conform, which a pattern split that runs out of triangles
   half-way puts in doubt too.
2. `MMG2D_dichoto` and the simulations `split1_sim` to `split3_sim`, on curved edges:
   no cut inverts a triangle and the search for positions ends.
3. `Memory2D`: `MMG2D_memOption_memSet` with its integer arithmetic, to replace
   `SizeAssumption`; the protocol of the setters and getters of the API.
4. Proofs. On coordinates that can be halved, that the mesh after the cut of `Anatri2D` is sound and not only conform
   (`OneFan` and `Positive` are left), so that its walks may start from it as those of `Adapt2D` do.
5. The level-set cut in the plane and on surfaces (`mmg2d6.c`, `mmg3d2s.c`, `mmgs2.c`);
   the Lagrangian dichotomy.
6. Mesh generation: location, the Delaunay cavity, enforcement of edges.
7. The volume remesher where it is not the same code: `zaldy_3d.c`, hashing of
   ridges (`hash_3d.c`), shell of an edge, collapses and swaps, `MMG3D_anatets_ani`, `split4bar`, the
   octree; the surface remesher's `zaldy_s.c`, `hash_s.c`.
8. The in-place permutation of the renumbering; the gradation loop.

Runs planned for them: one for the library and its return codes, one for the memory and
the API, with bounds of the same order as above; the later items may need the place of
runs that this project has now. Out of scope: floating-point computations of
lengths, metrics and qualities, input and output, the Fortran bindings, the external
libraries (Scotch, the elasticity solver, VTK).
