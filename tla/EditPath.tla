------------------------------ MODULE EditPath ------------------------------
(***************************************************************************)
(* The permutation encoding of clock delta compression                      *)
(* (rempi_clock_delta_compression.cpp and rempi_compression_util.cpp).      *)
(*                                                                         *)
(* A chunk of receive events is observed in some order.  Sorted by          *)
(* (clock, source) the events get the numbers 0 .. n-1 (clock_order); what  *)
(* is written is not the observed order itself but a short list of moves    *)
(* [id, delay] that turns 0 .. n-1 into it.  The moves are read off a       *)
(* shortest path through the grid of observed rows and sorted columns.      *)
(***************************************************************************)
EXTENDS Integers, Sequences, SequencesExt, FiniteSets, FiniteSetsExt

EDIT_ADD    == 1
EDIT_IGNORE == 0
EDIT_REMOVE == -1

-----------------------------------------------------------------------------
(* The search.  A tree is its nodes in the order they were made and the     *)
(* list of its leaves; parent 0 is the NULL parent.                         *)

EmptyTree == [nodes |-> << >>, leaves |-> << >>]

(* The first node from `node' up to the root that lies above and to the     *)
(* left of (row, column), 0 if there is none.                               *)
find_shortest_node(nodes, node, row, column) ==
    LET up[i \in 0..node] ==
            IF i = 0 THEN 0
            ELSE IF nodes[i].row < row /\ nodes[i].column < column
                 THEN i ELSE up[nodes[i].parent]
    IN  up[node]

Gap(nodes, i, row, column) ==
    [rows    |-> IF i = 0 THEN row ELSE row - (nodes[i].row + 1),
     columns |-> IF i = 0 THEN column ELSE column - (nodes[i].column + 1)]

Cost_Rows(nodes, i, row, column) ==
    (IF i = 0 THEN 1 ELSE nodes[i].distance) + Gap(nodes, i, row, column).rows

Cost(nodes, i, row, column) ==
    LET g == Gap(nodes, i, row, column)
    IN  (IF i = 0 THEN 1 ELSE nodes[i].distance) + g.rows + g.columns

sweep_non_dandidate_leaf(tree, start) ==
    [tree EXCEPT !.leaves = SelectSeq(@, LAMBDA i : tree.nodes[i].column >= start)]

(* A new node hangs below the first leaf path that is strictly cheaper than *)
(* all before it; a leaf that becomes its parent is no longer a leaf.       *)
add_node(tree, row, column, start) ==
    LET above(k) == find_shortest_node(tree.nodes, tree.leaves[k], row, column)
        cost(k)  == Cost(tree.nodes, above(k), row, column)
        able     == {k \in DOMAIN tree.leaves :
                        above(k) # 0 /\ cost(k) < row + column + 1}
        cheapest == Min({k \in able : \A j \in able : cost(k) <= cost(j)})
        parent   == IF able = {} THEN 0 ELSE above(cheapest)
        gap      == Gap(tree.nodes, parent, row, column)
        node     == [row |-> row, column |-> column, parent |-> parent,
                     rows |-> gap.rows, columns |-> gap.columns,
                     distance |-> IF parent = 0 THEN row + column + 1
                                  ELSE cost(cheapest) + 1]
        others   == SelectSeq(tree.leaves, LAMBDA i : i # parent)
        grown    == [nodes  |-> Append(tree.nodes, node),
                     leaves |-> Append(others, Len(tree.nodes) + 1)]
    IN  IF column = start THEN sweep_non_dandidate_leaf(grown, start) ELSE grown

-----------------------------------------------------------------------------
(* The scan of compress: for each observed event, where the search for its  *)
(* column starts, the column, and the first column not matched yet.         *)

next_start_search_it(up, left, search, start) ==
    IF up > left \/ search = -1 THEN start ELSE search + 1

(* Outside 0 .. n-1 is the error "Searched to the end". *)
find_matched_clock_column(left, from, n) ==
    LET found == {c \in from..(n - 1) : c = left}
    IN  IF found = {} THEN n ELSE Min(found)

update_start_it(start, matched, n) ==
    Min({c \in start..n : c \notin matched})

ScanStep(scan, left, n) ==
    LET up     == IF scan.search = -1 THEN 0 ELSE scan.search
        from   == next_start_search_it(up, left, scan.search, scan.start)
        column == find_matched_clock_column(left, from, n)
        seen   == scan.matched \union {column}
    IN  IF scan.failed \/ column = n THEN [scan EXCEPT !.failed = TRUE]
        ELSE [tree    |-> add_node(scan.tree, Cardinality(scan.matched), column, scan.start),
              search  |-> column,
              matched |-> seen,
              start   |-> update_start_it(scan.start, seen, n),
              failed  |-> FALSE]

(* The search tree of an observed order, its last node the corner (n, n). *)
WithCorner(scan, n) == [scan EXCEPT !.tree = add_node(@, n, n, scan.start)]

Search(observed) ==
    WithCorner(FoldLeft(LAMBDA scan, left : ScanStep(scan, left, Len(observed)),
                        [tree |-> EmptyTree, search |-> -1, matched |-> {},
                         start |-> 0, failed |-> FALSE],
                        observed),
               Len(observed))

get_shortest_distance(tree) == Last(tree.nodes).distance - 1

-----------------------------------------------------------------------------
(* The script along the path from the root to the corner: <<id, type>>, the *)
(* rows already replaced by the clock order of the event observed there     *)
(* (convert_to_diff_reversed read backwards, after change_to_seq_order_id). *)

Entry(id, type) == [id |-> id, type |-> type]

Script(tree, observed) ==
    LET part(d) == [k \in 1..d.rows |->
                        Entry(observed[d.row - d.rows + k], EDIT_ADD)]
                   \o [k \in 1..d.columns |->
                        Entry(d.column - d.columns + k - 1, EDIT_REMOVE)]
                   \o <<Entry(d.column, EDIT_IGNORE)>>
        to[i \in 0..Len(tree.nodes)] ==
            IF i = 0 THEN << >>
            ELSE to[tree.nodes[i].parent] \o part(tree.nodes[i])
    IN  Front(to[Len(tree.nodes)])

(* The entry of the same id before entry j; 0 if j is the first of its id. *)
Earlier(script, j) ==
    LET same == {k \in 1..(j - 1) : /\ script[k].id = script[j].id
                                    /\ script[k].type # EDIT_IGNORE}
    IN  IF same = {} THEN 0 ELSE Max(same)

(* The ids of which one of the two entries lies before entry j. *)
Pending(script, j) ==
    {id \in {script[k].id : k \in 1..(j - 1)} :
        Cardinality({k \in 1..(j - 1) : /\ script[k].id = id
                                        /\ script[k].type # EDIT_IGNORE}) = 1}

Delay_Unsigned(script, j) ==
    Cardinality({k \in (Earlier(script, j) + 1)..(j - 1) : script[k].type = EDIT_IGNORE})

Delay(script, j) ==
    LET pending == Pending(script, j)
        counted == {k \in (Earlier(script, j) + 1)..(j - 1) :
                       \/ script[k].type = EDIT_IGNORE
                       \/ script[k].type = EDIT_REMOVE /\ script[k].id \in pending
                       \/ script[k].type = EDIT_ADD /\ script[k].id \notin pending}
    IN  IF script[j].type = EDIT_REMOVE THEN -Cardinality(counted)
        ELSE Cardinality(counted)

(* One move for every pair of entries, made at the second of the two. *)
convert_to_diff_binary(script) ==
    LET second == {j \in DOMAIN script : /\ script[j].type # EDIT_IGNORE
                                         /\ Earlier(script, j) # 0}
        at     == SetToSortSeq(second, LAMBDA a, b : a < b)
    IN  [k \in DOMAIN at |-> [id |-> script[at[k]].id, delay |-> Delay(script, at[k])]]

(* rempi_clock_delta_compression::compress *)
compress(observed) ==
    convert_to_diff_binary(Script(Search(observed).tree, observed))

-----------------------------------------------------------------------------
(* Decoding: rempi_encoder_cdc::cdc_prepare_decode_indices.                 *)

(* erase, advance by delay, insert.  Moving an iterator outside the list is *)
(* undefined behaviour: the list becomes << >>, which is no permutation.    *)
Move(list, m) ==
    LET at   == CHOOSE k \in DOMAIN list : list[k] = m.id
        left == RemoveAt(list, at)
        to   == at + m.delay
    IN  IF \E k \in DOMAIN list : list[k] = m.id
        THEN IF to \in 1..(Len(left) + 1) THEN InsertAt(left, to, m.id) ELSE << >>
        ELSE << >>

Permuted(count, moves) ==
    FoldLeft(Move, [k \in 1..count |-> k - 1], moves)

(* For every clock order the position, from 0, at which it was observed. *)
cdc_prepare_decode_indices(count, moves) ==
    LET list == Permuted(count, moves)
    IN  [v \in 0..(count - 1) |->
            IF \E k \in DOMAIN list : list[k] = v
            THEN (CHOOSE k \in DOMAIN list : list[k] = v) - 1 ELSE -1]

-----------------------------------------------------------------------------
(* Linear prediction in words of `Word' values, as size_t wraps.            *)

At(v, i) == IF i < 1 THEN 0 ELSE v[i]

compress_by_linear_prediction(v, Word) ==
    [i \in DOMAIN v |-> (v[i] - 2 * At(v, i - 1) + At(v, i - 2)) % Word]

decompress_by_linear_prediction(v, Word) ==
    LET value[i \in Int] == IF i < 1 THEN 0
                            ELSE (v[i] + 2 * value[i - 1] - value[i - 2]) % Word
    IN  [i \in DOMAIN v |-> value[i]]

(* A word read back as a signed integer: the (int) cast of the decoder. *)
Signed(w, Word) == IF w < Word \div 2 THEN w ELSE w - Word

=============================================================================
