---------------------------- MODULE MatchingSets ----------------------------
(***************************************************************************)
(* Matching sets (rempi_request_mg.cpp, rempi_is_test_id = 1).  Receives    *)
(* that one matching call may complete belong together, and the events of   *)
(* each set are recorded and replayed apart.  The recorded run puts them    *)
(* together by the call sites (mpi_call_id) of the receives and of the      *)
(* matching calls; what the record keeps, and all the replay has, is the    *)
(* set of each tag.                                                         *)
(*                                                                         *)
(* The tables are a record t:                                               *)
(*   set_of_call   mpi_call_id_to_matching_set_id                           *)
(*   tags_of_call  mpi_call_id_to_comm_tag_umap                             *)
(*   set_of_tag    comm_tag_to_matching_set_id                              *)
(*   args          request_to_recv_args_umap: what is known of a receive    *)
(*   failed        whether a REMPI_ERR was met                              *)
(* CDC supports MPI_COMM_WORLD only, so a tag stands for <<comm, tag>>.     *)
(***************************************************************************)
EXTENDS Integers, Sequences, SequencesExt, FiniteSets, FiniteSetsExt, TLC

CONSTANTS UNKNOWN   \* REMPI_REQMG_MATCHING_SET_ID_UNKNOWN

EmptyTables ==
    [set_of_call |-> << >>, tags_of_call |-> << >>, set_of_tag |-> << >>,
     args |-> << >>, failed |-> FALSE]

Fail(t) == [t EXCEPT !.failed = TRUE]
Put(f, x, y) == (x :> y) @@ f
Without(f, x) == [y \in DOMAIN f \ {x} |-> f[y]]

add_comm_and_tag_to_mpi_call_id(t, call, tag) ==
    LET known == IF call \in DOMAIN t.tags_of_call THEN t.tags_of_call[call] ELSE {}
    IN  [t EXCEPT !.tags_of_call = Put(@, call, known \union {tag})]

(* The receives among the requests of a matching call, in their order. *)
Receives(t, requests) == SelectSeq(requests, LAMBDA q : q \in DOMAIN t.args)

(* get_matching_set_id_from: the set of the tags of the receives, UNKNOWN   *)
(* without a receive, "none" if it meets a tag without a set, "clash" if    *)
(* it meets two sets first.                                                 *)
SetOfTags(t, requests) ==
    LET tags == [i \in DOMAIN Receives(t, requests) |-> t.args[Receives(t, requests)[i]].tag]
    IN  FoldLeft(LAMBDA set, tag :
                    CASE set \in {"none", "clash"}         -> set
                      [] tag \notin DOMAIN t.set_of_tag    -> "none"
                      [] set \notin {UNKNOWN, t.set_of_tag[tag]} -> "clash"
                      [] OTHER                             -> t.set_of_tag[tag],
                 UNKNOWN, tags)

-----------------------------------------------------------------------------
(* The recorded run.                                                        *)

(* rempi_reqmg_register_recv_request; its call may have a set already. *)
RecordRecv(t, request, call, tag) ==
    LET set == IF call \in DOMAIN t.set_of_call THEN t.set_of_call[call] ELSE UNKNOWN
    IN  [add_comm_and_tag_to_mpi_call_id(t, call, tag) EXCEPT
            !.args = Put(@, request, [tag |-> tag, call |-> call, set |-> set])]

(* rempi_reqmg_assign_matching_set_id_to_recv: the receives without a set,  *)
(* and their calls, get this one; a receive of another set keeps it.        *)
AssignToRecv(t, set, requests) ==
    FoldLeft(LAMBDA u, q :
                IF u.args[q].set # UNKNOWN THEN u
                ELSE [u EXCEPT !.args[q].set = set,
                               !.set_of_call = Put(@, u.args[q].call, set)],
             t, Receives(t, requests))

(* rempi_reqmg_assign_matching_set_id for a call without a set: the one set *)
(* of its receives, else a new one, named after the call.                   *)
AssignSet(t, call, requests) ==
    LET sets == {t.args[q].set : q \in ToSet(Receives(t, requests))} \ {UNKNOWN}
    IN  CASE Cardinality(sets) > 1 -> Fail(t)
          [] Cardinality(sets) = 1 ->
                [t EXCEPT !.set_of_call = Put(@, call, CHOOSE s \in sets : TRUE)]
          [] OTHER -> AssignToRecv([t EXCEPT !.set_of_call = Put(@, call, call)], call, requests)

(* map_comm_and_tag_to_matching_set_id looks up every request, those that   *)
(* completed before (MPI_REQUEST_NULL) too.                                 *)
MapTags(t, requests, set) ==
    LET tags == {t.args[q].tag : q \in ToSet(Receives(t, requests))}
    IN  IF \/ Receives(t, requests) # requests
           \/ \E tag \in tags \intersect DOMAIN t.set_of_tag : t.set_of_tag[tag] # set
        THEN Fail(t)
        ELSE [t EXCEPT !.set_of_tag = [tag \in tags |-> set] @@ @]

(* rempi_reqmg_get_matching_set_id_3 for a matching call: the tables after  *)
(* it and the set its results are recorded under.                           *)
RecordCall(t, call, requests) ==
    LET set == SetOfTags(t, requests)
        u   == AssignSet(t, call, requests)
    IN  IF call \in DOMAIN t.set_of_call
        THEN [tables |-> AssignToRecv(t, t.set_of_call[call], requests), set |-> t.set_of_call[call]]
        ELSE IF set = "clash" THEN [tables |-> Fail(t), set |-> UNKNOWN]
        ELSE IF set # "none" THEN [tables |-> t, set |-> set]
        ELSE IF u.failed THEN [tables |-> u, set |-> UNKNOWN]
        ELSE [tables |-> MapTags(u, requests, u.set_of_call[call]), set |-> u.set_of_call[call]]

(* rempi_reqmg_deregister_recv_request *)
Deregister(t, request) == [t EXCEPT !.args = Without(@, request)]

(* rempi_reqmg_report_message_matching and deregister: the tag a receive    *)
(* was completed with is a tag of the receive's call.                       *)
Report(t, request, tag) ==
    Deregister(add_comm_and_tag_to_mpi_call_id(t, t.args[request].call, tag), request)

TagsToSets_Mapped(t) ==
    [t EXCEPT !.set_of_tag = @]

(* rempi_reqmg_get_matching_set_id_map, at MPI_Finalize: every tag of a     *)
(* call gets the set of the call; two sets for a tag are an error.          *)
TagsToSets(t) ==
    LET pairs == {<<tag, t.set_of_tag[tag]>> : tag \in DOMAIN t.set_of_tag}
                   \union UNION {{<<tag, t.set_of_call[c]>> : tag \in t.tags_of_call[c]} :
                                    c \in DOMAIN t.set_of_call \intersect DOMAIN t.tags_of_call}
    IN  IF \E a, b \in pairs : a[1] = b[1] /\ a[2] # b[2] THEN Fail(t)
        ELSE [t EXCEPT !.set_of_tag =
                 [tag \in {a[1] : a \in pairs} |-> (CHOOSE a \in pairs : a[1] = tag)[2]]]

-----------------------------------------------------------------------------
(* The replay starts from the tags in the footer of the record              *)
(* (rempi_reqmg_set_matching_set_id_map).                                   *)
Reread(t) == [EmptyTables EXCEPT !.set_of_tag = t.set_of_tag]

ReplayRecv(t, request, tag) ==
    IF tag \notin DOMAIN t.set_of_tag THEN Fail(t)
    ELSE [t EXCEPT !.args = Put(@, request, [tag |-> tag, call |-> UNKNOWN, set |-> t.set_of_tag[tag]])]

ReplayCall(t, requests) ==
    LET set == SetOfTags(t, requests)
    IN  IF set \in {"none", "clash"} THEN [tables |-> Fail(t), set |-> UNKNOWN]
        ELSE [tables |-> t, set |-> set]
=============================================================================
