------------------------- MODULE MCProofEvaluation -------------------------
(***************************************************************************)
(* Two propositions and two tests, one of the corrected iteration and one  *)
(* of the final product.  The main proposition's expression combines a     *)
(* leaf with a second operator; the other proposition occurs in it, with   *)
(* an expression of its own or none, required or optional.  One more suite *)
(* is circular and one lacks a leaf's timing.                              *)
(***************************************************************************)
EXTENDS ProofEvaluation, Sequences

Iteration == [earliest |-> 17, requiredBy |-> 18, phase |-> "ITERATION"]
Product == [earliest |-> 21, requiredBy |-> 22, phase |-> "PRODUCT"]

Node(owner, type, children, k, target, timing) ==
    [owner |-> owner, type |-> type, children |-> children, k |-> k, target |-> target, timing |-> timing]

(* main: op1(early, op2(late, other)), or two of early, op2(late, other)   *)
(* and other; the expression of other, if it has one: late.                *)
Combined(op1, op2, kind, timing, own, optional) ==
    LET other == Node("main", kind, {}, 0, "other", timing)
        two == op1 = "AT_LEAST_K"
        nodes == <<Node("main", op1, IF two THEN {2, 3, 7} ELSE {2, 3}, 2, "", NoTiming),
                   Node("main", "test", {}, 0, "early", NoTiming),
                   Node("main", op2, {4, 5}, 0, "", NoTiming),
                   Node("main", "test", {}, 0, "late", NoTiming),
                   other,
                   Node("other", "test", {}, 0, "late", NoTiming)>>
    IN  [nodes |-> IF two THEN Append(nodes, other) ELSE nodes,
         root |-> [q \in {"main", "other"} |-> IF q = "main" THEN 1 ELSE IF own THEN 6 ELSE 0],
         tests |-> [t \in {"early", "late"} |->
                       [targets |-> IF t = "early" THEN {"main"} ELSE {"main", "other"},
                        timing |-> IF t = "early" THEN Iteration ELSE Product]],
         optional |-> optional, applicable |-> {"main", "other"}]

MCSuites ==
    {Combined(ops[1], ops[2], "proposition", Product, own, {"other"}) :
        ops \in {<<"ALL_OF", "ANY_OF">>, <<"ANY_OF", "ALL_OF">>, <<"AT_LEAST_K", "ANY_OF">>},
        own \in BOOLEAN}
    \cup {Combined(op1, "ANY_OF", "obligation", Product, FALSE, {"other"}) : op1 \in Operators}
    \cup {Combined("ALL_OF", "ANY_OF", "applicability", Iteration, TRUE, {}),
          Combined("ALL_OF", "ANY_OF", "proposition", NoTiming, FALSE, {"other"}),
          [Combined("ALL_OF", "ALL_OF", "proposition", NoTiming, TRUE, {}) EXCEPT
              !.nodes[6] = Node("other", "proposition", {}, 0, "main", NoTiming)]}
=============================================================================
