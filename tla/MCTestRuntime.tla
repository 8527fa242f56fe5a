--------------------------- MODULE MCTestRuntime ---------------------------
(* Pipelines in the linear form and small graphs, some with references to  *)
(* steps that come later, over files that decode, parse and add up or not. *)
EXTENDS TestRuntime

Unparsed == [malformed |-> TRUE]
Content(utf8, json) == [utf8 |-> utf8, json |-> json, size |-> 2]
Summable == Content(TRUE, List(<<1, 2, 1>>))
Overflowing == Content(TRUE, List(<<4, 3, -4>>))
NotJson == Content(TRUE, Unparsed)
NotText == Content(FALSE, Unparsed)
TwoBuilds == {"b1", "b2"}

Supply(a, b, genuine) ==
    [declared |-> {"A", "B"}, supplied |-> [A |-> a, B |-> b], genuine |-> genuine]

SomeInputs ==
    {Supply(File(c), b, TRUE) : c \in {Summable, Overflowing, NotJson, NotText},
                               b \in {File(Summable), List(<<1, 2>>)}}
        \cup {Supply(File(Summable), List(<<1, 2>>), FALSE)}

(* The linear form.                                                        *)
Load == <<[op |-> "LOAD_ARTIFACT", binding |-> "A"]>>
Parse == <<[op |-> "READ_BYTES"], [op |-> "DECODE_UTF8"], [op |-> "PARSE_JSON"]>>
Reduced == {<<>>} \cup {<<[op |-> op]>> : op \in {"COUNT", "SUM", "MIN", "UNIQUE", "SORT"}}
Asserted == {[op |-> "ASSERT_EQ", value |-> Number(3)],
             [op |-> "ASSERT_GTE", value |-> Number(1)],
             [op |-> "ASSERT_CONTAINS", value |-> Number(2)],
             [op |-> "ASSERT_SET_EQUAL", value |-> List(<<2, 1>>)]}
Linear ==
    {[steps |-> Load \o Parse \o reduced \o <<last>>] :
        reduced \in Reduced, last \in Asserted}
    \cup {[steps |-> Load \o Parse \o <<[op |-> "COUNT"], a, b>>] :
            a \in Asserted, b \in Asserted}
    \cup {[steps |-> Parse \o <<[op |-> "ASSERT_EQ", value |-> Number(3)]>>],
          [steps |-> Load \o <<[op |-> "READ_BYTES"],
                               [op |-> "BYTE_COMPARE", binding |-> "B"],
                               [op |-> "ASSERT_EQ", value |-> Truth(TRUE)]>>],
          [steps |-> Load \o <<[op |-> "READ_BYTES"], [op |-> "COUNT"]>>]}

(* Graphs: two assertions on a number, each reference to any of the steps. *)
Pairs ==
    {[steps |-> <<Step(1, op, [value |-> Bound("B")]),
                  Step(2, "ASSERT_GTE", [actual |-> Output(r1, o1), expected |-> Literal(Number(2))]),
                  Step(3, "ASSERT_EQ", [actual |-> Output(r2, "value"), expected |-> Literal(Number(k))])>>,
      result |-> Output(r3, "assertion")] :
        op \in {"SUM", "MIN"}, o1 \in {"value", "assertion"},
        r1 \in 1 .. 3, r2 \in 1 .. 2, r3 \in {2, 3, 4}, k \in {1, 3}}

(* Graphs over bytes: the operand of each step may be any other step.      *)
OverBytes ==
    {[steps |-> <<Step(1, "LOAD_ARTIFACT", [binding |-> Bound(name)]),
                  Step(2, "READ_BYTES", [artifact |-> Output(r1, "artifact")]),
                  Step(3, "BYTE_COMPARE", [left |-> Output(r2, "bytes"), right |-> Bound("B")]),
                  Step(4, "ASSERT_EQ", [actual |-> Output(3, "comparison"),
                                        expected |-> Literal(Truth(TRUE))])>>,
      result |-> Output(4, "assertion")] :
        name \in {"A", "B", "C"}, r1 \in {1, 2}, r2 \in {1, 2, 3}}

SomeSpecifications == Linear \cup Pairs \cup OverBytes
=============================================================================
