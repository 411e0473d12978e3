---------------------------- MODULE MCAcquisition ----------------------------
EXTENDS Acquisition

CONSTANTS lroot, lsym, lpos

\* A server that knows n nodes and may name any of them as a neighbour.
Everyone(n) == [i \in 1 .. n |-> 1 .. n]

Request(mode, locators, slots, asks, bytes, failing) ==
    [mode |-> mode, siblings |-> FALSE, supplier |-> FALSE, locator |-> locators,
     up |-> [t \in DOMAIN locators |-> 1], down |-> [t \in DOMAIN locators |-> 2],
     maxNodes |-> slots, maxRequests |-> asks, maxEvidence |-> bytes, faults |-> failing,
     world |-> Everyone(3)]

\* Two targets whose walks may meet, with a request limit they can use up.
Slice == Request("SLICE", <<lroot, lpos>>, 3, 5, 12, {})
Meeting == [Request("INCOMING", <<lroot, lpos>>, 2, 5, 14, {"FAILED"}) EXCEPT !.up = <<3, 2>>, !.world = Everyone(2)]
\* One target and a graph in which identity order and depth order disagree.
Deep == [Request("INCOMING", <<lroot>>, 5, 7, 16, {}) EXCEPT
            !.up = <<3>>, !.world = <<{4}, {1}, {2, 5}, {}, {4}>>]
\* A target named by a symbol and an alias of the root, slots for one node only.
Aliases == Request("INCOMING", <<lroot, lsym, lroot>>, 1, 5, 12, {"FAILED", "IDENTIFIER_MISS"})
\* Every fault, a client that supplies documents, and little room for evidence.
Faulty == [Request("SLICE", <<lsym, lpos>>, 2, 5, 8, FaultKinds) EXCEPT !.supplier = TRUE]
\* Sibling expansion of a lone root and of a root with its alias.
Siblings == [Request("INCOMING", <<lroot>>, 2, 5, 12, {"FAILED", "IDENTIFIER_MISS"}) EXCEPT !.siblings = TRUE]
Peers == [Request("SLICE", <<lroot, lroot>>, 2, 5, 16, {}) EXCEPT !.siblings = TRUE]

\* No slot, no request or no evidence at all: everything is accounted blocked.
NoSlots == [Slice EXCEPT !.maxNodes = 0]
NoAsks == [Faulty EXCEPT !.maxRequests = 0]
NoBytes == [Siblings EXCEPT !.maxEvidence = 0]

AllRequests == {Slice, Meeting, Deep, Aliases, Faulty, Siblings, Peers, NoSlots, NoAsks, NoBytes}
=============================================================================
