------------------------------ MODULE MCIntake ------------------------------
(* Instances of Intake for TLC: outer is what is submitted, inner an       *)
(* archive that may lie in it, leaf a file that is none.                   *)
EXTENDS Intake

File(path, size) == [path |-> path, file |-> "leaf", size |-> size, is |-> "file",
                     locked |-> FALSE, sound |-> TRUE, bomb |-> FALSE]
Nested(path) == [File(path, 1) EXCEPT !.file = "inner"]

MCEntries == {File("a", 1), File("a", 3), File("b", 4), Nested("c"),
              [File("d", 0) EXCEPT !.is = "dir"], [File("e", 1) EXCEPT !.is = "other"],
              [File("f", 1) EXCEPT !.locked = TRUE], [File("g", 1) EXCEPT !.sound = FALSE],
              [File("h", 2) EXCEPT !.bomb = TRUE]}

Make(kind, entries) == [kind |-> kind, entries |-> entries, fault |-> "none"]

MCOuter ==
    [kind : Kinds \ {"plain", "stream"}, fault : {"none"},
     entries : {<<x, y>> : x, y \in MCEntries}
          \cup {<<Nested("a"), Nested("b"), Nested("c"), File("d", 1)>>,
                <<File("a", 3), Nested("b"), File("c", 3)>>}]
    \cup {[Make(kind, <<File("a", 1)>>) EXCEPT !.fault = f] :
             kind \in Kinds \ {"plain", "stream"}, f \in {"damaged", "expands"}}
    \cup {Make("stream", <<File("a", n)>>) : n \in {1, 4}}
    \cup {Make("stream", <<Nested("a")>>)}

MCInner == {Make("zip", <<Nested("x"), File("y", 3)>>),
            [Make("rar", <<File("x", 1)>>) EXCEPT !.fault = "damaged"],
            Make("7z", <<[File("x", 1) EXCEPT !.locked = TRUE]>>)}

MCContents == {[leaf |-> Make("plain", <<>>), inner |-> i, outer |-> o] :
                  i \in MCInner, o \in MCOuter}
=============================================================================
